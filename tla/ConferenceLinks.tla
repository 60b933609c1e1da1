-------------------------- MODULE ConferenceLinks --------------------------
(***************************************************************************)
(* The meeting link of one participant group (conference_invitation) and   *)
(* the texts of its project's meeting, one per language                    *)
(* (project_meeting_translation).  An update asks which languages have a   *)
(* text before its transaction begins, and by that answer changes a text   *)
(* or inserts one.  The transaction is one step: it locks the rows it      *)
(* writes, and a deadlock undoes one of two like any other failure.        *)
(*                                                                         *)
(* The schema is not in the repository: a unique key on project and        *)
(* language would refuse a second text, and without one it is inserted.    *)
(***************************************************************************)
EXTENDS Sequences

CONSTANTS
  LinkCall,    \* requests; each brings a link and texts of its own
  Listing,     \* the sequences of languages that requests bring texts for
  Known,       \* the languages the code has an id for
  LinkFaults   \* "commit": a transaction may be rolled back

VARIABLES
  texts,       \* rows of project_meeting_translation: who inserted, who worded each
  invitations, \* the links in the group's rows of conference_invitation
  linkCall,    \* where each request is, and what it knows
  earlier      \* history: the requests committed when an update asked for languages

linkVars == <<texts, invitations, linkCall, earlier>>

LinkInit ==
  /\ texts = {}
  /\ invitations = <<>>
  /\ linkCall = [c \in LinkCall |-> [at |-> "idle"]]
  /\ earlier = [c \in LinkCall |-> {}]

LinkMoves(c, to) == linkCall' = [linkCall EXCEPT ![c] = [at |-> to]]

Languages == {t.lang : t \in texts}
Committed == {c \in LinkCall : linkCall[c].at \in {"added", "updated"}}

\* The rows that c inserts for a listing: one for each entry in a language of langs.
NewTexts(c, list, langs) ==
  {[lang |-> list[i], by |-> c, entry |-> i, says |-> c] : i \in {j \in DOMAIN list : list[j] \in langs}}

\* AddConferenceLinkMRA: a text for each known language listed, there or not,
\* and one more row for the link.
AddLink(c, list) ==
  /\ linkCall[c].at = "idle"
  /\ texts' = texts \cup NewTexts(c, list, Known)
  /\ invitations' = Append(invitations, c)
  /\ LinkMoves(c, "added")
  /\ UNCHANGED earlier

\* Mutant: the answer is of the texts of another project.
ReadLanguages_None(c, list) ==
  /\ linkCall[c].at = "idle"
  /\ linkCall' = [linkCall EXCEPT ![c] = [at |-> "update", list |-> list, seen |-> {}]]
  /\ earlier' = [earlier EXCEPT ![c] = Committed]
  /\ UNCHANGED <<texts, invitations>>

\* GetExistingMeetingLanguagesMRA, on a connection of its own.
ReadLanguages(c, list) ==
  /\ linkCall[c].at = "idle"
  /\ linkCall' = [linkCall EXCEPT ![c] = [at |-> "update", list |-> list, seen |-> Languages]]
  /\ earlier' = [earlier EXCEPT ![c] = Committed]
  /\ UNCHANGED <<texts, invitations>>

\* UpdateConferenceLinkMRA: a language that was there has its texts reworded, and
\* with them the group's link is changed; one that was not gets a text, and a
\* request that brings none but those is answered without storing its link.
UpdateLink(c) ==
  LET list == linkCall[c].list
      seen == linkCall[c].seen
      reworded == {list[i] : i \in DOMAIN list} \cap Known \cap seen
  IN /\ linkCall[c].at = "update"
     /\ texts' = {IF t.lang \in reworded THEN [t EXCEPT !.says = c] ELSE t : t \in texts}
                 \cup NewTexts(c, list, Known \ seen)
     /\ invitations' = IF reworded = {} THEN invitations ELSE [i \in DOMAIN invitations |-> c]
     /\ LinkMoves(c, "updated")
     /\ UNCHANGED earlier

\* A statement is refused (a text that is there, if a key forbids a second) or
\* the transaction fails: nothing of it remains.
LinkFails(c) ==
  /\ \/ /\ linkCall[c].at = "update"
        /\ \E i \in DOMAIN linkCall[c].list :
             linkCall[c].list[i] \in (Known \cap Languages) \ linkCall[c].seen
     \/ linkCall[c].at \in {"idle", "update"} /\ "commit" \in LinkFaults
  /\ LinkMoves(c, "failed")
  /\ UNCHANGED <<texts, invitations, earlier>>

LinkNext ==
  \E c \in LinkCall :
    \/ \E list \in Listing : AddLink(c, list) \/ ReadLanguages(c, list)
    \/ UpdateLink(c)
    \/ LinkFails(c)

LinkSpec == LinkInit /\ [][LinkNext]_linkVars

-----------------------------------------------------------------------------
\* A language has a second text only if an add brought it, which asks nobody, or
\* if each of two updates had asked for the languages before the other was done.
SecondTextHasCause ==
  \A t, u \in texts :
    \/ t.lang # u.lang
    \/ t.by = u.by
    \/ "added" \in {linkCall[t.by].at, linkCall[u.by].at}
    \/ t.by \notin earlier[u.by] /\ u.by \notin earlier[t.by]
=============================================================================
