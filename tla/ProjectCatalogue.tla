-------------------------- MODULE ProjectCatalogue --------------------------
(***************************************************************************)
(* The projects of QS as their managers see them: they are created, edited *)
(* and listed, the selection of a list is kept for the next visit, and the *)
(* schedule of a project is exported: three queries, then a file in S3     *)
(* under the project's name and an address for a quarter of an hour.       *)
(* Requests overlap, and respondents answer meanwhile.                     *)
(*                                                                         *)
(* Columns, the order of rows and spreadsheets are left out.               *)
(***************************************************************************)
EXTENDS Naturals, FiniteSets

CONSTANTS
  Project, Name, Account, \* of the Salesforce client
  Person,           \* respondents
  Export, Visit,    \* requests for exports; one user's requests for the list
  CatalogueFaults,  \* statements and calls that may fail
  CatalogueEdits    \* bounds what others change

VARIABLES
  project,    \* rows of project with those that are created with it
  reply,      \* by respondent: the project, whether there is an interview, and with a host, and whether no time suited
  export,     \* requests: where they are, what they read, which file was got
  bucket,     \* the file under each name: the request it is of, or none
  visit,      \* requests for the list
  selection,  \* the user's saved accounts, and the request they are of
  meanwhile   \* history: edits, and lists that were read

catalogueVars == <<project, reply, export, bucket, visit, selection, meanwhile>>

Fails(what) == what \in CatalogueFaults
CountsAsEdit ==
  /\ meanwhile.edits < CatalogueEdits
  /\ meanwhile' = [meanwhile EXCEPT !.edits = @ + 1]

-----------------------------------------------------------------------------
(* Projects *)

Absent == [there |-> FALSE, name |-> "none", account |-> "none", client |-> 0, status |-> 0,
           post |-> 0, moderator |-> 0, generated |-> FALSE]

\* CreateProjectFull: one transaction of eight inserts, which may fail at any.
CreateProject(p, name, account, client) ==
  /\ ~project[p].there
  /\ CountsAsEdit
  /\ project' \in {[project EXCEPT ![p] = [Absent EXCEPT !.there = TRUE, !.name = name, !.account = account,
                                                         !.client = client, !.status = 1]]}
                  \cup IF Fails("statement") THEN {project} ELSE {}
  /\ UNCHANGED <<reply, export, bucket, visit, selection>>

\* UpdateProjectMRA: a request's first buffer, and without any the mark that its
\* scheduler was generated.
UpdateDetails(p, post, moderator) ==
  /\ project[p].there
  /\ CountsAsEdit
  /\ project' = [project EXCEPT ![p] = IF post # 0 THEN [@ EXCEPT !.post = post]
                                       ELSE IF moderator # 0 THEN [@ EXCEPT !.moderator = moderator]
                                       ELSE [@ EXCEPT !.generated = TRUE]]
  /\ UNCHANGED <<reply, export, bucket, visit, selection>>

Rename(p, name) ==
  /\ project[p].there
  /\ CountsAsEdit
  /\ project' = [project EXCEPT ![p].name = name]
  /\ UNCHANGED <<reply, export, bucket, visit, selection>>

-----------------------------------------------------------------------------
(* The list *)

\* GetProjectsMRA is of client 1, whoever asks; GetProjectsForModsMRA, for a
\* request without a body, of the client asked for.
Listed(accounts, client) ==
  {p \in Project :
     /\ project[p].there
     /\ IF accounts = {} THEN project[p].client = client
        ELSE project[p].client = 1 /\ project[p].account \in accounts}

ReadList(v, accounts, client) ==
  /\ visit[v].at = "idle"
  /\ visit' = [visit EXCEPT ![v] = [at |-> IF accounts = {} THEN "answered" ELSE "save", accounts |-> accounts,
                                    clients |-> {project[p].client : p \in Listed(accounts, client)},
                                    overlapped |-> \E w \in Visit \ {v} : visit[w].at = "save", turn |-> 1 + meanwhile.turn]]
  /\ meanwhile' = [meanwhile EXCEPT !.turn = @ + 1]
  /\ UNCHANGED <<project, reply, export, bucket, selection>>

\* SaveUserSelection: one transaction, old rows out, new ones in.
SaveSelection(v) ==
  /\ visit[v].at = "save"
  /\ visit' = [visit EXCEPT ![v].at = "answered"]
  /\ selection' = [accounts |-> visit[v].accounts, by |-> v]
  /\ UNCHANGED <<project, reply, export, bucket, meanwhile>>

\* It is only logged.
SaveFails(v) ==
  /\ visit[v].at = "save" /\ Fails("statement")
  /\ visit' = [visit EXCEPT ![v].at = "unsaved"]
  /\ UNCHANGED <<project, reply, export, bucket, selection, meanwhile>>

-----------------------------------------------------------------------------
(* HandleProjectExportMRA *)

NoExport == [at |-> "idle", of |-> "none", held |-> {}, declined |-> {}, name |-> "none", got |-> "none",
             failed |-> FALSE, changed |-> {}]
Of(p) == {r \in Person : reply[r].of = p}
Goes(e, at) == [export EXCEPT ![e].at = at]

\* Respondents of the project whose interview, of any status, has an invitation
\* and a host.
ReadHeld(e, p) ==
  /\ export[e].at = "idle" /\ project[p].there
  /\ export' = [export EXCEPT ![e] = [NoExport EXCEPT !.at = "declined", !.of = p,
                                                      !.held = {r \in Of(p) : reply[r].interview = "hosted"}]]
  /\ UNCHANGED <<project, reply, bucket, visit, selection, meanwhile>>

\* no_timeslot_selected = 1
Declined(p) == {r \in Of(p) : reply[r].declined}

\* Its failure is only logged.
ReadDeclined(e) ==
  /\ export[e].at = "declined"
  /\ \/ export' = [Goes(e, "name") EXCEPT ![e].declined = Declined(export[e].of)]
     \/ Fails("statement") /\ export' = [Goes(e, "name") EXCEPT ![e].failed = TRUE]
  /\ UNCHANGED <<project, reply, bucket, visit, selection, meanwhile>>

\* The name as it is now; without it, one made of the id.
ReadName(e) ==
  /\ export[e].at = "name"
  /\ \E name \in {project[export[e].of].name} \cup IF Fails("statement") THEN {export[e].of} ELSE {} :
       export' = [Goes(e, "upload") EXCEPT ![e].name = name]
  /\ UNCHANGED <<project, reply, bucket, visit, selection, meanwhile>>

\* Mutant: every schedule is "Schedule.xlsx".
Key_Fixed(e) == CHOOSE n \in Name : TRUE

Key(e) == export[e].name

Upload(e) ==
  /\ export[e].at = "upload"
  /\ \/ bucket' = [bucket EXCEPT ![Key(e)] = e] /\ export' = Goes(e, "signed")
     \/ Fails("call") /\ export' = Goes(e, "refused") /\ UNCHANGED bucket
  /\ UNCHANGED <<project, reply, visit, selection, meanwhile>>

\* The browser follows the address.
Download(e) ==
  /\ export[e].at = "signed"
  /\ export' = [Goes(e, "downloaded") EXCEPT ![e].got = bucket[Key(e)]]
  /\ UNCHANGED <<project, reply, bucket, visit, selection, meanwhile>>

-----------------------------------------------------------------------------
\* A respondent answers: books, with a host or (before one is assigned, or when
\* moderators were reset) without, or finds no time.
Answer(r, interview, declined) ==
  /\ reply[r].interview # interview \/ reply[r].declined # declined
  /\ reply' = [reply EXCEPT ![r].interview = interview, ![r].declined = declined]
  /\ export' = [e \in Export |-> [export[e] EXCEPT !.changed = @ \cup {r}]]
  /\ CountsAsEdit
  /\ UNCHANGED <<project, bucket, visit, selection>>

CatalogueInit ==
  /\ project \in [Project -> {Absent} \cup {[Absent EXCEPT !.there = TRUE, !.name = n, !.account = CHOOSE a \in Account : TRUE,
                                                           !.client = 1, !.status = 1] : n \in Name}]
  /\ reply \in [Person -> [of : Project, interview : {"none"}, declined : BOOLEAN]]
  /\ export = [e \in Export |-> NoExport]
  /\ bucket = [n \in Name \cup Project |-> "none"]
  /\ visit = [v \in Visit |-> [at |-> "idle", accounts |-> {}, clients |-> {}, overlapped |-> FALSE, turn |-> 0]]
  /\ selection = [accounts |-> {}, by |-> "none"]
  /\ meanwhile = [edits |-> 0, turn |-> 0]

CatalogueNext ==
  \/ \E p \in Project, n \in Name, a \in Account, c \in {1, 2} : CreateProject(p, n, a, c)
  \/ \E p \in Project, b \in {0, 1}, m \in {0, 1} : UpdateDetails(p, b, m)
  \/ \E p \in Project, n \in Name : Rename(p, n)
  \/ \E v \in Visit : \/ \E accounts \in SUBSET Account, c \in {1, 2} : ReadList(v, accounts, c)
                      \/ SaveSelection(v) \/ SaveFails(v)
  \/ \E e \in Export : \/ \E p \in Project : ReadHeld(e, p)
                       \/ ReadDeclined(e) \/ ReadName(e) \/ Upload(e) \/ Download(e)
  \/ \E r \in Person, i \in {"none", "booked", "hosted"}, d \in BOOLEAN : Answer(r, i, d)

CatalogueSpec == CatalogueInit /\ [][CatalogueNext]_catalogueVars

-----------------------------------------------------------------------------
(* Properties *)

\* The file that a manager downloads is the one that the request wrote, unless
\* another export wrote since under a project's name that was the same.
DownloadIsOwn ==
  \A e \in Export :
    export[e].at = "downloaded" /\ export[e].got # e =>
      export[e].got \in Export /\ export[export[e].got].name = export[e].name

\* A schedule has respondents of its project only, and every one who had answered
\* before and did not change it meanwhile, once for each answer, unless the second
\* query failed or the interview has no host.
ScheduleIsComplete ==
  \A e \in Export :
    export[e].at \in {"name", "upload", "signed", "downloaded"} =>
      /\ export[e].held \cup export[e].declined \subseteq Of(export[e].of)
      /\ \A r \in Of(export[e].of) \ export[e].changed :
           /\ r \in export[e].held <=> reply[r].interview = "hosted"
           /\ ~export[e].failed => (r \in export[e].declined <=> reply[r].declined)

\* The saved selection is a request's own, and of the last one that was read,
\* unless that overlapped another or was not saved.
SelectionIsOfLast ==
  \A v \in Visit :
    visit[v].at = "answered" /\ visit[v].accounts # {} =>
      \/ selection.accounts = visit[v].accounts
      \/ \E w \in Visit \ {v} : /\ visit[w].accounts # {}
                                /\ visit[w].turn > visit[v].turn \/ visit[v].overlapped

\* No list has projects of two clients, although it may have another client's
\* than the one asked for.
ListIsOfOneClient == \A v \in Visit : Cardinality(visit[v].clients) <= 1

\* Managers are given what is theirs.
CatalogueIsSound == DownloadIsOwn /\ ScheduleIsComplete /\ SelectionIsOfLast /\ ListIsOfOneClient
=============================================================================
