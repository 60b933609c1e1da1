-------------------------- MODULE ProjectPagesProofs --------------------------
(***************************************************************************)
(* Proofs about the pages of a project, for any requests and faults.       *)
(*                                                                         *)
(* Moderators: a reset that nobody has overtaken still knows the members   *)
(* as they are, so that the difference it applies leaves its list.         *)
(*                                                                         *)
(* Texts of the project's meeting: what an update knows holds every        *)
(* language of those who had committed when it asked; so the texts it      *)
(* inserts are in none of their languages.                                 *)
(*                                                                         *)
(* What IRIS keeps of a slot: as long as nothing has gone wrong one        *)
(* request at a time works on the slot, and at each of its places the rows *)
(* and the calendar differ by just what it has still to write.             *)
(***************************************************************************)
EXTENDS ProjectStaff, ConferenceLinks, IrisSlot, FiniteSetTheorems, TLAPS

-----------------------------------------------------------------------------
(* The moderators *)

SeenIsCurrent ==
  \A c \in StaffCall \ overtaken : staffCall[c].at = "reset" => staffCall[c].seen = staff

StaffIInv ==
  /\ DOMAIN staffCall = StaffCall
  /\ SeenIsCurrent
  /\ ResetHolds
  /\ StrayHoursHaveCause

\* Initially nobody's request is under way, and only members have hours.
LEMMA StaffInitially == StaffInit => StaffIInv
BY DEF StaffInit, StaffIInv, SeenIsCurrent, ResetHolds, StrayHoursHaveCause

\* What one request does to its own entry leaves those of the others.
LEMMA StaffMovesOne ==
  ASSUME DOMAIN staffCall = StaffCall, NEW c \in StaffCall, NEW to, StaffMoves(c, to)
  PROVE  /\ DOMAIN staffCall' = StaffCall
         /\ staffCall'[c] = to
         /\ \A d \in StaffCall \ {c} : staffCall'[d] = staffCall[d]
BY DEF StaffMoves

\* The difference from the members themselves leaves the list; a reset that takes
\* somebody away takes all stray hours too, and one that does not only adds members.
LEMMA ResetKeeps ==
  ASSUME StaffIInv, NEW c \in StaffCall, ResetStaff(c)
  PROVE  StaffIInv'
<1> DEFINE to == [at |-> "answered", list |-> staffCall[c].list, left |-> staff']
<1>1. /\ DOMAIN staffCall' = StaffCall
      /\ staffCall'[c] = to
      /\ \A d \in StaffCall \ {c} : staffCall'[d] = staffCall[d]
  BY StaffMovesOne DEF StaffIInv, ResetStaff
<1>2. to.at = "answered" /\ to.list = staffCall[c].list /\ to.left = staff'
  OBVIOUS
<1> HIDE DEF to
<1>3. overtaken \subseteq overtaken' /\ \A d \in StaffCall \ {c} : staffCall[d].at = "reset" => d \in overtaken'
  BY DEF ResetStaff, Overtake
<1>4. SeenIsCurrent'
  BY <1>1, <1>2, <1>3 DEF SeenIsCurrent
<1>5. c \notin overtaken' => staff' = staffCall[c].list
  BY <1>3 DEF ResetStaff, StaffIInv, SeenIsCurrent, ToRemove, ToAdd
<1>6. ResetHolds'
  BY <1>1, <1>2, <1>3, <1>5 DEF StaffIInv, ResetHolds
<1>7. StrayHoursHaveCause'
  <2>1. CASE staffCall[c].list = {} \/ ToRemove(c) # {}
    BY <2>1 DEF ResetStaff, StrayHoursHaveCause
  <2>2. CASE staffCall[c].list # {} /\ ToRemove(c) = {}
    BY <2>2 DEF ResetStaff, Forget, StaffIInv, StrayHoursHaveCause
  <2> QED
    BY <2>1, <2>2
<1> QED
  BY <1>1, <1>4, <1>6, <1>7 DEF StaffIInv

\* A member who leaves takes the hours along, and overtakes every reset under way.
LEMMA UnassignKeeps ==
  ASSUME StaffIInv, NEW c \in StaffCall, NEW m, UnassignMember(c, m)
  PROVE  StaffIInv'
<1>1. /\ DOMAIN staffCall' = StaffCall
      /\ staffCall'[c] = [at |-> "over"]
      /\ \A d \in StaffCall \ {c} : staffCall'[d] = staffCall[d]
  BY StaffMovesOne DEF StaffIInv, UnassignMember
<1>2. overtaken \subseteq overtaken' /\ \A d \in StaffCall \ {c} : staffCall[d].at = "reset" => d \in overtaken'
  BY DEF UnassignMember, Overtake
<1>3. SeenIsCurrent' /\ ResetHolds'
  BY <1>1, <1>2 DEF StaffIInv, SeenIsCurrent, ResetHolds
<1>4. StrayHoursHaveCause'
  BY DEF UnassignMember, Forget, StaffIInv, StrayHoursHaveCause
<1> QED
  BY <1>1, <1>3, <1>4 DEF StaffIInv

\* Every step keeps the invariant.
LEMMA StaffSteps == StaffIInv /\ [StaffNext]_staffVars => StaffIInv'
<1> SUFFICES ASSUME StaffIInv, [StaffNext]_staffVars PROVE StaffIInv'
  OBVIOUS
<1>1. ASSUME NEW c \in StaffCall, NEW list \in SUBSET Member, ReadStaff(c, list)
      PROVE  StaffIInv'
  <2> DEFINE to == [at |-> "reset", list |-> list, seen |-> staff]
  <2>1. /\ DOMAIN staffCall' = StaffCall
        /\ staffCall'[c] = to
        /\ \A d \in StaffCall \ {c} : staffCall'[d] = staffCall[d]
    BY <1>1, StaffMovesOne DEF StaffIInv, ReadStaff
  <2>2. to.at = "reset" /\ to.seen = staff
    OBVIOUS
  <2> HIDE DEF to
  <2> QED
    BY <1>1, <2>1, <2>2 DEF StaffIInv, ReadStaff, SeenIsCurrent, ResetHolds, StrayHoursHaveCause
<1>2. ASSUME NEW c \in StaffCall, ResetStaff(c)
      PROVE  StaffIInv'
  BY <1>2, ResetKeeps
<1>3. ASSUME NEW c \in StaffCall, ResetRefused(c)
      PROVE  StaffIInv'
  <2>1. /\ DOMAIN staffCall' = StaffCall
        /\ staffCall'[c] = [at |-> "over"]
        /\ \A d \in StaffCall \ {c} : staffCall'[d] = staffCall[d]
    BY <1>3, StaffMovesOne DEF StaffIInv, ResetRefused
  <2> QED
    BY <1>3, <2>1 DEF StaffIInv, ResetRefused, SeenIsCurrent, ResetHolds, StrayHoursHaveCause
<1>4. ASSUME NEW c \in StaffCall, NEW m \in Member, UnassignMember(c, m)
      PROVE  StaffIInv'
  BY <1>4, UnassignKeeps
<1>5. ASSUME NEW c \in StaffCall, NEW m \in Member, CheckDefining(c, m)
      PROVE  StaffIInv'
  <2> DEFINE to == [at |-> "upsert", member |-> m]
  <2>1. /\ DOMAIN staffCall' = StaffCall
        /\ staffCall'[c] = to
        /\ \A d \in StaffCall \ {c} : staffCall'[d] = staffCall[d]
    BY <1>5, StaffMovesOne DEF StaffIInv, CheckDefining
  <2>2. to.at = "upsert"
    OBVIOUS
  <2> HIDE DEF to
  <2> QED
    BY <1>5, <2>1, <2>2 DEF StaffIInv, CheckDefining, SeenIsCurrent, ResetHolds, StrayHoursHaveCause
<1>6. ASSUME NEW c \in StaffCall, UpsertHours(c)
      PROVE  StaffIInv'
  <2>1. /\ DOMAIN staffCall' = StaffCall
        /\ staffCall'[c] = [at |-> "over"]
        /\ \A d \in StaffCall \ {c} : staffCall'[d] = staffCall[d]
    BY <1>6, StaffMovesOne DEF StaffIInv, UpsertHours
  <2>2. SeenIsCurrent' /\ ResetHolds'
    BY <1>6, <2>1 DEF StaffIInv, UpsertHours, SeenIsCurrent, ResetHolds
  <2>3. StrayHoursHaveCause'
    BY <1>6 DEF StaffIInv, UpsertHours, StrayHoursHaveCause
  <2> QED
    BY <2>1, <2>2, <2>3 DEF StaffIInv
<1>7. CASE ProjectEdited
  BY <1>7 DEF ProjectEdited, StaffIInv, SeenIsCurrent, ResetHolds, StrayHoursHaveCause
<1>8. CASE UNCHANGED staffVars
  BY <1>8 DEF staffVars, StaffIInv, SeenIsCurrent, ResetHolds, StrayHoursHaveCause
<1> QED
  BY <1>1, <1>2, <1>3, <1>4, <1>5, <1>6, <1>7, <1>8 DEF StaffNext

\* However many requests change the staff at once, a reset that nobody overtook
\* leaves the members its list names, and hours of somebody who is not a member
\* were written when they were not one.
THEOREM StaffSound == StaffSpec => []StaffHolds
<1>1. StaffIInv => StaffHolds
  BY DEF StaffIInv, StaffHolds
<1> QED
  BY <1>1, StaffInitially, StaffSteps, PTL DEF StaffSpec

-----------------------------------------------------------------------------
(* The texts *)

TextsAreRows ==
  \A t \in texts :
    /\ t = [lang |-> t.lang, by |-> t.by, entry |-> t.entry, says |-> t.says]
    /\ t.by \in Committed

EarlierCommitted == \A c \in LinkCall : earlier[c] \subseteq Committed

SeenHoldsEarlier ==
  \A c \in LinkCall : linkCall[c].at = "update" =>
    \A t \in texts : t.by \in earlier[c] => t.lang \in linkCall[c].seen

\* A text that an update inserted is not in a language of those before it.
NewLanguage ==
  \A t, u \in texts :
    t.lang = u.lang /\ t.by # u.by /\ linkCall[t.by].at = "updated" => u.by \notin earlier[t.by]

LinkIInv ==
  /\ DOMAIN linkCall = LinkCall
  /\ DOMAIN earlier = LinkCall
  /\ TextsAreRows
  /\ EarlierCommitted
  /\ SeenHoldsEarlier
  /\ NewLanguage

\* Two texts of a language by two updates: neither knew of the other.
LEMMA NewLanguageSuffices == LinkIInv => SecondTextHasCause
BY DEF LinkIInv, NewLanguage, SecondTextHasCause, TextsAreRows, Committed

\* Initially there is no text.
LEMMA LinksInitially == LinkInit => LinkIInv
BY DEF LinkInit, LinkIInv, TextsAreRows, EarlierCommitted, SeenHoldsEarlier, NewLanguage

\* The rows a request inserts are its own, in languages of langs.
LEMMA NewTextsAre ==
  ASSUME NEW c, NEW list, NEW langs, NEW t \in NewTexts(c, list, langs)
  PROVE  /\ t = [lang |-> t.lang, by |-> t.by, entry |-> t.entry, says |-> t.says]
         /\ t.by = c
         /\ t.lang \in langs
BY DEF NewTexts

\* An add commits, and what nobody knew of before is in nobody's way.
LEMMA AddKeeps ==
  ASSUME LinkIInv, NEW c \in LinkCall, NEW list \in Listing, AddLink(c, list)
  PROVE  LinkIInv'
<1>1. /\ DOMAIN linkCall' = LinkCall
      /\ linkCall'[c].at = "added"
      /\ \A d \in LinkCall \ {c} : linkCall'[d] = linkCall[d]
      /\ c \notin Committed
      /\ earlier' = earlier
  BY DEF AddLink, LinkMoves, LinkIInv, Committed
<1>2. Committed' = Committed \cup {c}
  BY <1>1 DEF Committed
<1>3. \A t \in texts' : t \in texts \/ (t \in NewTexts(c, list, Known) /\ t.by = c)
  BY NewTextsAre DEF AddLink
<1>4. TextsAreRows'
  BY <1>2, <1>3, NewTextsAre DEF LinkIInv, TextsAreRows
<1>5. EarlierCommitted'
  BY <1>1, <1>2 DEF LinkIInv, EarlierCommitted
<1>6. \A d \in LinkCall : c \notin earlier[d]
  BY <1>1 DEF LinkIInv, EarlierCommitted
<1>7. SeenHoldsEarlier'
  BY <1>1, <1>3, <1>6 DEF LinkIInv, SeenHoldsEarlier
<1>8. \A t \in texts : t.by \in LinkCall \ {c}
  BY <1>1 DEF LinkIInv, TextsAreRows, Committed
<1>9. NewLanguage'
  BY <1>1, <1>3, <1>6, <1>8 DEF LinkIInv, NewLanguage
<1> QED
  BY <1>1, <1>4, <1>5, <1>7, <1>9 DEF LinkIInv

\* An update knows the languages of those committed when it asks.
LEMMA ReadKeeps ==
  ASSUME LinkIInv, NEW c \in LinkCall, NEW list \in Listing, ReadLanguages(c, list)
  PROVE  LinkIInv'
<1> DEFINE to == [at |-> "update", list |-> list, seen |-> Languages]
<1>1. /\ DOMAIN linkCall' = LinkCall /\ DOMAIN earlier' = LinkCall
      /\ linkCall'[c] = to
      /\ earlier'[c] = Committed
      /\ \A d \in LinkCall \ {c} : linkCall'[d] = linkCall[d] /\ earlier'[d] = earlier[d]
      /\ c \notin Committed
      /\ texts' = texts
  BY DEF ReadLanguages, LinkIInv, Committed
<1>2. to.at = "update" /\ to.seen = Languages
  OBVIOUS
<1> HIDE DEF to
<1>3. Committed' = Committed
  BY <1>1, <1>2 DEF Committed
<1>4. TextsAreRows' /\ EarlierCommitted'
  BY <1>1, <1>3 DEF LinkIInv, TextsAreRows, EarlierCommitted
<1>5. SeenHoldsEarlier'
  BY <1>1, <1>2 DEF LinkIInv, SeenHoldsEarlier, Languages
<1>6. \A t \in texts : t.by \in LinkCall \ {c}
  BY <1>1 DEF LinkIInv, TextsAreRows, Committed
<1>7. NewLanguage'
  BY <1>1, <1>6 DEF LinkIInv, NewLanguage
<1> QED
  BY <1>1, <1>4, <1>5, <1>7 DEF LinkIInv

\* Rewording leaves a text its language and its author, and what an update inserts
\* is in no language that it knew of.
LEMMA UpdateKeeps ==
  ASSUME LinkIInv, NEW c \in LinkCall, UpdateLink(c)
  PROVE  LinkIInv'
<1> DEFINE list == linkCall[c].list
           seen == linkCall[c].seen
<1>1. /\ DOMAIN linkCall' = LinkCall
      /\ linkCall'[c].at = "updated"
      /\ \A d \in LinkCall \ {c} : linkCall'[d] = linkCall[d]
      /\ linkCall[c].at = "update"
      /\ c \notin Committed
      /\ earlier' = earlier
  BY DEF UpdateLink, LinkMoves, LinkIInv, Committed
<1>2. Committed' = Committed \cup {c}
  BY <1>1 DEF Committed
<1>3. \A t \in texts' :
        \/ \E u \in texts : t = u \/ t = [u EXCEPT !.says = c]
        \/ t \in NewTexts(c, list, Known \ seen)
  BY DEF UpdateLink
<1>4. \A t \in texts' :
        /\ t = [lang |-> t.lang, by |-> t.by, entry |-> t.entry, says |-> t.says]
        /\ \/ \E u \in texts : t.lang = u.lang /\ t.by = u.by
           \/ t.by = c /\ t.lang \notin seen
  <2> SUFFICES ASSUME NEW t \in texts'
               PROVE  /\ t = [lang |-> t.lang, by |-> t.by, entry |-> t.entry, says |-> t.says]
                      /\ \/ \E u \in texts : t.lang = u.lang /\ t.by = u.by
                         \/ t.by = c /\ t.lang \notin seen
    OBVIOUS
  <2>1. CASE t \in NewTexts(c, list, Known \ seen)
    BY <2>1, NewTextsAre
  <2>2. ASSUME NEW u \in texts, t = u \/ t = [u EXCEPT !.says = c]
        PROVE  /\ t = [lang |-> t.lang, by |-> t.by, entry |-> t.entry, says |-> t.says]
               /\ t.lang = u.lang /\ t.by = u.by
    <3>1. u = [lang |-> u.lang, by |-> u.by, entry |-> u.entry, says |-> u.says]
      BY DEF LinkIInv, TextsAreRows
    <3>2. [u EXCEPT !.says = c] = [lang |-> u.lang, by |-> u.by, entry |-> u.entry, says |-> c]
      BY <3>1
    <3> QED
      BY <2>2, <3>1, <3>2
  <2> QED
    BY <1>3, <2>1, <2>2
<1>5. \A t \in texts : t.by \in LinkCall \ {c}
  BY <1>1 DEF LinkIInv, TextsAreRows, Committed
<1>6. \A d \in LinkCall : c \notin earlier[d]
  BY <1>1 DEF LinkIInv, EarlierCommitted
<1>7. \A u \in texts : u.by \in earlier[c] => u.lang \in seen
  BY <1>1 DEF LinkIInv, SeenHoldsEarlier
<1> HIDE DEF list, seen
<1>8. TextsAreRows'
  BY <1>2, <1>4 DEF LinkIInv, TextsAreRows
<1>9. EarlierCommitted'
  BY <1>1, <1>2 DEF LinkIInv, EarlierCommitted
<1>10. SeenHoldsEarlier'
  BY <1>1, <1>4, <1>6 DEF LinkIInv, SeenHoldsEarlier
<1>11. NewLanguage'
  <2> SUFFICES ASSUME NEW t \in texts', NEW u \in texts',
                      t.lang = u.lang, t.by # u.by, linkCall'[t.by].at = "updated"
               PROVE  u.by \notin earlier[t.by]
    BY <1>1 DEF NewLanguage
  <2>1. CASE u.by = c
    BY <2>1, <1>1, <1>4, <1>5, <1>6
  <2>2. CASE t.by = c /\ u.by # c
    <3>1. PICK v \in texts : u.lang = v.lang /\ u.by = v.by
      BY <1>4, <2>2
    <3>2. t.lang \notin seen
      BY <1>4, <1>5, <2>2
    <3> QED
      BY <1>7, <2>2, <3>1, <3>2
  <2>3. CASE t.by # c /\ u.by # c
    <3>1. PICK v \in texts : u.lang = v.lang /\ u.by = v.by
      BY <1>4, <2>3
    <3>2. PICK w \in texts : t.lang = w.lang /\ t.by = w.by
      BY <1>4, <2>3
    <3>3. linkCall[w.by].at = "updated"
      BY <1>1, <1>5, <3>2
    <3> QED
      BY <3>1, <3>2, <3>3 DEF LinkIInv, NewLanguage
  <2> QED
    BY <2>1, <2>2, <2>3
<1> QED
  BY <1>1, <1>8, <1>9, <1>10, <1>11 DEF LinkIInv

\* Every step keeps the invariant.
LEMMA LinkSteps == LinkIInv /\ [LinkNext]_linkVars => LinkIInv'
<1> SUFFICES ASSUME LinkIInv, [LinkNext]_linkVars PROVE LinkIInv'
  OBVIOUS
<1>1. ASSUME NEW c \in LinkCall, LinkFails(c)
      PROVE  LinkIInv'
  <2>1. /\ DOMAIN linkCall' = LinkCall
        /\ linkCall'[c].at = "failed"
        /\ \A d \in LinkCall \ {c} : linkCall'[d] = linkCall[d]
        /\ c \notin Committed
        /\ earlier' = earlier /\ texts' = texts
    BY <1>1 DEF LinkFails, LinkMoves, LinkIInv, Committed
  <2>2. Committed' = Committed
    BY <2>1 DEF Committed
  <2>3. \A t \in texts : t.by \in LinkCall \ {c}
    BY <2>1 DEF LinkIInv, TextsAreRows, Committed
  <2> QED
    BY <2>1, <2>2, <2>3 DEF LinkIInv, TextsAreRows, EarlierCommitted, SeenHoldsEarlier, NewLanguage
<1>2. CASE UNCHANGED linkVars
  BY <1>2 DEF linkVars, LinkIInv, TextsAreRows, EarlierCommitted, SeenHoldsEarlier, NewLanguage, Committed
<1> QED
  BY <1>1, <1>2, AddKeeps, ReadKeeps, UpdateKeeps DEF LinkNext

\* A language has a second text only by an add, or by two updates that each asked
\* for the languages (UpdateConferenceLinkMRA) before the other was done.
THEOREM SecondTexts == LinkSpec => []SecondTextHasCause
BY NewLanguageSuffices, LinksInitially, LinkSteps, PTL DEF LinkSpec

-----------------------------------------------------------------------------
(* A slot in IRIS and the calendar: IrisSlot.                              *)

Busy(c) == slotCall[c].at \notin {"idle", "over"}

\* The rows as they are between requests.
Steady ==
  /\ {e.row : e \in booked} = db.observers
  /\ db.events = booked
  /\ \E e : booked \subseteq {e}

Rooms == (\E h : db.hashes \subseteq {h}) /\ (\E p : db.pins \subseteq {p})

\* What holds at each place of a request that nothing has gone wrong for.
Place(c) ==
  LET k == slotCall[c]
  IN /\ k.at \in {"mark", "askHash", "setHash", "askPin", "addPin", "find", "events", "insert"} => Steady
     /\ k.at = "setHash" => db.hashes = {}
     /\ k.at = "addPin" => db.pins = {}
     /\ k.at = "find" => k = [at |-> "find", add |-> k.add]
     /\ k.at = "events" => k.row \in db.observers
     /\ k.at = "unbook" => k.events = booked /\ db.events = booked /\ \E e : booked \subseteq {e}
     /\ k.at = "unrecord" => booked = {} /\ k.events = {k.event} /\ db.events = {k.event}
     /\ k.at = "delete" => booked = {} /\ db.events = {}
     /\ k.at \in {"findNew", "askInvited", "invite", "book", "record"} => db.observers = {c} /\ db.events = {}
     /\ k.at \in {"findNew", "askInvited", "invite", "book"} => booked = {}
     /\ k.at \in {"askInvited", "invite", "book"} => k.row = c
     /\ k.at = "invite" => \A i \in db.invited : i.row # c
     /\ k.at = "record" => k.event = [row |-> c, by |-> c] /\ booked = {k.event}

Orderly ==
  /\ \A c, d \in SlotCall : Busy(c) /\ Busy(d) => c = d
  /\ Rooms
  /\ InvitedOnce
  /\ AtRest => Steady
  /\ \A c \in SlotCall : Busy(c) => Place(c)

SlotShape ==
  /\ DOMAIN slotCall = SlotCall
  /\ db = [noShow |-> db.noShow, hashes |-> db.hashes, pins |-> db.pins,
           observers |-> db.observers, events |-> db.events, invited |-> db.invited]

IrisIInv == SlotShape /\ (causes = {} => Orderly)

LEMMA IrisInitially == IrisInit => IrisIInv
<1> SUFFICES ASSUME IrisInit PROVE IrisIInv
  OBVIOUS
<1>1. SlotShape /\ \A c \in SlotCall : ~Busy(c)
  BY DEF IrisInit, SlotShape, Busy
<1>2. Rooms /\ InvitedOnce /\ Steady
  BY DEF IrisInit, Rooms, InvitedOnce, Steady
<1> QED
  BY <1>1, <1>2 DEF IrisIInv, Orderly

\* A request that goes on, or ends, while the others are at rest.
LEMMA GoesOn ==
  ASSUME IrisIInv, NEW c \in SlotCall, Busy(c), SlotShape',
         \A d \in SlotCall \ {c} : slotCall'[d] = slotCall[d],
         causes' = {} => causes = {} /\ Rooms' /\ InvitedOnce' /\ IF Busy(c)' THEN Place(c)' ELSE Steady'
  PROVE  IrisIInv'
<1> SUFFICES ASSUME causes' = {} PROVE Orderly'
  BY DEF IrisIInv
<1>1. \A d \in SlotCall \ {c} : ~Busy(d)
  BY DEF IrisIInv, Orderly
<1>2. \A d \in SlotCall \ {c} : ~Busy(d)'
  BY <1>1 DEF Busy
<1>3. AtRest' => ~Busy(c)'
  BY DEF AtRest, Busy
<1> QED
  BY <1>2, <1>3 DEF Orderly

\* Where one's own move leads, and what it leaves.
LEMMA SlotMovesOne ==
  ASSUME IrisIInv, NEW c \in SlotCall, NEW to, SlotMoves(c, to)
  PROVE  /\ DOMAIN slotCall' = SlotCall
         /\ slotCall'[c] = to
         /\ \A d \in SlotCall \ {c} : slotCall'[d] = slotCall[d]
BY DEF SlotMoves, IrisIInv, SlotShape

\* A request that begins beside no other finds the rows at rest.
LEMMA BeginsKeeps ==
  ASSUME IrisIInv, NEW c \in SlotCall, NEW to, Begins(c, to), to.at \in {"mark", "find", "insert"},
         to.at = "find" => to = [at |-> "find", add |-> to.add]
  PROVE  IrisIInv'
<1>1. /\ DOMAIN slotCall' = SlotCall
      /\ slotCall'[c] = to
      /\ \A d \in SlotCall \ {c} : slotCall'[d] = slotCall[d]
      /\ UNCHANGED <<db, booked>>
      /\ causes' = IF AtRest THEN causes ELSE causes \cup {"overlap"}
  BY SlotMovesOne DEF Begins
<1>2. SlotShape'
  BY <1>1 DEF IrisIInv, SlotShape
<1>3. ASSUME causes' = {} PROVE Orderly'
  <2>1. causes = {} /\ AtRest /\ Orderly /\ Steady
    BY <1>1, <1>3 DEF IrisIInv, Orderly
  <2>2. \A d \in SlotCall \ {c} : ~Busy(d)'
    BY <1>1, <2>1 DEF AtRest, Busy
  <2>3. Rooms' /\ InvitedOnce' /\ Steady'
    BY <1>1, <2>1 DEF Orderly, Rooms, InvitedOnce, Steady
  <2>4. Busy(c)' /\ ~AtRest'
    BY <1>1 DEF Busy, AtRest
  <2>5. Place(c)'
    BY <1>1, <2>3 DEF Place
  <2> QED
    BY <2>2, <2>3, <2>4, <2>5 DEF Orderly
<1> QED
  BY <1>2, <1>3 DEF IrisIInv

\* A read that nothing went wrong for saw the rows as they are.
LEMMA ReadsKeeps ==
  ASSUME IrisIInv, NEW c \in SlotCall, Busy(c), NEW to, Reads(c, to),
         causes = {} /\ Orderly /\ Place(c) /\ replica = db /\ UNCHANGED <<db, booked>> /\ slotCall'[c] = to
           => IF Busy(c)' THEN Place(c)' ELSE Steady'
  PROVE  IrisIInv'
<1>1. /\ DOMAIN slotCall' = SlotCall
      /\ slotCall'[c] = to
      /\ \A d \in SlotCall \ {c} : slotCall'[d] = slotCall[d]
      /\ UNCHANGED <<db, booked>>
      /\ causes' = IF replica = db THEN causes ELSE causes \cup {"lag"}
  BY SlotMovesOne DEF Reads
<1>2. SlotShape'
  BY <1>1 DEF IrisIInv, SlotShape
<1>3. ASSUME causes' = {}
      PROVE  causes = {} /\ Rooms' /\ InvitedOnce' /\ IF Busy(c)' THEN Place(c)' ELSE Steady'
  <2>1. causes = {} /\ replica = db /\ Orderly /\ Place(c)
    BY <1>1, <1>3 DEF IrisIInv, Orderly
  <2>2. Rooms' /\ InvitedOnce'
    BY <1>1, <2>1 DEF Orderly, Rooms, InvitedOnce
  <2> QED
    BY <1>1, <2>1, <2>2
<1> QED
  BY <1>1, <1>2, <1>3, GoesOn

\* A write of the request that nothing went wrong for.
LEMMA WritesKeeps ==
  ASSUME IrisIInv, NEW c \in SlotCall, Busy(c), NEW rows, NEW to, Writes(c, rows, to),
         rows = [noShow |-> rows.noShow, hashes |-> rows.hashes, pins |-> rows.pins,
                 observers |-> rows.observers, events |-> rows.events, invited |-> rows.invited],
         Orderly /\ Place(c) /\ UNCHANGED booked /\ slotCall'[c] = to /\ db' = rows
           => Rooms' /\ InvitedOnce' /\ IF Busy(c)' THEN Place(c)' ELSE Steady'
  PROVE  IrisIInv'
<1>1. /\ DOMAIN slotCall' = SlotCall
      /\ slotCall'[c] = to
      /\ \A d \in SlotCall \ {c} : slotCall'[d] = slotCall[d]
      /\ UNCHANGED <<booked, causes>> /\ db' = rows
  BY SlotMovesOne DEF Writes
<1>2. SlotShape'
  BY <1>1 DEF SlotShape
<1>3. ASSUME causes' = {}
      PROVE  causes = {} /\ Rooms' /\ InvitedOnce' /\ IF Busy(c)' THEN Place(c)' ELSE Steady'
  BY <1>1, <1>3 DEF IrisIInv, Orderly
<1> QED
  BY <1>1, <1>2, <1>3, GoesOn
-----------------------------------------------------------------------------

LEMMA SetNoShowKeeps ==
  ASSUME IrisIInv, NEW c \in SlotCall, SetNoShow(c)
  PROVE  IrisIInv'
<1> DEFINE to == [at |-> "askHash"]
           rows == [db EXCEPT !.noShow = TRUE]
<1>1. Busy(c) /\ Writes(c, rows, to) /\ slotCall[c].at = "mark"
  BY DEF SetNoShow, Busy
<1>2. ASSUME Orderly, Place(c), UNCHANGED booked, slotCall'[c] = to, db' = rows
      PROVE  Rooms' /\ InvitedOnce' /\ IF Busy(c)' THEN Place(c)' ELSE Steady'
  BY <1>1, <1>2 DEF IrisIInv, SlotShape, Busy, Place, Steady, Orderly, Rooms, InvitedOnce
<1> QED
  BY <1>1, <1>2, WritesKeeps DEF IrisIInv, SlotShape

LEMMA AskHashKeeps ==
  ASSUME IrisIInv, NEW c \in SlotCall, AskHash(c)
  PROVE  IrisIInv'
<1> DEFINE to == [at |-> IF replica.hashes = {} THEN "setHash" ELSE "askPin"]
<1>1. Busy(c) /\ Reads(c, to) /\ slotCall[c].at = "askHash"
  BY DEF AskHash, Busy
<1>2. ASSUME Orderly, Place(c), replica = db, UNCHANGED <<db, booked>>, slotCall'[c] = to
      PROVE  IF Busy(c)' THEN Place(c)' ELSE Steady'
  BY <1>1, <1>2 DEF Busy, Place, Steady
<1> QED
  BY <1>1, <1>2, ReadsKeeps

LEMMA SetHashKeeps ==
  ASSUME IrisIInv, NEW c \in SlotCall, SetHash(c)
  PROVE  IrisIInv'
<1> DEFINE to == [at |-> "askPin"]
           rows == [db EXCEPT !.hashes = @ \cup {c}]
<1>1. Busy(c) /\ Writes(c, rows, to) /\ slotCall[c].at = "setHash"
  BY DEF SetHash, Busy
<1>2. ASSUME Orderly, Place(c), UNCHANGED booked, slotCall'[c] = to, db' = rows
      PROVE  Rooms' /\ InvitedOnce' /\ IF Busy(c)' THEN Place(c)' ELSE Steady'
  BY <1>1, <1>2 DEF IrisIInv, SlotShape, Busy, Place, Steady, Orderly, Rooms, InvitedOnce
<1> QED
  BY <1>1, <1>2, WritesKeeps DEF IrisIInv, SlotShape

LEMMA AskPinKeeps ==
  ASSUME IrisIInv, NEW c \in SlotCall, AskPin(c)
  PROVE  IrisIInv'
<1> DEFINE to == [at |-> IF replica.pins = {} THEN "addPin" ELSE "over"]
<1>1. Busy(c) /\ Reads(c, to) /\ slotCall[c].at = "askPin"
  BY DEF AskPin, Busy
<1>2. ASSUME Orderly, Place(c), replica = db, UNCHANGED <<db, booked>>, slotCall'[c] = to
      PROVE  IF Busy(c)' THEN Place(c)' ELSE Steady'
  BY <1>1, <1>2 DEF Busy, Place, Steady
<1> QED
  BY <1>1, <1>2, ReadsKeeps

LEMMA AddPinKeeps ==
  ASSUME IrisIInv, NEW c \in SlotCall, AddPin(c)
  PROVE  IrisIInv'
<1> DEFINE to == [at |-> "over"]
           rows == [db EXCEPT !.pins = @ \cup {c}]
<1>1. Busy(c) /\ Writes(c, rows, to) /\ slotCall[c].at = "addPin"
  BY DEF AddPin, Busy
<1>2. ASSUME Orderly, Place(c), UNCHANGED booked, slotCall'[c] = to, db' = rows
      PROVE  Rooms' /\ InvitedOnce' /\ IF Busy(c)' THEN Place(c)' ELSE Steady'
  BY <1>1, <1>2 DEF IrisIInv, SlotShape, Busy, Place, Steady, Orderly, Rooms, InvitedOnce
<1> QED
  BY <1>1, <1>2, WritesKeeps DEF IrisIInv, SlotShape

LEMMA FindObserverKeeps ==
  ASSUME IrisIInv, NEW c \in SlotCall, FindObserver(c)
  PROVE  IrisIInv'
<1> SUFFICES ASSUME NEW to, Reads(c, to), slotCall[c].at = "find",
                    \/ replica.observers = {} /\ to = [slotCall[c] EXCEPT !.at = "delete"]
                    \/ \E r \in replica.observers : to = [at |-> "events", add |-> slotCall[c].add, row |-> r]
             PROVE  IrisIInv'
  BY DEF FindObserver
<1>1. Busy(c)
  BY DEF Busy
<1>2. ASSUME Orderly, Place(c), replica = db, UNCHANGED <<db, booked>>, slotCall'[c] = to
      PROVE  IF Busy(c)' THEN Place(c)' ELSE Steady'
  <2>1. Steady /\ slotCall[c] = [at |-> "find", add |-> slotCall[c].add]
    BY <1>2 DEF Place
  <2>2. CASE replica.observers = {} /\ to = [slotCall[c] EXCEPT !.at = "delete"]
    BY <1>2, <2>1, <2>2 DEF Busy, Place, Steady
  <2>3. CASE \E r \in replica.observers : to = [at |-> "events", add |-> slotCall[c].add, row |-> r]
    BY <1>2, <2>1, <2>3 DEF Busy, Place, Steady
  <2> QED
    BY <2>2, <2>3
<1> QED
  BY <1>1, <1>2, ReadsKeeps

LEMMA FindEventsKeeps ==
  ASSUME IrisIInv, NEW c \in SlotCall, FindEvents(c)
  PROVE  IrisIInv'
<1> DEFINE to == [at |-> "unbook", add |-> slotCall[c].add,
                  events |-> {e \in replica.events : e.row = slotCall[c].row}]
<1>1. Busy(c) /\ Reads(c, to) /\ slotCall[c].at = "events"
  BY DEF FindEvents, Busy
<1>2. ASSUME Orderly, Place(c), replica = db, UNCHANGED <<db, booked>>, slotCall'[c] = to
      PROVE  IF Busy(c)' THEN Place(c)' ELSE Steady'
  BY <1>1, <1>2 DEF Busy, Place, Steady
<1> QED
  BY <1>1, <1>2, ReadsKeeps

LEMMA UnbookKeeps ==
  ASSUME IrisIInv, NEW c \in SlotCall, Unbook(c)
  PROVE  IrisIInv'
<1> SUFFICES ASSUME NEW to, SlotMoves(c, to), UNCHANGED <<db, replica, causes>>, slotCall[c].at = "unbook",
                    \/ \E e \in slotCall[c].events : booked' = booked \ {e} /\ to = ToUnrecord(c, e)
                    \/ /\ slotCall[c].events = {} /\ UNCHANGED booked
                       /\ to = [at |-> "delete", add |-> slotCall[c].add]
             PROVE  IrisIInv'
  BY DEF Unbook
<1>1. Busy(c) /\ slotCall'[c] = to /\ SlotShape' /\ \A d \in SlotCall \ {c} : slotCall'[d] = slotCall[d]
  BY SlotMovesOne DEF Busy, IrisIInv, SlotShape
<1>2. ASSUME Orderly, Place(c)
      PROVE  Rooms' /\ InvitedOnce' /\ Busy(c)' /\ Place(c)'
  <2>1. Rooms' /\ InvitedOnce'
    BY <1>2 DEF Orderly, Rooms, InvitedOnce
  <2>2. slotCall[c].events = booked /\ db.events = booked /\ \E e : booked \subseteq {e}
    BY <1>2 DEF Place
  <2>3. CASE \E e \in slotCall[c].events : booked' = booked \ {e} /\ to = ToUnrecord(c, e)
    <3> PICK e \in booked : booked' = booked \ {e} /\ to = ToUnrecord(c, e)
      BY <2>2, <2>3
    <3>1. booked = {e}
      BY <2>2
    <3> QED
      BY <1>1, <2>1, <2>2, <3>1 DEF Busy, Place, ToUnrecord
  <2>4. CASE slotCall[c].events = {} /\ UNCHANGED booked /\ to = [at |-> "delete", add |-> slotCall[c].add]
    BY <1>1, <2>1, <2>2, <2>4 DEF Busy, Place
  <2> QED
    BY <2>3, <2>4
<1>3. ASSUME causes' = {}
      PROVE  causes = {} /\ Rooms' /\ InvitedOnce' /\ IF Busy(c)' THEN Place(c)' ELSE Steady'
  BY <1>1, <1>2, <1>3 DEF IrisIInv, Orderly
<1> QED
  BY <1>1, <1>3, GoesOn

LEMMA UnrecordKeeps ==
  ASSUME IrisIInv, NEW c \in SlotCall, Unrecord(c)
  PROVE  IrisIInv'
<1> DEFINE to == [at |-> "unbook", add |-> slotCall[c].add, events |-> slotCall[c].events \ {slotCall[c].event}]
           rows == [db EXCEPT !.events = @ \ {slotCall[c].event}]
<1>1. Busy(c) /\ Writes(c, rows, to) /\ slotCall[c].at = "unrecord"
  BY DEF Unrecord, Busy
<1>2. ASSUME Orderly, Place(c), UNCHANGED booked, slotCall'[c] = to, db' = rows
      PROVE  Rooms' /\ InvitedOnce' /\ IF Busy(c)' THEN Place(c)' ELSE Steady'
  BY <1>1, <1>2 DEF IrisIInv, SlotShape, Busy, Place, Steady, Orderly, Rooms, InvitedOnce
<1> QED
  BY <1>1, <1>2, WritesKeeps DEF IrisIInv, SlotShape

LEMMA DeleteObserverKeeps ==
  ASSUME IrisIInv, NEW c \in SlotCall, DeleteObserver(c)
  PROVE  IrisIInv'
<1> DEFINE to == After(slotCall[c].add)
           rows == [db EXCEPT !.observers = {}]
<1>1. Busy(c) /\ Writes(c, rows, to) /\ slotCall[c].at = "delete"
  BY DEF DeleteObserver, Busy, After
<1>2. ASSUME Orderly, Place(c), UNCHANGED booked, slotCall'[c] = to, db' = rows
      PROVE  Rooms' /\ InvitedOnce' /\ IF Busy(c)' THEN Place(c)' ELSE Steady'
  <2>1. booked = {} /\ db.events = {}
    BY <1>1, <1>2 DEF Place
  <2>2. Rooms' /\ InvitedOnce' /\ db'.observers = {} /\ db'.events = {}
    BY <1>2, <2>1 DEF IrisIInv, SlotShape, Orderly, Rooms, InvitedOnce
  <2>3. Steady'
    BY <1>2, <2>1, <2>2 DEF Steady
  <2>4. slotCall'[c].at \in {"insert", "over"}
    BY <1>2 DEF After
  <2> QED
    BY <2>2, <2>3, <2>4 DEF Busy, Place
<1> QED
  BY <1>1, <1>2, WritesKeeps DEF IrisIInv, SlotShape

LEMMA InsertObserverKeeps ==
  ASSUME IrisIInv, NEW c \in SlotCall, InsertObserver(c)
  PROVE  IrisIInv'
<1> DEFINE to == [at |-> "findNew"]
<1>1. Busy(c) /\ slotCall'[c] = to /\ SlotShape' /\ \A d \in SlotCall \ {c} : slotCall'[d] = slotCall[d]
  BY SlotMovesOne DEF InsertObserver, Busy, IrisIInv, SlotShape
<1>2. ASSUME causes' = {}
      PROVE  causes = {} /\ Rooms' /\ InvitedOnce' /\ IF Busy(c)' THEN Place(c)' ELSE Steady'
  <2>1. causes = {} /\ db.observers = {} /\ db' = [db EXCEPT !.observers = @ \cup {c}] /\ UNCHANGED booked
    BY <1>2 DEF InsertObserver
  <2>2. Orderly /\ Steady /\ SlotShape
    BY <1>1, <2>1 DEF IrisIInv, Orderly, Place, InsertObserver
  <2>3. Rooms' /\ InvitedOnce'
    BY <2>1, <2>2 DEF SlotShape, Orderly, Rooms, InvitedOnce
  <2>4. booked = {} /\ db.events = {}
    BY <2>1, <2>2 DEF Steady
  <2>5. db'.observers = {c} /\ db'.events = {} /\ booked' = {}
    BY <2>1, <2>2, <2>4 DEF SlotShape
  <2> QED
    BY <1>1, <2>1, <2>3, <2>5 DEF Busy, Place
<1> QED
  BY <1>1, <1>2, GoesOn

LEMMA FindInsertedKeeps ==
  ASSUME IrisIInv, NEW c \in SlotCall, FindInserted(c)
  PROVE  IrisIInv'
<1> SUFFICES ASSUME NEW to, Reads(c, to), slotCall[c].at = "findNew",
                    \/ replica.observers = {} /\ to = [at |-> "over"]
                    \/ \E r \in replica.observers : to = [at |-> "askInvited", row |-> r]
             PROVE  IrisIInv'
  BY DEF FindInserted
<1>1. Busy(c)
  BY DEF Busy
<1>2. ASSUME Orderly, Place(c), replica = db, UNCHANGED <<db, booked>>, slotCall'[c] = to
      PROVE  IF Busy(c)' THEN Place(c)' ELSE Steady'
  BY <1>2 DEF Busy, Place, Steady
<1> QED
  BY <1>1, <1>2, ReadsKeeps

LEMMA AskInvitedKeeps ==
  ASSUME IrisIInv, NEW c \in SlotCall, AskInvited(c)
  PROVE  IrisIInv'
<1> DEFINE to == [at |-> IF \E i \in replica.invited : i.row = slotCall[c].row THEN "book" ELSE "invite",
                  row |-> slotCall[c].row]
<1>1. Busy(c) /\ Reads(c, to) /\ slotCall[c].at = "askInvited"
  BY DEF AskInvited, Busy
<1>2. ASSUME Orderly, Place(c), replica = db, UNCHANGED <<db, booked>>, slotCall'[c] = to
      PROVE  IF Busy(c)' THEN Place(c)' ELSE Steady'
  BY <1>1, <1>2 DEF Busy, Place, Steady
<1> QED
  BY <1>1, <1>2, ReadsKeeps

LEMMA InviteKeeps ==
  ASSUME IrisIInv, NEW c \in SlotCall, Invite(c)
  PROVE  IrisIInv'
<1> DEFINE to == [at |-> "book", row |-> slotCall[c].row]
           rows == [db EXCEPT !.invited = @ \cup {[row |-> slotCall[c].row, by |-> c]}]
<1>1. Busy(c) /\ Writes(c, rows, to) /\ slotCall[c].at = "invite"
  BY DEF Invite, Busy
<1>2. ASSUME Orderly, Place(c), UNCHANGED booked, slotCall'[c] = to, db' = rows
      PROVE  Rooms' /\ InvitedOnce' /\ IF Busy(c)' THEN Place(c)' ELSE Steady'
  BY <1>1, <1>2 DEF IrisIInv, SlotShape, Busy, Place, Steady, Orderly, Rooms, InvitedOnce
<1> QED
  BY <1>1, <1>2, WritesKeeps DEF IrisIInv, SlotShape

LEMMA BookKeeps ==
  ASSUME IrisIInv, NEW c \in SlotCall, Book(c)
  PROVE  IrisIInv'
<1> DEFINE e == [row |-> slotCall[c].row, by |-> c]
           to == [at |-> "record", event |-> e]
<1>1. Busy(c) /\ slotCall'[c] = to /\ SlotShape' /\ \A d \in SlotCall \ {c} : slotCall'[d] = slotCall[d]
  BY SlotMovesOne DEF Book, Busy, IrisIInv, SlotShape
<1>2. ASSUME causes' = {}
      PROVE  causes = {} /\ Rooms' /\ InvitedOnce' /\ IF Busy(c)' THEN Place(c)' ELSE Steady'
  <2>1. causes = {} /\ booked' = booked \cup {e} /\ UNCHANGED db /\ slotCall[c].at = "book"
    BY <1>2 DEF Book
  <2>2. Orderly /\ Place(c)
    BY <1>1, <2>1 DEF IrisIInv, Orderly
  <2>3. Rooms' /\ InvitedOnce'
    BY <2>1, <2>2 DEF Orderly, Rooms, InvitedOnce
  <2>4. booked = {} /\ db.observers = {c} /\ db.events = {} /\ slotCall[c].row = c
    BY <2>1, <2>2 DEF Place
  <2>5. booked' = {e} /\ e = [row |-> c, by |-> c]
    BY <2>1, <2>4
  <2> QED
    BY <1>1, <2>1, <2>3, <2>4, <2>5 DEF Busy, Place
<1> QED
  BY <1>1, <1>2, GoesOn

LEMMA RecordEventKeeps ==
  ASSUME IrisIInv, NEW c \in SlotCall, RecordEvent(c)
  PROVE  IrisIInv'
<1> DEFINE to == [at |-> "over"]
           rows == [db EXCEPT !.events = @ \cup {slotCall[c].event}]
<1>1. Busy(c) /\ Writes(c, rows, to) /\ slotCall[c].at = "record"
  BY DEF RecordEvent, Busy
<1>2. ASSUME Orderly, Place(c), UNCHANGED booked, slotCall'[c] = to, db' = rows
      PROVE  Rooms' /\ InvitedOnce' /\ IF Busy(c)' THEN Place(c)' ELSE Steady'
  <2>1. booked = {[row |-> c, by |-> c]} /\ db.observers = {c} /\ db.events = {} /\ slotCall[c].event = [row |-> c, by |-> c]
    BY <1>1, <1>2 DEF Place
  <2>2. Rooms' /\ InvitedOnce' /\ db'.observers = {c} /\ db'.events = booked
    BY <1>2, <2>1 DEF IrisIInv, SlotShape, Orderly, Rooms, InvitedOnce
  <2>3. {e.row : e \in booked} = {c}
    BY <2>1
  <2>4. \E e : booked \subseteq {e}
    BY <2>1
  <2>5. Steady'
    BY <1>2, <2>2, <2>3, <2>4 DEF Steady
  <2> QED
    BY <1>2, <2>2, <2>5 DEF Busy
<1> QED
  BY <1>1, <1>2, WritesKeeps DEF IrisIInv, SlotShape

LEMMA PassesKeeps ==
  ASSUME IrisIInv, NEW c \in SlotCall, Passes(c)
  PROVE  IrisIInv'
BY SlotMovesOne DEF Passes, IrisIInv, SlotShape

LEMMA ReplicateKeeps ==
  ASSUME IrisIInv, Replicate
  PROVE  IrisIInv'
BY DEF Replicate, IrisIInv, SlotShape, Orderly, Busy, AtRest, Steady, Rooms, InvitedOnce, Place

LEMMA IrisSteps == IrisIInv /\ [IrisNext]_irisVars => IrisIInv'
<1> SUFFICES ASSUME IrisIInv, [IrisNext]_irisVars PROVE IrisIInv'
  OBVIOUS
<1>1. CASE Replicate
  BY <1>1, ReplicateKeeps
<1>2. ASSUME NEW c \in SlotCall, StartNoShow(c) PROVE IrisIInv'
  BY <1>2, BeginsKeeps DEF StartNoShow
<1>3. ASSUME NEW c \in SlotCall, NEW del \in BOOLEAN, NEW add \in BOOLEAN, StartObservers(c, del, add)
      PROVE  IrisIInv'
  BY <1>3, BeginsKeeps DEF StartObservers
<1>4. ASSUME NEW c \in SlotCall, SetNoShow(c) \/ AskHash(c) \/ SetHash(c) \/ AskPin(c) \/ AddPin(c) PROVE IrisIInv'
  BY <1>4, SetNoShowKeeps, AskHashKeeps, SetHashKeeps, AskPinKeeps, AddPinKeeps
<1>5. ASSUME NEW c \in SlotCall,
             FindObserver(c) \/ FindEvents(c) \/ Unbook(c) \/ Unrecord(c) \/ DeleteObserver(c) \/ InsertObserver(c)
      PROVE  IrisIInv'
  BY <1>5, FindObserverKeeps, FindEventsKeeps, UnbookKeeps, UnrecordKeeps, DeleteObserverKeeps, InsertObserverKeeps
<1>6. ASSUME NEW c \in SlotCall,
             FindInserted(c) \/ AskInvited(c) \/ Invite(c) \/ Book(c) \/ RecordEvent(c) \/ Passes(c)
      PROVE  IrisIInv'
  BY <1>6, FindInsertedKeeps, AskInvitedKeeps, InviteKeeps, BookKeeps, RecordEventKeeps, PassesKeeps
<1>7. CASE UNCHANGED irisVars
  BY <1>7 DEF irisVars, IrisIInv, SlotShape, Orderly, Busy, AtRest, Steady, Rooms, InvitedOnce, Place
<1> QED
  BY <1>1, <1>2, <1>3, <1>4, <1>5, <1>6, <1>7 DEF IrisNext

\* A set all of whose members are one thing has at most one member.
LEMMA AtMostOne ==
  ASSUME NEW S, NEW x, S \subseteq {x}
  PROVE  Cardinality(S) <= 1
<1>1. IsFiniteSet({x}) /\ Cardinality({x}) = 1
  BY FS_Singleton
<1> QED
  BY <1>1, FS_Subset, FS_CardinalityType

\* What IRIS keeps of a slot and the calendar get out of step for a named cause only.
THEOREM SlotInStep == IrisSpec => []SlotAtOddsHasCause
<1>1. IrisIInv => SlotAtOddsHasCause
  <2> SUFFICES ASSUME IrisIInv, causes = {} PROVE OneRoom /\ InvitedOnce /\ BookedAsObserved
    BY DEF SlotAtOddsHasCause
  <2>1. Orderly
    BY DEF IrisIInv
  <2>2. OneRoom
    BY <2>1, AtMostOne DEF OneRoom, Orderly, Rooms
  <2>3. AtRest => Cardinality(booked) <= 1
    BY <2>1, AtMostOne DEF Orderly, Steady
  <2> QED
    BY <2>1, <2>2, <2>3 DEF Orderly, Steady, BookedAsObserved
<1> QED
  BY <1>1, IrisInitially, IrisSteps, PTL DEF IrisSpec
=============================================================================
