---------------------------- MODULE ReadersProofs ----------------------------
(***************************************************************************)
(* Proofs about the readers of MCReaders, each for every table it may read *)
(* and every change between two of its statements or requests.             *)
(***************************************************************************)
EXTENDS InterviewTabs, InquiryPages, ProjectCatalogue, SurveyPages, FiniteSetTheorems, TLAPS

-----------------------------------------------------------------------------
(* The lists of interviews *)

Covers == {"none", "tabs", "payments", "own"}

TabTypes ==
  /\ now \in Nat
  /\ DOMAIN interview = Interview
  /\ \A s \in Interview :
       /\ DOMAIN interview[s] = {"start", "status", "invalidated", "paid"}
       /\ interview[s].start \in Int
       /\ interview[s].invalidated \in BOOLEAN /\ interview[s].paid \in BOOLEAN
  /\ DOMAIN looking = {"cover", "me", "read", "seen"}
  /\ looking.cover \in Covers
  /\ looking.seen \in [Interview -> Nat]
  /\ DOMAIN since = {"still", "moved", "edited", "disorder"}
  /\ since.still \subseteq Interview
  /\ since.disorder \in BOOLEAN

\* A list has been read before one that rows come from.
Behind == \E u \in Views(looking.cover) \ looking.read, v \in looking.read : Rank[v] > Rank[u]

\* An interview that was not seen is on a list that is still to be read.
StillToCome ==
  Reading =>
    \A s \in since.still :
      looking.seen[s] = 0 =>
        \/ s \in since.edited \/ since.disorder \/ Behind
        \/ Place(s) \ looking.read # {}

\* One that did not move, and is on one list at most, was seen if that was read.
SeenWhereItIs ==
  Reading =>
    \A s \in Interview \ since.moved, v \in Views(looking.cover) :
      Place(s) \subseteq {v} => looking.seen[s] <= 1 /\ (v \notin looking.read => looking.seen[s] = 0)

TabIInv == TabTypes /\ (Reading => looking.read \subseteq Views(looking.cover)) /\ StillToCome /\ SeenWhereItIs

LEMMA RankIs ==
  /\ Rank["upcoming"] = 1 /\ Rank["completed"] = 2 /\ Rank["invalidate"] = 3
  /\ Rank["NOT_CREDITED"] = 1 /\ Rank["PAST_DUE"] = 2 /\ Rank["CREDITED"] = 3
BY DEF Rank, Tabs, Filters

\* The days that payments are due before.
DueBefore(t) == ((t \div Hours) - DueDays) * Hours

LEMMA DaysGoOn ==
  ASSUME NEW t \in Nat
  PROVE  DueBefore(t) <= DueBefore(t + 1) /\ DueBefore(t) \in Int
<1> DEFINE q == t \div Hours
           r == (t + 1) \div Hours
<1>1. Hours \in Nat \ {0} /\ DueDays \in Nat
  BY ClockAssumption
<1>2. q \in Int /\ r \in Int /\ q * Hours <= t /\ t + 1 < (r + 1) * Hours
  BY <1>1
<1> HIDE DEF q, r
<1>3. q <= r
  <2>1. SUFFICES ASSUME r + 1 <= q PROVE FALSE
    BY <1>2
  <2>2. (r + 1) * Hours <= q * Hours
    BY <1>1, <1>2, <2>1
  <2> QED
    BY <1>1, <1>2, <2>2
<1>4. (q - DueDays) * Hours <= (r - DueDays) * Hours
  BY <1>1, <1>2, <1>3
<1> QED
  BY <1>1, <1>2, <1>4 DEF DueBefore, q, r

\* Whatever belongs on the lists of a cover is on one of them.
LEMMA Covered ==
  ASSUME TabTypes, NEW cover \in Covers \ {"none"}, NEW m, NEW s \in Interview, Concerned(cover, m, s)
  PROVE  \E v \in Views(cover) : s \in Shown(cover, m, v)
<1>1. CASE cover = "tabs"
  BY <1>1 DEF TabTypes, Concerned, Views, Tabs, Shown, OnTab, Upcoming, Completed, Invalidate
<1>2. CASE cover = "payments"
  BY <1>2 DEF Concerned, Views, Filters, Shown, Due
<1>3. CASE cover = "own"
  BY <1>3 DEF Concerned, Views, Filters, Shown, OwnDue
<1> QED
  BY <1>1, <1>2, <1>3 DEF Covers

LEMMA OneTab ==
  ASSUME TabTypes, NEW s \in Interview, NEW u \in Tabs, NEW v \in Tabs, OnTab(u, s), OnTab(v, s)
  PROVE  u = v
<1>1. interview[s].start \in Int /\ now \in Int
  BY DEF TabTypes
<1>2. ~(Upcoming(s) /\ Completed(s)) /\ ~(Upcoming(s) /\ Invalidate(s)) /\ ~(Completed(s) /\ Invalidate(s))
  BY <1>1 DEF Upcoming, Completed, Invalidate
<1>3. \A t \in Tabs : OnTab(t, s) =>
        \/ t = "upcoming" /\ Upcoming(s)
        \/ t = "completed" /\ Completed(s)
        \/ t = "invalidate" /\ Invalidate(s)
  BY DEF Tabs, OnTab
<1> QED
  BY <1>2, <1>3

\* At one moment the lists have no interview in common, but a moderator's unpaid.
LEMMA Exclusive ==
  ASSUME TabTypes, Reading, NEW s \in Interview, looking.cover = "own" => Paid(s)
  PROVE  \E v \in Views(looking.cover) : Place(s) \subseteq {v}
<1>1. CASE looking.cover = "tabs"
  <2>1. \A u, v \in Tabs : OnTab(u, s) /\ OnTab(v, s) => u = v
    BY OneTab
  <2> QED
    BY <1>1, <2>1 DEF Views, Place, Shown, Tabs
<1>2. CASE looking.cover = "payments"
  <2>1. \A u, v \in Filters : Due(u, s) /\ Due(v, s) => u = v
    BY DEF Filters, Due
  <2> QED
    BY <1>2, <2>1 DEF Views, Place, Shown, Filters
<1>3. CASE looking.cover = "own"
  BY <1>3 DEF Views, Place, Shown, Filters, OwnDue
<1> QED
  BY <1>1, <1>2, <1>3 DEF Covers, TabTypes, Reading

LEMMA TabsInitially == TabsInit => TabIInv
BY DEF TabsInit, TabIInv, TabTypes, Nobody, Fresh, Covers, StillToCome, SeenWhereItIs, Reading

LEMMA OpenKeeps ==
  ASSUME TabIInv, NEW cover \in Covers \ {"none"}, NEW m, Open(cover, m)
  PROVE  TabIInv'
<1>1. looking' = [cover |-> cover, me |-> m, read |-> {}, seen |-> [s \in Interview |-> 0]]
  BY DEF Open, Nobody
<1>2. /\ since' = [still |-> {s \in Interview : Concerned(cover, m, s)}, moved |-> {}, edited |-> {}, disorder |-> FALSE]
      /\ UNCHANGED <<now, interview, hosts, deleted>>
  BY DEF Open, Fresh
<1>3. TabTypes'
  <2>1. UNCHANGED <<now, interview>> /\ TabTypes
    BY <1>2 DEF TabIInv
  <2>2. looking'.seen \in [Interview -> Nat] /\ looking'.cover \in Covers
        /\ DOMAIN looking' = {"cover", "me", "read", "seen"}
    BY <1>1
  <2>3. /\ DOMAIN since' = {"still", "moved", "edited", "disorder"}
        /\ since'.still \subseteq Interview /\ since'.disorder \in BOOLEAN
    BY <1>2
  <2> QED
    BY <2>1, <2>2, <2>3 DEF TabTypes
<1>4. looking'.read = {} /\ looking'.cover = cover /\ looking'.me = m /\ \A s \in Interview : looking'.seen[s] = 0
  BY <1>1
<1>5. StillToCome'
  <2> SUFFICES ASSUME NEW s \in Interview, Concerned(cover, m, s) PROVE Place(s)' \ looking'.read # {}
    BY <1>2 DEF StillToCome
  <2>1. PICK v \in Views(cover) : s \in Shown(cover, m, v)
    BY Covered DEF TabIInv
  <2>2. s \in Shown(cover, m, v)'
    BY <1>2, <2>1 DEF Shown, OnTab, Live, Upcoming, Completed, Invalidate, Called, Due, Own, OwnDue, Paid, PastDays, End
  <2> QED
    BY <1>4, <2>1, <2>2 DEF Place
<1>6. SeenWhereItIs'
  BY <1>4 DEF SeenWhereItIs
<1> QED
  BY <1>3, <1>4, <1>5, <1>6 DEF TabIInv

LEMMA ReadKeeps ==
  ASSUME TabIInv, NEW view, Read(view)
  PROVE  TabIInv'
<1> DEFINE rows == Shown(looking.cover, looking.me, view)
           seen == [s \in Interview |-> looking.seen[s] + IF s \in rows THEN 1 ELSE 0]
           disorder == since.disorder \/ \E v \in looking.read : Rank[v] > Rank[view]
<1>1. /\ Reading /\ view \in Views(looking.cover) \ looking.read
      /\ looking' = [looking EXCEPT !.read = looking.read \cup {view}, !.seen = seen]
      /\ since' = [since EXCEPT !.disorder = disorder]
      /\ UNCHANGED <<now, interview, hosts, deleted>>
  BY DEF Read, TabIInv, TabTypes
<1>2. TabTypes
  BY DEF TabIInv
<1>3. /\ looking'.read = looking.read \cup {view} /\ looking'.seen = seen
      /\ UNCHANGED <<looking.cover, looking.me>> /\ DOMAIN looking' = DOMAIN looking
  BY <1>1, <1>2 DEF TabTypes
<1>4. since'.disorder = disorder /\ UNCHANGED <<since.still, since.moved, since.edited>> /\ DOMAIN since' = DOMAIN since
  BY <1>1, <1>2 DEF TabTypes
<1>5. \A s \in Interview : Place(s)' = Place(s)
  BY <1>1, <1>3 DEF Place, Shown, OnTab, Live, Upcoming, Completed, Invalidate, Called, Due, Own, OwnDue, Paid, PastDays, End
<1>6. \A s \in Interview : s \in rows <=> view \in Place(s)
  BY <1>1 DEF Place
<1>7. seen \in [Interview -> Nat] /\ \A s \in Interview : seen[s] = looking.seen[s] + IF view \in Place(s) THEN 1 ELSE 0
  BY <1>2, <1>6 DEF TabTypes
<1> HIDE DEF rows, seen
<1>8. TabTypes'
  BY <1>1, <1>2, <1>3, <1>4, <1>7 DEF TabTypes
<1>9. Reading' /\ looking'.read \subseteq Views(looking'.cover)
  BY <1>1, <1>3 DEF Reading, TabIInv
<1>10. StillToCome'
  <2> SUFFICES ASSUME NEW s \in since.still, seen[s] = 0, s \notin since.edited, ~disorder, ~Behind'
               PROVE  Place(s)' \ looking'.read # {}
    BY <1>3, <1>4 DEF StillToCome
  <2>1. s \in Interview /\ looking.seen[s] = 0 /\ view \notin Place(s)
    BY <1>2, <1>7 DEF TabTypes
  <2>2. ~Behind
    BY <1>3 DEF Behind
  <2> QED
    BY <1>1, <1>3, <1>5, <2>1, <2>2 DEF StillToCome, TabIInv
<1>11. SeenWhereItIs'
  <2> SUFFICES ASSUME NEW s \in Interview \ since.moved, NEW v \in Views(looking.cover), Place(s) \subseteq {v}
               PROVE  seen[s] <= 1 /\ (v \notin looking'.read => seen[s] = 0)
    BY <1>3, <1>4, <1>5 DEF SeenWhereItIs
  <2>1. looking.seen[s] \in Nat /\ looking.seen[s] <= 1 /\ (v \notin looking.read => looking.seen[s] = 0)
    BY <1>1, <1>2 DEF SeenWhereItIs, TabIInv, TabTypes
  <2> QED
    BY <1>1, <1>3, <1>7, <2>1
<1> QED
  BY <1>8, <1>9, <1>10, <1>11 DEF TabIInv

\* No interview goes back from a list to one before it, but those edited.
Forward(edited) ==
  Reading =>
    \A s \in Interview \ edited :
      Concerned(looking.cover, looking.me, s)' => \A v \in Place(s) : \E w \in Place(s)' : Rank[w] >= Rank[v]

LEMMA RanksDiffer ==
  ASSUME NEW cover, NEW v \in Views(cover), NEW w \in Views(cover), Rank[w] >= Rank[v], v # w
  PROVE  Rank[w] > Rank[v]
BY RankIs DEF Views, Tabs, Filters

LEMMA MeanwhileKeeps ==
  ASSUME TabIInv, NEW edited, Step(edited), Forward(edited),
         now' \in Nat, DOMAIN interview' = Interview,
         \A s \in Interview :
           /\ DOMAIN interview'[s] = {"start", "status", "invalidated", "paid"}
           /\ interview'[s].start \in Int
           /\ interview'[s].invalidated \in BOOLEAN /\ interview'[s].paid \in BOOLEAN
  PROVE  TabIInv'
<1>1. TabTypes /\ UNCHANGED looking
  BY DEF TabIInv, Step
<1>2. CASE ~Reading
  <2>1. UNCHANGED since
    BY <1>2 DEF Step, Noted
  <2>2. TabTypes'
    BY <1>1, <2>1 DEF TabTypes
  <2>3. ~Reading'
    BY <1>1, <1>2 DEF Reading
  <2> QED
    BY <2>2, <2>3 DEF TabIInv, StillToCome, SeenWhereItIs
<1>3. CASE Reading
  <2> DEFINE still == {s \in since.still : Concerned(looking.cover, looking.me, s)'}
             moved == since.moved \cup {s \in Interview : Place(s)' # Place(s)}
  <2>1. since' = [since EXCEPT !.still = still, !.moved = moved, !.edited = since.edited \cup edited]
    BY <1>1, <1>3 DEF Step, Noted, TabTypes
  <2>2. /\ since'.still = still /\ since'.moved = moved /\ since'.edited = since.edited \cup edited
        /\ UNCHANGED since.disorder /\ DOMAIN since' = DOMAIN since
    BY <1>1, <2>1 DEF TabTypes
  <2>3. TabTypes'
    BY <1>1, <2>2 DEF TabTypes
  <2>4. StillToCome'
    <3> SUFFICES ASSUME NEW s \in still, looking.seen[s] = 0, s \notin since.edited \cup edited, ~since.disorder,
                        Place(s)' \ looking.read = {}
                 PROVE  Behind
      BY <1>1, <2>2 DEF StillToCome, Behind
    <3>1. s \in Interview /\ Concerned(looking.cover, looking.me, s)'
      BY <1>1 DEF TabTypes
    <3>2. CASE Place(s) \ looking.read # {}
      <4>1. PICK v \in Place(s) \ looking.read : TRUE
        BY <3>2
      <4>2. PICK w \in Place(s)' : Rank[w] >= Rank[v]
        BY <1>3, <3>1, <4>1 DEF Forward
      <4>3. w \in looking.read /\ v \in Views(looking.cover) /\ w \in Views(looking.cover)
        BY <1>1, <4>1, <4>2 DEF Place
      <4> QED
        BY <4>1, <4>2, <4>3, RanksDiffer DEF Behind
    <3>3. CASE Place(s) \ looking.read = {}
      BY <1>3, <3>3 DEF StillToCome, TabIInv
    <3> QED
      BY <3>2, <3>3
  <2>5. SeenWhereItIs'
    <3> SUFFICES ASSUME NEW s \in Interview \ moved, NEW v \in Views(looking.cover), Place(s)' \subseteq {v}
                 PROVE  looking.seen[s] <= 1 /\ (v \notin looking.read => looking.seen[s] = 0)
      BY <1>1, <2>2 DEF SeenWhereItIs
    <3> QED
      BY <1>3 DEF SeenWhereItIs, TabIInv
  <2> QED
    BY <1>1, <2>3, <2>4, <2>5 DEF TabIInv, Reading
<1> QED
  BY <1>2, <1>3

\* Where nothing that a list looks at has changed of an interview, it stays where it is.
LEMMA Stays ==
  ASSUME UNCHANGED <<now, deleted, looking>>, NEW s \in Interview, UNCHANGED <<interview[s], hosts[s]>>
  PROVE  Place(s)' = Place(s)
BY DEF Place, Shown, OnTab, Live, Upcoming, Completed, Invalidate, Called, Due, Own, OwnDue, Paid, PastDays, End

LEMMA TimePassesKeeps ==
  ASSUME TabIInv, TimePasses
  PROVE  TabIInv'
<1>1. TabTypes /\ now' = now + 1 /\ UNCHANGED <<interview, hosts, deleted, looking>> /\ Step({})
  BY DEF TimePasses, TabIInv, Step
<1>2. \A s \in Interview : PastDays(s) => PastDays(s)'
  <2> SUFFICES ASSUME NEW s \in Interview, End(s) < DueBefore(now) PROVE End(s) < DueBefore(now')
    BY <1>1 DEF PastDays, End, DueBefore
  <2>1. End(s) \in Int
    BY <1>1 DEF End, TabTypes
  <2> QED
    BY <1>1, <2>1, DaysGoOn DEF TabTypes
<1>3. Forward({})
  <2> SUFFICES ASSUME Reading, NEW s \in Interview, NEW v \in Place(s)
               PROVE  \E w \in Place(s)' : Rank[w] >= Rank[v]
    BY DEF Forward
  <2>1. v \in Views(looking.cover) /\ s \in Shown(looking.cover, looking.me, v)
    BY DEF Place
  <2>2. CASE looking.cover = "tabs"
    <3>1. v \in Tabs /\ OnTab(v, s)
      BY <2>1, <2>2 DEF Views, Shown
    <3>2. \A t \in Tabs : OnTab(t, s)' => t \in Place(s)'
      BY <1>1, <2>2 DEF Views, Shown, Place
    <3>3. CASE v = "upcoming"
      <4>1. OnTab("upcoming", s)' \/ OnTab("completed", s)'
        BY <1>1, <3>1, <3>3 DEF OnTab, Live, Upcoming, Completed, Called, TabTypes
      <4> QED
        BY <3>2, <3>3, <4>1, RankIs DEF Tabs
    <3>4. CASE v = "completed"
      <4>1. OnTab("completed", s)'
        BY <1>1, <3>1, <3>4 DEF OnTab, Live, Completed, Called, TabTypes
      <4> QED
        BY <3>2, <3>4, <4>1, RankIs DEF Tabs
    <3>5. CASE v = "invalidate"
      <4>1. OnTab("invalidate", s)'
        BY <1>1, <3>1, <3>5 DEF OnTab, Live, Invalidate
      <4> QED
        BY <3>2, <3>5, <4>1, RankIs DEF Tabs
    <3> QED
      BY <3>1, <3>3, <3>4, <3>5 DEF Tabs
  <2>3. CASE looking.cover = "payments"
    <3>1. v \in Filters /\ OnTab("completed", s) /\ Due(v, s)
      BY <2>1, <2>3 DEF Views, Shown
    <3>2. OnTab("completed", s)'
      BY <1>1, <3>1 DEF OnTab, Live, Completed, Called, TabTypes
    <3>3. \A t \in Filters : Due(t, s)' => t \in Place(s)'
      BY <1>1, <2>3, <3>2 DEF Views, Shown, Place
    <3>4. Paid(s)' <=> Paid(s)
      BY <1>1 DEF Paid
    <3>5. Due(v, s)' \/ (v = "NOT_CREDITED" /\ Due("PAST_DUE", s)')
      BY <1>2, <3>1, <3>4 DEF Due, Filters
    <3> QED
      BY <3>1, <3>3, <3>5, RankIs DEF Filters
  <2>4. CASE looking.cover = "own"
    <3>1. v \in Filters /\ Own(looking.me, s) /\ OwnDue(v, s)
      BY <2>1, <2>4 DEF Views, Shown
    <3>2. Own(looking.me, s)' /\ (Paid(s)' <=> Paid(s))
      BY <1>1, <3>1 DEF Own, Called, Paid
    <3>3. OwnDue(v, s)'
      BY <1>2, <3>1, <3>2 DEF OwnDue, Filters
    <3> QED
      BY <1>1, <2>4, <3>1, <3>2, <3>3, RankIs DEF Place, Views, Shown, Filters
  <2> QED
    BY <1>1, <2>2, <2>3, <2>4 DEF TabTypes, Covers, Reading
<1> QED
  BY <1>1, <1>3, MeanwhileKeeps DEF TabTypes

\* An interview is given another beginning, status or mark; the others stay.
Marked(s, row) ==
  /\ interview' = [interview EXCEPT ![s] = row]
  /\ DOMAIN row = {"start", "status", "invalidated", "paid"}
  /\ row.start \in Int /\ row.invalidated \in BOOLEAN /\ row.paid \in BOOLEAN
  /\ UNCHANGED <<now, hosts, deleted>>

LEMMA MarkKeeps ==
  ASSUME TabIInv, NEW s \in Interview, NEW row, Marked(s, row), NEW edited, Step(edited),
         Reading /\ s \notin edited /\ Concerned(looking.cover, looking.me, s)' =>
           \A v \in Place(s) : \E w \in Place(s)' : Rank[w] >= Rank[v]
  PROVE  TabIInv'
<1>1. TabTypes /\ UNCHANGED <<now, hosts, deleted, looking>>
  BY DEF Marked, Step, TabIInv
<1>2. /\ DOMAIN interview' = Interview /\ interview'[s] = row
      /\ \A q \in Interview \ {s} : interview'[q] = interview[q]
  BY <1>1 DEF Marked, TabTypes
<1>3. \A q \in Interview \ {s} : Place(q)' = Place(q)
  BY <1>1, <1>2, Stays
<1>4. \A q \in Interview : \A v \in Place(q) : Rank[v] >= Rank[v]
  BY RankIs DEF Place, Views, Tabs, Filters
<1>5. Forward(edited)
  BY <1>3, <1>4 DEF Forward
<1> QED
  BY <1>1, <1>2, <1>5, MeanwhileKeeps DEF Marked, TabTypes

LEMMA ArrangeKeeps ==
  ASSUME TabIInv, NEW s \in Interview, NEW start \in {now, now + 2}, Arrange(s, start)
  PROVE  TabIInv'
<1> DEFINE row == [interview[s] EXCEPT !.start = start, !.status = "called"]
<1>1. TabTypes /\ start \in Int /\ UNCHANGED <<now, hosts, deleted>> /\ Step({s})
  BY DEF Arrange, TabIInv, TabTypes
<1>2. interview' = [interview EXCEPT ![s] = row]
  <2>1. interview' = [interview EXCEPT ![s].start = start, ![s].status = "called"]
    BY DEF Arrange
  <2>2. s \in DOMAIN interview
    BY <1>1 DEF TabTypes
  <2> QED
    BY <2>1, <2>2
<1>3. /\ DOMAIN row = {"start", "status", "invalidated", "paid"}
      /\ row.start \in Int /\ row.invalidated \in BOOLEAN /\ row.paid \in BOOLEAN
  BY <1>1 DEF TabTypes
<1> HIDE DEF row
<1>4. Marked(s, row)
  BY <1>1, <1>2, <1>3 DEF Marked
<1> QED
  BY <1>1, <1>4, MarkKeeps

LEMMA CallOffKeeps ==
  ASSUME TabIInv, NEW s \in Interview, CallOff(s)
  PROVE  TabIInv'
<1> DEFINE row == [interview[s] EXCEPT !.status = "gone"]
<1>1. Marked(s, row) /\ Step({}) /\ row.status = "gone" /\ TabTypes /\ UNCHANGED looking
  BY DEF CallOff, Marked, TabIInv, TabTypes, Step
<1>2. interview'[s].status = "gone"
  BY <1>1 DEF Marked, TabTypes
<1>3. Reading => ~Concerned(looking.cover, looking.me, s)'
  BY <1>1, <1>2 DEF Concerned, Called, OnTab, Completed, Own, TabTypes, Covers, Reading
<1> HIDE DEF row
<1> QED
  BY <1>1, <1>3, MarkKeeps

LEMMA IsInvalidatedKeeps ==
  ASSUME TabIInv, NEW s \in Interview, IsInvalidated(s)
  PROVE  TabIInv'
<1> DEFINE row == [interview[s] EXCEPT !.invalidated = TRUE]
<1>1. Marked(s, row) /\ Step({}) /\ TabTypes /\ UNCHANGED <<now, hosts, deleted, looking>>
  BY DEF IsInvalidated, Marked, TabIInv, TabTypes, Step
<1>2. interview'[s] = row
  BY <1>1 DEF Marked, TabTypes
<1>3. /\ interview'[s].invalidated /\ interview'[s].start = interview[s].start
      /\ interview'[s].status = interview[s].status /\ interview'[s].paid = interview[s].paid
  BY <1>1, <1>2 DEF TabTypes
<1> HIDE DEF row
<1>4. ASSUME Reading, Concerned(looking.cover, looking.me, s)', NEW v \in Place(s)
      PROVE  \E w \in Place(s)' : Rank[w] >= Rank[v]
  <2>1. CASE looking.cover = "tabs"
    <3>1. "invalidate" \in Place(s)'
      BY <1>1, <1>3, <1>4, <2>1 DEF Concerned, Place, Views, Tabs, Shown, OnTab, Invalidate
    <3>2. v \in Tabs
      BY <2>1 DEF Place, Views
    <3> QED
      BY <3>1, <3>2, RankIs DEF Tabs
  <2>2. CASE looking.cover = "payments"
    BY <1>1, <1>3, <1>4, <2>2 DEF Concerned, OnTab, Completed
  <2>3. CASE looking.cover = "own"
    <3>1. v \in Filters /\ Own(looking.me, s) /\ OwnDue(v, s)
      BY <2>3 DEF Place, Views, Shown
    <3>2. Own(looking.me, s)' /\ OwnDue(v, s)'
      BY <1>1, <1>3, <3>1 DEF Own, Called, OwnDue, Paid, PastDays, End
    <3>3. v \in Place(s)'
      BY <1>1, <2>3, <3>1, <3>2 DEF Place, Views, Shown
    <3> QED
      BY <3>1, <3>3, RankIs DEF Filters
  <2> QED
    BY <1>1, <1>4, <2>1, <2>2, <2>3 DEF TabTypes, Covers, Reading
<1> QED
  BY <1>1, <1>4, MarkKeeps

LEMMA IsPaidKeeps ==
  ASSUME TabIInv, NEW s \in Interview, IsPaid(s)
  PROVE  TabIInv'
<1> DEFINE row == [interview[s] EXCEPT !.paid = TRUE]
<1>1. Marked(s, row) /\ Step({}) /\ TabTypes /\ UNCHANGED <<now, hosts, deleted, looking>>
  BY DEF IsPaid, Marked, TabIInv, TabTypes, Step
<1>2. interview'[s] = row
  BY <1>1 DEF Marked, TabTypes
<1>3. /\ interview'[s].paid /\ interview'[s].start = interview[s].start
      /\ interview'[s].status = interview[s].status /\ interview'[s].invalidated = interview[s].invalidated
  BY <1>1, <1>2 DEF TabTypes
<1> HIDE DEF row
<1>4. ASSUME Reading, Concerned(looking.cover, looking.me, s)', NEW v \in Place(s)
      PROVE  \E w \in Place(s)' : Rank[w] >= Rank[v]
  <2>1. CASE looking.cover = "tabs"
    <3>1. v \in Tabs /\ OnTab(v, s)
      BY <2>1 DEF Place, Views, Shown
    <3>2. OnTab(v, s)'
      BY <1>1, <1>3, <3>1 DEF OnTab, Live, Upcoming, Completed, Invalidate, Called, Tabs
    <3>3. v \in Place(s)'
      BY <1>1, <2>1, <3>1, <3>2 DEF Place, Views, Shown
    <3> QED
      BY <3>1, <3>3, RankIs DEF Tabs
  <2>2. CASE looking.cover # "tabs"
    <3>1. looking.cover \in {"payments", "own"}
      BY <1>1, <1>4, <2>2 DEF TabTypes, Covers, Reading
    <3>2. "CREDITED" \in Place(s)'
      BY <1>1, <1>3, <1>4, <3>1 DEF Concerned, Place, Views, Filters, Shown, Due, OwnDue, Paid
    <3>3. v \in Filters
      BY <3>1 DEF Place, Views
    <3> QED
      BY <3>2, <3>3, RankIs DEF Filters
  <2> QED
    BY <2>1, <2>2
<1> QED
  BY <1>1, <1>4, MarkKeeps

LEMMA DeleteUserKeeps ==
  ASSUME TabIInv, NEW m \in Moderator, DeleteUser(m)
  PROVE  TabIInv'
<1>1. TabTypes /\ UNCHANGED <<now, interview, hosts, looking>> /\ Step({})
  BY DEF DeleteUser, TabIInv, Step
<1>2. ASSUME Reading, NEW s \in Interview, Concerned(looking.cover, looking.me, s)', NEW v \in Place(s)
      PROVE  v \in Place(s)' /\ Rank[v] >= Rank[v]
  <2>1. v \in Views(looking.cover) /\ Rank[v] \in Int
    BY RankIs DEF Place, Views, Tabs, Filters
  <2>2. looking.cover # "own" => Live(s)' # {}
    BY <1>1, <1>2 DEF Concerned, OnTab, TabTypes, Covers, Reading
  <2>3. CASE looking.cover = "tabs"
    <3>1. OnTab(v, s)'
      BY <1>1, <2>1, <2>2, <2>3 DEF Place, Shown, OnTab, Upcoming, Completed, Invalidate, Called, Views, Tabs
    <3> QED
      BY <1>1, <2>1, <2>3, <3>1 DEF Place, Shown
  <2>4. CASE looking.cover = "payments"
    <3>1. OnTab("completed", s)' /\ Due(v, s)'
      BY <1>1, <1>2, <2>1, <2>4 DEF Place, Shown, Concerned, Due, Paid, PastDays, End, Views, Filters
    <3> QED
      BY <1>1, <2>1, <2>4, <3>1 DEF Place, Shown
  <2>5. CASE looking.cover = "own"
    <3>1. Own(looking.me, s)' /\ OwnDue(v, s)'
      BY <1>1, <2>1, <2>5 DEF Place, Shown, Own, Called, OwnDue, Paid, PastDays, End, Views, Filters
    <3> QED
      BY <1>1, <2>1, <2>5, <3>1 DEF Place, Shown
  <2> QED
    BY <1>1, <1>2, <2>1, <2>3, <2>4, <2>5 DEF TabTypes, Covers, Reading
<1>3. Forward({})
  BY <1>2 DEF Forward
<1> QED
  BY <1>1, <1>3, MeanwhileKeeps DEF TabTypes

LEMMA TabsStep ==
  ASSUME TabIInv, [TabsNext]_tabVars
  PROVE  TabIInv'
<1>1. CASE UNCHANGED tabVars
  <2>1. UNCHANGED <<now, interview, hosts, deleted, looking, since>>
    BY <1>1 DEF tabVars
  <2>2. \A s \in Interview : Place(s)' = Place(s)
    BY <2>1, Stays
  <2>3. TabTypes'
    BY <2>1 DEF TabIInv, TabTypes
  <2>4. (Behind <=> Behind') /\ (Reading <=> Reading')
    BY <2>1 DEF Behind, Reading
  <2>5. StillToCome'
    BY <2>1, <2>2, <2>4 DEF TabIInv, TabTypes, StillToCome
  <2>6. SeenWhereItIs'
    BY <2>1, <2>2, <2>4 DEF TabIInv, SeenWhereItIs
  <2> QED
    BY <2>1, <2>3, <2>4, <2>5, <2>6 DEF TabIInv
<1>2. CASE \E cover \in {"tabs", "payments"} : Open(cover, "nobody")
  BY <1>2, OpenKeeps DEF Covers
<1>3. CASE \E m \in Moderator : Open("own", m)
  BY <1>3, OpenKeeps DEF Covers
<1>4. CASE \E view \in Tabs \cup Filters : Read(view)
  BY <1>4, ReadKeeps
<1>5. CASE TimePasses
  BY <1>5, TimePassesKeeps
<1>6. CASE \E s \in Interview : \E start \in {now, now + 2} : Arrange(s, start)
  BY <1>6, ArrangeKeeps
<1>7. CASE \E s \in Interview : CallOff(s) \/ IsInvalidated(s) \/ IsPaid(s)
  BY <1>7, CallOffKeeps, IsInvalidatedKeeps, IsPaidKeeps
<1>8. CASE \E m \in Moderator : DeleteUser(m)
  BY <1>8, DeleteUserKeeps
<1> QED
  BY <1>1, <1>2, <1>3, <1>4, <1>5, <1>6, <1>7, <1>8 DEF TabsNext

\* Whoever has read every list has seen what was there all the while.
LEMMA DoneMisses == TabIInv => MissedHasCause
BY DEF TabIInv, StillToCome, MissedHasCause, Done, Behind, Place

LEMMA DoneTwice == TabIInv => TwiceHasCause
<1> SUFFICES ASSUME TabIInv, Done, NEW s \in since.still, looking.seen[s] > 1, s \notin since.moved,
                    looking.cover = "own" => Paid(s)
             PROVE  FALSE
  BY DEF TwiceHasCause
<1>1. s \in Interview /\ Reading /\ TabTypes
  BY DEF TabIInv, TabTypes, Done
<1>2. PICK v \in Views(looking.cover) : Place(s) \subseteq {v}
  BY <1>1, Exclusive
<1>3. looking.seen[s] \in Nat /\ looking.seen[s] <= 1
  BY <1>1, <1>2 DEF TabIInv, SeenWhereItIs, TabTypes
<1> QED
  BY <1>3

LEMMA CalendarOnTab == TabIInv => CalendarsMatchTabs
<1> SUFFICES ASSUME TabIInv, NEW s \in Interview, NEW m \in Moderator, OnCalendar(m, s)
             PROVE  Cardinality({t \in Tabs : OnTab(t, s)}) = (IF Live(s) = {} THEN 0 ELSE 1)
  BY DEF CalendarsMatchTabs
<1>1. CASE Live(s) = {}
  <2>1. {t \in Tabs : OnTab(t, s)} = {}
    BY <1>1 DEF OnTab
  <2> QED
    BY <1>1, <2>1, FS_EmptySet
<1>2. CASE Live(s) # {}
  <2>1. Concerned("tabs", "nobody", s)
    BY <1>2 DEF Concerned, OnCalendar
  <2>2. PICK v \in Views("tabs") : s \in Shown("tabs", "nobody", v)
    BY <2>1, Covered DEF TabIInv, Covers
  <2>3. v \in Tabs /\ OnTab(v, s)
    BY <2>2 DEF Views, Shown
  <2>4. {t \in Tabs : OnTab(t, s)} = {v}
    BY <2>3, OneTab DEF TabIInv
  <2> QED
    BY <1>2, <2>4, FS_Singleton
<1> QED
  BY <1>1, <1>2

\* Whoever reads the lists one after another has seen each interview that
\* belonged there all the while, and once, but for the causes named, and what is
\* on a calendar is on one tab: the filters of GetAllInterviewsMRA split the
\* interviews, however many there are, wherever the clock stands and whoever
\* changes them between two reads.
THEOREM TabsComplete == TabsSpec => []TabsAreComplete
<1>1. TabsInit => TabIInv
  BY TabsInitially
<1>2. TabIInv /\ [TabsNext]_tabVars => TabIInv'
  BY TabsStep
<1>3. TabIInv => TabsAreComplete
  BY DoneMisses, DoneTwice, CalendarOnTab DEF TabsAreComplete
<1> QED
  BY <1>1, <1>2, <1>3, PTL DEF TabsSpec

-----------------------------------------------------------------------------
(* The proposal of a project *)

PreviewFields == {"at", "products", "related", "units", "table", "assessed", "stop"}
Priced == {"crowds", "answered"}

InquiryTypes ==
  /\ DOMAIN preview = PreviewFields
  /\ DOMAIN saved = {"there", "status", "fees", "assessed"} /\ saved.there \in BOOLEAN
  /\ DOMAIN page = {"at", "status", "listed", "costs", "stop"} /\ page.stop \in BOOLEAN
  /\ DOMAIN changed = {"edits", "what", "failed"}
  /\ DOMAIN preview.assessed \subseteq Crowd /\ preview.stop \in BOOLEAN
  /\ crowds \in Proposals

\* The fees are for the products as they are, but for markets that could not be read.
MarketsKnown ==
  "catalog" \notin changed.what =>
    /\ catalog \in Catalogs
    /\ preview.at \notin {"products", "refused"} => preview.products = {p \in Product : Chosen(p)}
    /\ \A p \in DOMAIN preview.related :
         \/ preview.related[p] = catalog[p].markets
         \/ preview.related[p] = {} /\ "markets" \in changed.failed
FeesFollow ==
  "catalog" \notin changed.what /\ preview.at \in Priced =>
    /\ DOMAIN preview.related = preview.products
    /\ \A p \in preview.products \cap Product : preview.units[p] = Units(p, preview.related[p])

\* The preview stops where one of its assessments does, by the table as it is
\* unless that could not be read or was edited.
StopFollows ==
  "difficulties" \notin changed.what =>
    /\ preview.at \in Priced => preview.table \in {difficulties, <<>>}
    /\ preview.at \notin Priced => preview.assessed = <<>>
    /\ preview.stop <=> \E c \in DOMAIN preview.assessed : Stops(difficulties, preview.assessed[c])

AllAssessed == preview.at = "answered" => DOMAIN preview.assessed = Crowd

\* What is saved is what was answered.
SavedIsAnswered ==
  /\ saved.there => preview.at = "answered" /\ saved.assessed = preview.assessed
  /\ page.at # "project" => saved.there

PageStops ==
  "difficulties" \notin changed.what /\ page.at \in {"fees", "answered"} =>
    /\ page.stop => preview.stop
    /\ preview.stop => \/ page.stop \/ "assessment" \in changed.failed
                       \/ \A c \in Crowd : Stops(difficulties, preview.assessed[c]) => crowds[c].custom

PageCosts ==
  {"fees"} \cap (changed.what \cup changed.failed) = {} =>
    /\ page.at # "project" => page.listed = saved.fees
    /\ page.at = "answered" => page.costs = Costs(page.status)

InquiryIInv ==
  InquiryTypes /\ MarketsKnown /\ FeesFollow /\ StopFollows /\ AllAssessed
  /\ SavedIsAnswered /\ PageStops /\ PageCosts

LEMMA InquiryInitially == InquiryInit => InquiryIInv
<1> SUFFICES ASSUME InquiryInit PROVE InquiryIInv
  OBVIOUS
<1>1. InquiryTypes
  BY DEF InquiryInit, NoInquiry, InquiryTypes, PreviewFields
<1>2. MarketsKnown /\ FeesFollow /\ StopFollows /\ AllAssessed
  BY DEF InquiryInit, AllAssessed, MarketsKnown, FeesFollow, StopFollows, Priced
<1>3. SavedIsAnswered /\ PageStops /\ PageCosts
  BY DEF InquiryInit, NoInquiry, SavedIsAnswered, PageStops, PageCosts
<1> QED
  BY <1>1, <1>2, <1>3 DEF InquiryIInv

\* Nothing that was changed or failed is forgotten.
Grows ==
  /\ changed.what \subseteq changed'.what /\ changed.failed \subseteq changed'.failed
  /\ DOMAIN changed' = {"edits", "what", "failed"}

LEMMA FailingGrows ==
  ASSUME InquiryTypes, NEW x,
         changed' \in {changed, [changed EXCEPT !.failed = @ \cup {x}]}
  PROVE  Grows /\ changed'.what = changed.what /\ (changed' # changed => x \in changed'.failed)
BY DEF InquiryTypes, Grows

LEMMA EditingGrows ==
  ASSUME InquiryTypes, NEW x, Edited(x)
  PROVE  Grows /\ x \in changed'.what /\ changed'.failed = changed.failed
BY DEF InquiryTypes, Grows, Edited

\* What others edit is known as edited.
LEMMA PreviewStays ==
  ASSUME InquiryIInv, Grows, UNCHANGED <<preview, crowds>>,
         catalog' = catalog \/ "catalog" \in changed'.what,
         difficulties' = difficulties \/ "difficulties" \in changed'.what
  PROVE  MarketsKnown' /\ FeesFollow' /\ StopFollows' /\ AllAssessed'
<1>1. MarketsKnown'
  BY DEF InquiryIInv, MarketsKnown, Grows, Chosen
<1>2. FeesFollow'
  <2> SUFFICES ASSUME UNCHANGED catalog, FeesFollow PROVE FeesFollow'
    BY DEF InquiryIInv, FeesFollow, Grows
  <2>1. \A p \in Product : Units(p, preview.related[p])' = Units(p, preview.related[p])
    BY DEF Units, Matches, IsSpecialized
  <2> QED
    BY <2>1 DEF FeesFollow, Grows
<1>3. StopFollows'
  BY DEF InquiryIInv, StopFollows, Grows, Stops
<1> QED
  BY <1>1, <1>2, <1>3 DEF InquiryIInv, AllAssessed

\* The page of a proposal has its preview behind it.
LEMMA PageStays ==
  ASSUME InquiryIInv, Grows, UNCHANGED <<preview, crowds, page>>,
         difficulties' = difficulties \/ "difficulties" \in changed'.what,
         saved'.there = saved.there, saved'.assessed = saved.assessed,
         saved'.fees = saved.fees \/ "fees" \in changed'.what
  PROVE  SavedIsAnswered' /\ PageStops' /\ PageCosts'
<1>1. SavedIsAnswered'
  BY DEF InquiryIInv, SavedIsAnswered
<1>2. PageStops'
  BY DEF InquiryIInv, PageStops, Grows, Stops
<1>3. PageCosts'
  BY DEF InquiryIInv, PageCosts, Grows, Costs
<1> QED
  BY <1>1, <1>2, <1>3

LEMMA PreviewComesFirst ==
  ASSUME InquiryIInv, preview.at # "answered", UNCHANGED <<saved, page>>
  PROVE  SavedIsAnswered' /\ PageStops' /\ PageCosts'
BY DEF InquiryIInv, SavedIsAnswered, PageStops, PageCosts

LEMMA InquiryEditKeeps ==
  ASSUME InquiryIInv,
         \/ \E p \in Product, m \in Market : RelateMarket(p, m)
         \/ \E k \in DOMAIN difficulties : EditDifficulty(k)
         \/ \E m \in Market : PeopleJoin(m)
         \/ \E f \in Fee : RemoveFee(f)
  PROVE  InquiryIInv'
<1>1. PICK x \in {"catalog", "difficulties", "people", "fees"} :
        /\ Edited(x) /\ UNCHANGED <<crowds, preview, page>>
        /\ x = "catalog" \/ UNCHANGED catalog
        /\ x = "difficulties" \/ UNCHANGED difficulties
        /\ UNCHANGED saved \/ (x = "fees" /\ \E f \in Fee : saved' = [saved EXCEPT !.fees = @ \ {f}])
  BY DEF RelateMarket, EditDifficulty, PeopleJoin, RemoveFee
<1>2. Grows /\ x \in changed'.what
  BY <1>1, EditingGrows DEF InquiryIInv
<1>3. /\ saved'.there = saved.there /\ saved'.assessed = saved.assessed
      /\ saved'.fees = saved.fees \/ x = "fees"
      /\ DOMAIN saved' = DOMAIN saved
  BY <1>1 DEF InquiryIInv, InquiryTypes
<1>4. InquiryTypes'
  BY <1>1, <1>2, <1>3 DEF InquiryIInv, InquiryTypes, Grows
<1>5. MarketsKnown' /\ FeesFollow' /\ StopFollows' /\ AllAssessed'
  BY <1>1, <1>2, PreviewStays
<1>6. SavedIsAnswered' /\ PageStops' /\ PageCosts'
  BY <1>1, <1>2, <1>3, PageStays
<1> QED
  BY <1>4, <1>5, <1>6 DEF InquiryIInv

LEMMA SaveKeeps ==
  ASSUME InquiryIInv, NEW status \in {1, 2}, Save(status)
  PROVE  InquiryIInv'
<1>1. /\ preview.at = "answered" /\ ~saved.there
      /\ saved' = [there |-> TRUE, status |-> status, fees |-> Fee, assessed |-> preview.assessed]
      /\ UNCHANGED <<catalog, difficulties, people, crowds, preview, page, changed>>
  BY DEF Save
<1>2. page.at = "project" /\ Grows
  BY <1>1 DEF InquiryIInv, InquiryTypes, SavedIsAnswered, Grows
<1>3. InquiryTypes'
  BY <1>1 DEF InquiryIInv, InquiryTypes
<1>4. MarketsKnown' /\ FeesFollow' /\ StopFollows' /\ AllAssessed'
  BY <1>1, <1>2, PreviewStays
<1>5. SavedIsAnswered' /\ PageStops' /\ PageCosts'
  BY <1>1, <1>2 DEF InquiryIInv, AllAssessed, SavedIsAnswered, PageStops, PageCosts
<1> QED
  BY <1>3, <1>4, <1>5 DEF InquiryIInv

LEMMA SubmitKeeps ==
  ASSUME InquiryIInv, Submit
  PROVE  InquiryIInv'
<1>1. saved' = [saved EXCEPT !.status = 2] /\ UNCHANGED <<catalog, difficulties, people, crowds, preview, page, changed>>
  BY DEF Submit
<1>2. /\ saved'.there = saved.there /\ saved'.assessed = saved.assessed /\ saved'.fees = saved.fees
      /\ DOMAIN saved' = DOMAIN saved
  BY <1>1 DEF InquiryIInv, InquiryTypes
<1>3. Grows /\ InquiryTypes'
  BY <1>1, <1>2 DEF InquiryIInv, InquiryTypes, Grows
<1>4. MarketsKnown' /\ FeesFollow' /\ StopFollows' /\ AllAssessed'
  BY <1>1, <1>3, PreviewStays
<1>5. SavedIsAnswered' /\ PageStops' /\ PageCosts'
  BY <1>1, <1>2, <1>3, PageStays
<1> QED
  BY <1>3, <1>4, <1>5 DEF InquiryIInv

LEMMA ReadProductsKeeps ==
  ASSUME InquiryIInv, ReadProducts \/ ProductsFail \/ AnswerPreview
  PROVE  InquiryIInv'
<1>1. /\ preview.at \in {"products", "crowds"}
      /\ UNCHANGED <<catalog, difficulties, people, crowds, saved, page, changed>>
  BY DEF ReadProducts, ProductsFail, AnswerPreview
<1>2. /\ DOMAIN preview' = DOMAIN preview
      /\ UNCHANGED <<preview.related, preview.units, preview.table, preview.assessed, preview.stop>>
      /\ \/ preview.at = "products" /\ preview'.at = "markets" /\ preview'.products = {p \in Product : Chosen(p)}
         \/ preview.at = "products" /\ preview'.at = "refused" /\ preview'.products = preview.products
         \/ /\ preview.at = "crowds" /\ preview'.at = "answered" /\ preview'.products = preview.products
            /\ DOMAIN preview.assessed = Crowd
  BY DEF InquiryIInv, InquiryTypes, PreviewFields, ReadProducts, ProductsFail, AnswerPreview
<1>3. InquiryTypes'
  BY <1>1, <1>2 DEF InquiryIInv, InquiryTypes
<1>4. SavedIsAnswered' /\ PageStops' /\ PageCosts'
  BY <1>1, PreviewComesFirst
<1>5. MarketsKnown'
  BY <1>1, <1>2 DEF InquiryIInv, MarketsKnown, Chosen
<1>6. FeesFollow'
  BY <1>1, <1>2 DEF InquiryIInv, FeesFollow, Priced, Units, Matches, IsSpecialized
<1>7. StopFollows' /\ AllAssessed'
  BY <1>1, <1>2 DEF InquiryIInv, StopFollows, Priced, Stops, AllAssessed
<1> QED
  BY <1>3, <1>4, <1>5, <1>6, <1>7 DEF InquiryIInv

LEMMA ReadMarketsKeeps ==
  ASSUME InquiryIInv, NEW p \in Product, ReadMarkets(p)
  PROVE  InquiryIInv'
<1>1. /\ preview.at = "markets" /\ p \in preview.products \ DOMAIN preview.related
      /\ UNCHANGED <<catalog, difficulties, people, crowds, saved, page>>
  BY DEF ReadMarkets
<1>2. PICK markets :
        /\ preview' = [preview EXCEPT !.related = [q \in DOMAIN preview.related \cup {p} |->
                                                      IF q = p THEN markets ELSE preview.related[q]]]
        /\ \/ markets = catalog[p].markets /\ UNCHANGED changed
           \/ markets = {} /\ changed' = [changed EXCEPT !.failed = @ \cup {"markets"}]
  BY DEF ReadMarkets, InquiryIInv, InquiryTypes, PreviewFields
<1>3. /\ DOMAIN preview' = DOMAIN preview
      /\ UNCHANGED <<preview.at, preview.products, preview.units, preview.table, preview.assessed, preview.stop>>
      /\ preview'.related = [q \in DOMAIN preview.related \cup {p} |->
                               IF q = p THEN markets ELSE preview.related[q]]
  BY <1>2 DEF InquiryIInv, InquiryTypes, PreviewFields
<1>4. /\ Grows /\ changed'.what = changed.what
      /\ markets = catalog[p].markets \/ (markets = {} /\ "markets" \in changed'.failed)
  BY <1>2 DEF InquiryIInv, InquiryTypes, Grows
<1>5. InquiryTypes'
  BY <1>1, <1>3, <1>4 DEF InquiryIInv, InquiryTypes, Grows
<1>6. MarketsKnown'
  BY <1>1, <1>3, <1>4 DEF InquiryIInv, MarketsKnown, Chosen, Grows
<1>7. FeesFollow' /\ StopFollows' /\ AllAssessed'
  BY <1>1, <1>3, <1>4 DEF InquiryIInv, FeesFollow, StopFollows, Priced, Stops, AllAssessed
<1>8. SavedIsAnswered' /\ PageStops' /\ PageCosts'
  BY <1>1, PreviewComesFirst
<1> QED
  BY <1>5, <1>6, <1>7, <1>8 DEF InquiryIInv

LEMMA ReadDifficultiesKeeps ==
  ASSUME InquiryIInv, ReadDifficulties
  PROVE  InquiryIInv'
<1> DEFINE priced == [p \in preview.products |-> Units(p, preview.related[p])]
<1>1. /\ preview.at = "markets" /\ preview.products = DOMAIN preview.related
      /\ UNCHANGED <<catalog, difficulties, people, crowds, saved, page>>
  BY DEF ReadDifficulties
<1>2. PICK table \in {difficulties, <<>>} :
        preview' = [preview EXCEPT !.at = "crowds", !.units = priced, !.table = table]
  BY DEF ReadDifficulties
<1>3. /\ DOMAIN preview' = DOMAIN preview
      /\ UNCHANGED <<preview.products, preview.related, preview.assessed, preview.stop>>
      /\ preview'.at = "crowds" /\ preview'.table = table /\ preview'.units = priced
  BY <1>2 DEF InquiryIInv, InquiryTypes, PreviewFields
<1>4. Grows /\ changed'.what = changed.what
  BY DEF ReadDifficulties, InquiryIInv, InquiryTypes, Grows
<1>5. InquiryTypes'
  BY <1>1, <1>3, <1>4 DEF InquiryIInv, InquiryTypes, Grows
<1>6. MarketsKnown'
  BY <1>1, <1>3, <1>4 DEF InquiryIInv, MarketsKnown, Chosen, Grows
<1>7. FeesFollow'
  BY <1>1, <1>3 DEF FeesFollow, Units, Matches, IsSpecialized
<1>8. StopFollows' /\ AllAssessed'
  BY <1>1, <1>3, <1>4 DEF InquiryIInv, StopFollows, Priced, Stops, AllAssessed
<1>9. SavedIsAnswered' /\ PageStops' /\ PageCosts'
  BY <1>1, PreviewComesFirst
<1> QED
  BY <1>5, <1>6, <1>7, <1>8, <1>9 DEF InquiryIInv

\* Without a table no crowd stops a preview.
LEMMA NothingToStop ==
  ASSUME NEW attendance, NEW requested
  PROVE  Assessment(<<>>, attendance, requested) = Nowhere
BY DEF Assessment

LEMMA AssessKeeps ==
  ASSUME InquiryIInv, NEW c \in Crowd, Assess(c)
  PROVE  InquiryIInv'
<1>1. /\ preview.at = "crowds" /\ c \notin DOMAIN preview.assessed
      /\ UNCHANGED <<catalog, difficulties, people, crowds, saved, page>>
  BY DEF Assess
<1>2. PICK k \in {Nowhere, Assessment(preview.table, Attendance(c), crowds[c].requested)} :
        /\ preview' = [preview EXCEPT !.assessed = [d \in DOMAIN preview.assessed \cup {c} |->
                                                      IF d = c THEN k ELSE preview.assessed[d]],
                                      !.stop = StopSoFar(preview.stop, preview.table, k)]
        /\ changed' \in {changed, [changed EXCEPT !.failed = @ \cup {"population"}]}
  BY DEF Assess, InquiryIInv, InquiryTypes, PreviewFields
<1>3. /\ DOMAIN preview' = DOMAIN preview
      /\ UNCHANGED <<preview.at, preview.products, preview.related, preview.units, preview.table>>
      /\ preview'.assessed = [d \in DOMAIN preview.assessed \cup {c} |-> IF d = c THEN k ELSE preview.assessed[d]]
      /\ preview'.stop = (preview.stop \/ Stops(preview.table, k))
  BY <1>2 DEF InquiryIInv, InquiryTypes, PreviewFields, StopSoFar
<1>4. Grows /\ changed'.what = changed.what
  BY <1>2, FailingGrows DEF InquiryIInv
<1>5. InquiryTypes'
  BY <1>1, <1>3, <1>4 DEF InquiryIInv, InquiryTypes, Grows
<1>6. MarketsKnown'
  BY <1>1, <1>3, <1>4 DEF InquiryIInv, MarketsKnown, Chosen, Grows
<1>7. FeesFollow'
  <2>1. \A p \in Product : Units(p, preview.related[p])' = Units(p, preview.related[p])
    BY <1>1, <1>3 DEF Units, Matches, IsSpecialized
  <2> QED
    BY <1>1, <1>3, <1>4, <2>1 DEF InquiryIInv, FeesFollow, Priced, Grows
<1>8. StopFollows'
  <2> SUFFICES ASSUME "difficulties" \notin changed.what
               PROVE  /\ preview'.table \in {difficulties, <<>>}
                      /\ preview'.stop <=> \E d \in DOMAIN preview'.assessed : Stops(difficulties, preview'.assessed[d])
    BY <1>1, <1>3, <1>4 DEF StopFollows, Priced, Stops
  <2>1. /\ preview.table \in {difficulties, <<>>}
        /\ preview.stop <=> \E d \in DOMAIN preview.assessed : Stops(difficulties, preview.assessed[d])
    BY <1>1 DEF InquiryIInv, StopFollows, Priced
  <2>2. preview.table # difficulties => k = Nowhere
    BY <1>2, <2>1, NothingToStop
  <2>3. Stops(preview.table, k) <=> Stops(difficulties, k)
    BY <2>2 DEF Stops
  <2> QED
    BY <1>1, <1>3, <2>1, <2>3
<1>9. AllAssessed' /\ SavedIsAnswered' /\ PageStops' /\ PageCosts'
  BY <1>1, <1>3, PreviewComesFirst DEF AllAssessed
<1> QED
  BY <1>5, <1>6, <1>7, <1>8, <1>9 DEF InquiryIInv

LEMMA ReadProjectKeeps ==
  ASSUME InquiryIInv, ReadProject
  PROVE  InquiryIInv'
<1>1. /\ page.at = "project" /\ saved.there
      /\ UNCHANGED <<catalog, difficulties, people, crowds, preview, saved>>
  BY DEF ReadProject
<1>2. PICK f : page' = [page EXCEPT !.at = "crowds", !.status = saved.status, !.listed = f]
  BY DEF ReadProject
<1>3. DOMAIN page' = DOMAIN page /\ UNCHANGED page.stop /\ page'.at = "crowds" /\ page'.listed = f
  BY <1>2 DEF InquiryIInv, InquiryTypes
<1>4. /\ Grows /\ changed'.what = changed.what
      /\ page'.listed = saved.fees \/ "fees" \in changed'.failed
  BY DEF ReadProject, InquiryIInv, InquiryTypes, Grows
<1>5. InquiryTypes'
  BY <1>1, <1>3, <1>4 DEF InquiryIInv, InquiryTypes, Grows
<1>6. MarketsKnown' /\ FeesFollow' /\ StopFollows' /\ AllAssessed'
  BY <1>1, <1>4, PreviewStays
<1>7. SavedIsAnswered' /\ PageStops' /\ PageCosts'
  BY <1>1, <1>3, <1>4 DEF InquiryIInv, SavedIsAnswered, PageStops, PageCosts
<1> QED
  BY <1>5, <1>6, <1>7 DEF InquiryIInv

LEMMA ReadCrowdsKeeps ==
  ASSUME InquiryIInv, ReadCrowds
  PROVE  InquiryIInv'
<1>1. page.at = "crowds" /\ UNCHANGED <<catalog, difficulties, people, crowds, preview, saved>>
  BY DEF ReadCrowds
<1>2. PICK seen \in SUBSET Crowd :
        /\ page' = [page EXCEPT !.at = "fees",
                                !.stop = \E c \in seen : Watched(c) /\ Stops(difficulties, saved.assessed[c])]
        /\ changed' = IF seen = Crowd THEN changed ELSE [changed EXCEPT !.failed = @ \cup {"assessment"}]
  BY DEF ReadCrowds
<1>3. /\ DOMAIN page' = DOMAIN page /\ UNCHANGED <<page.status, page.listed, page.costs>> /\ page'.at = "fees"
      /\ page'.stop = \E c \in seen : Watched(c) /\ Stops(difficulties, saved.assessed[c])
  BY <1>2 DEF InquiryIInv, InquiryTypes
<1>4. Grows /\ changed'.what = changed.what /\ (seen # Crowd => "assessment" \in changed'.failed)
  BY <1>2 DEF InquiryIInv, InquiryTypes, Grows
<1>5. InquiryTypes'
  BY <1>1, <1>3, <1>4 DEF InquiryIInv, InquiryTypes, Grows
<1>6. MarketsKnown' /\ FeesFollow' /\ StopFollows' /\ AllAssessed'
  BY <1>1, <1>4, PreviewStays
<1>7. SavedIsAnswered'
  BY <1>1, <1>3 DEF InquiryIInv, SavedIsAnswered
<1>8. PageStops'
  <2> SUFFICES ASSUME "difficulties" \notin changed.what
               PROVE  /\ page'.stop => preview.stop
                      /\ preview.stop => \/ page'.stop \/ "assessment" \in changed'.failed
                                         \/ \A c \in Crowd : Stops(difficulties, preview.assessed[c]) => crowds[c].custom
    BY <1>1, <1>4 DEF PageStops, Stops
  <2>1. /\ saved.assessed = preview.assessed /\ DOMAIN preview.assessed = Crowd
        /\ preview.stop <=> \E c \in Crowd : Stops(difficulties, preview.assessed[c])
    BY <1>1 DEF InquiryIInv, SavedIsAnswered, AllAssessed, StopFollows
  <2> QED
    BY <1>3, <1>4, <2>1 DEF Watched
<1>9. PageCosts'
  BY <1>1, <1>3, <1>4 DEF InquiryIInv, PageCosts, Grows
<1> QED
  BY <1>5, <1>6, <1>7, <1>8, <1>9 DEF InquiryIInv

LEMMA ReadFeesKeeps ==
  ASSUME InquiryIInv, ReadFees
  PROVE  InquiryIInv'
<1>1. page.at = "fees" /\ UNCHANGED <<catalog, difficulties, people, crowds, preview, saved>>
  BY DEF ReadFees
<1>2. PICK f : page' = [page EXCEPT !.at = "answered", !.costs = f]
  BY DEF ReadFees
<1>3. DOMAIN page' = DOMAIN page /\ UNCHANGED <<page.stop, page.status, page.listed>> /\ page'.at = "answered"
  BY <1>2 DEF InquiryIInv, InquiryTypes
<1>4. /\ Grows /\ changed'.what = changed.what
      /\ page'.costs = Costs(page.status) \/ "fees" \in changed'.failed
  BY DEF ReadFees, InquiryIInv, InquiryTypes, Grows
<1>5. InquiryTypes'
  BY <1>1, <1>3, <1>4 DEF InquiryIInv, InquiryTypes, Grows
<1>6. MarketsKnown' /\ FeesFollow' /\ StopFollows' /\ AllAssessed'
  BY <1>1, <1>4, PreviewStays
<1>7. SavedIsAnswered'
  BY <1>1, <1>3 DEF InquiryIInv, SavedIsAnswered
<1>8. PageStops'
  BY <1>1, <1>3, <1>4 DEF InquiryIInv, PageStops, Stops, Grows
<1>9. PageCosts'
  BY <1>1, <1>3, <1>4 DEF InquiryIInv, PageCosts, Grows, Costs
<1> QED
  BY <1>5, <1>6, <1>7, <1>8, <1>9 DEF InquiryIInv

LEMMA InquirySteps == InquiryIInv /\ [InquiryNext]_inquiryVars => InquiryIInv'
<1> SUFFICES ASSUME InquiryIInv, [InquiryNext]_inquiryVars PROVE InquiryIInv'
  OBVIOUS
<1>1. CASE UNCHANGED inquiryVars
  <2>1. Grows /\ InquiryTypes'
    BY <1>1 DEF inquiryVars, InquiryIInv, InquiryTypes, Grows
  <2> QED
    BY <1>1, <2>1, PreviewStays, PageStays DEF inquiryVars, InquiryIInv
<1>2. CASE ReadProducts \/ ProductsFail \/ AnswerPreview
  BY <1>2, ReadProductsKeeps
<1>3. CASE ReadDifficulties
  BY <1>3, ReadDifficultiesKeeps
<1>4. CASE \E p \in Product : ReadMarkets(p)
  BY <1>4, ReadMarketsKeeps
<1>5. CASE \E c \in Crowd : Assess(c)
  BY <1>5, AssessKeeps
<1>6. CASE ReadProject \/ ReadCrowds \/ ReadFees
  BY <1>6, ReadProjectKeeps, ReadCrowdsKeeps, ReadFeesKeeps
<1>7. CASE Save(1) \/ Save(2) \/ Submit
  BY <1>7, SaveKeeps, SubmitKeeps
<1>8. CASE \/ \E p \in Product, m \in Market : RelateMarket(p, m)
           \/ \E k \in DOMAIN difficulties : EditDifficulty(k)
           \/ \E m \in Market : PeopleJoin(m)
           \/ \E f \in Fee : RemoveFee(f)
  BY <1>8, InquiryEditKeeps
<1> QED
  BY <1>1, <1>2, <1>3, <1>4, <1>5, <1>6, <1>7, <1>8 DEF InquiryNext

\* However the crowds are made up, each is in the units of the one honorarium that
\* the catalogue has for its kind or its market.
LEMMA EveryCrowdIsPaid ==
  ASSUME InquiryIInv
  PROVE  HonorariaAddUp
<1> SUFFICES ASSUME preview.at = "answered", Orderly, "catalog" \notin changed.what, NEW c \in Crowd
             PROVE  \/ Only({p \in Honoraria : c \in preview.units[p]})
                    \/ {p \in Honoraria : c \in preview.units[p]} = {} /\ "markets" \in changed.failed
  BY DEF HonorariaAddUp
<1> DEFINE payers == {p \in Honoraria : c \in preview.units[p]}
<1>1. \A p \in Honoraria : c \in preview.units[p] <=> Matches(c, p, preview.related[p])
  BY DEF InquiryIInv, MarketsKnown, FeesFollow, Priced, Honoraria, Units
<1>2. \A p \in Honoraria :
        \/ preview.related[p] = catalog[p].markets
        \/ preview.related[p] = {} /\ "markets" \in changed.failed
  BY DEF InquiryIInv, MarketsKnown, FeesFollow, Priced, Honoraria
<1>3. crowds[c].market \in Market
  BY RowsAssumption DEF InquiryIInv, InquiryTypes
<1>4. \A p \in Honoraria : catalog[p].specialized \in BOOLEAN
  BY RowsAssumption DEF InquiryIInv, MarketsKnown, Honoraria
<1>5. CASE crowds[c].market = 1
  <2>1. PICK s \in BOOLEAN : s <=> IsSpecialized(c)
    OBVIOUS
  <2>2. PICK x \in Honoraria : {p \in Honoraria : catalog[p].specialized = s} = {x}
    BY DEF Orderly, Only
  <2>3. \A p \in Honoraria : c \in preview.units[p] <=> catalog[p].specialized = s
    BY <1>1, <1>2, <1>4, <1>5, <2>1 DEF Matches, Orderly
  <2>4. payers = {x}
    BY <2>2, <2>3
  <2> QED
    BY <2>4 DEF Only
<1>6. CASE crowds[c].market # 1
  <2>1. PICK x \in Honoraria : {p \in Honoraria : crowds[c].market \in catalog[p].markets} = {x}
    BY <1>3, <1>6 DEF Orderly, Only
  <2>2. \A p \in Honoraria : c \in preview.units[p] <=> crowds[c].market \in preview.related[p]
    BY <1>1, <1>6 DEF Matches, IsSpecialized
  <2>3. payers = {x} \/ (payers = {} /\ "markets" \in changed.failed)
    BY <1>2, <2>1, <2>2
  <2> QED
    BY <2>3 DEF Only
<1> QED
  BY <1>5, <1>6

\* The honoraria of a proposal are for every crowd once, its page stops where its
\* preview did and its costs are its project's fees, but for the causes named:
\* whatever the catalogue, the table of difficulties and the crowds, and whatever
\* is edited or fails between the statements of UpdateInquiryPreview and
\* GetSubscriptionProjectInquiry.
THEOREM ProposalsSound == InquirySpec => []ProposalsAddUp
<1>1. InquiryIInv => ProposalsAddUp
  <2> SUFFICES ASSUME InquiryIInv PROVE ProposalsAddUp
    OBVIOUS
  <2>1. HonorariaAddUp
    BY EveryCrowdIsPaid
  <2>2. StopIsKept
    BY DEF InquiryIInv, PageStops, StopIsKept
  <2>3. CostsMatchFees
    BY DEF InquiryIInv, PageCosts, CostsMatchFees, Costs
  <2> QED
    BY <2>1, <2>2, <2>3 DEF ProposalsAddUp
<1> QED
  BY <1>1, InquiryInitially, InquirySteps, PTL DEF InquirySpec

-----------------------------------------------------------------------------
(* Projects, their lists and exports *)

Columns == {"there", "name", "account", "client", "status", "post", "moderator", "generated"}

ProjectTypes ==
  /\ DOMAIN project = Project
  /\ \A p \in Project : DOMAIN project[p] = Columns /\ (project[p].there => project[p].name \in Name)

ReplyTypes ==
  /\ DOMAIN reply = Person
  /\ \A r \in Person : DOMAIN reply[r] = {"of", "interview", "declined"}

Past == {"upload", "signed", "downloaded", "refused"}

ExportTypes ==
  /\ DOMAIN bucket = Name \cup Project
  /\ DOMAIN export = Export
  /\ \A e \in Export :
       /\ DOMAIN export[e] = {"at", "of", "held", "declined", "name", "got", "failed", "changed"}
       /\ export[e].at # "idle" => export[e].of \in Project /\ project[export[e].of].there
       /\ export[e].at \in Past => export[e].name \in Name \cup Project

VisitTypes ==
  /\ DOMAIN visit = Visit
  /\ DOMAIN meanwhile = {"edits", "turn"} /\ meanwhile.turn \in Nat
  /\ \A v \in Visit :
       /\ DOMAIN visit[v] = {"at", "accounts", "clients", "overlapped", "turn"}
       /\ visit[v].turn \in 0 .. meanwhile.turn
       /\ visit[v].at = "idle" => visit[v].accounts = {}
       /\ visit[v].at = "save" => visit[v].accounts # {}

\* The file under a name is of a request that wrote it under that name.
Stored(e) == export[e].at \in {"signed", "downloaded"}
Named(f, n) == f \in Export /\ Stored(f) /\ export[f].name = n
FilesAreThere ==
  \A e \in Export :
    /\ Stored(e) => Named(bucket[export[e].name], export[e].name)
    /\ export[e].at = "downloaded" => Named(export[e].got, export[e].name)

\* What an export has read is right but for what changed since.
SchedulesHold ==
  \A e \in Export :
    /\ export[e].at = "declined" => export[e].declined = {}
    /\ export[e].at \in {"declined", "name", "upload", "signed", "downloaded"} =>
         /\ export[e].held \cup export[e].declined \subseteq Of(export[e].of)
         /\ \A r \in Of(export[e].of) \ export[e].changed :
              r \in export[e].held <=> reply[r].interview = "hosted"
    /\ export[e].at \in {"name", "upload", "signed", "downloaded"} /\ ~export[e].failed =>
         \A r \in Of(export[e].of) \ export[e].changed : r \in export[e].declined <=> reply[r].declined

\* A list that is still to be saved was read after another, unless that overlapped it.
Overtaken(v, w) == visit[w].accounts # {} /\ (visit[w].turn > visit[v].turn \/ visit[v].overlapped)
SavesInOrder ==
  \A v, w \in Visit :
    v # w /\ visit[v].at # "idle" /\ visit[w].at = "save" => Overtaken(v, w)
SelectionHolds ==
  \A v \in Visit :
    visit[v].at = "answered" /\ visit[v].accounts # {} =>
      selection.accounts = visit[v].accounts \/ \E w \in Visit \ {v} : Overtaken(v, w)

OneClient == \A v \in Visit : \E c : visit[v].clients \subseteq {c}

CatalogueTypes == ProjectTypes /\ ReplyTypes /\ ExportTypes /\ VisitTypes
CatalogueIInv ==
  CatalogueTypes /\ FilesAreThere /\ SchedulesHold /\ SavesInOrder /\ SelectionHolds /\ OneClient

LEMMA CatalogueInitially == CatalogueInit => CatalogueIInv
<1> SUFFICES ASSUME CatalogueInit PROVE CatalogueIInv
  OBVIOUS
<1>1. ProjectTypes
  <2> DEFINE account == CHOOSE a \in Account : TRUE
             Begun(n) == [Absent EXCEPT !.there = TRUE, !.name = n, !.account = account, !.client = 1, !.status = 1]
  <2>1. project \in [Project -> {Absent} \cup {Begun(n) : n \in Name}]
    BY DEF CatalogueInit
  <2> HIDE DEF account
  <2>2. \A n : DOMAIN Begun(n) = Columns /\ Begun(n).name = n
    BY DEF Absent, Columns
  <2>3. DOMAIN Absent = Columns /\ ~Absent.there
    BY DEF Absent, Columns
  <2> HIDE DEF Begun
  <2> QED
    BY <2>1, <2>2, <2>3 DEF ProjectTypes
<1>2. ReplyTypes
  BY DEF CatalogueInit, ReplyTypes
<1>3. ExportTypes
  BY DEF CatalogueInit, ExportTypes, NoExport, Past
<1>4. VisitTypes
  <2>1. meanwhile.turn = 0 /\ DOMAIN visit = Visit /\ DOMAIN meanwhile = {"edits", "turn"}
    BY DEF CatalogueInit
  <2>2. \A v \in Visit : visit[v] = [at |-> "idle", accounts |-> {}, clients |-> {}, overlapped |-> FALSE, turn |-> 0]
    BY DEF CatalogueInit
  <2> QED
    BY <2>1, <2>2 DEF VisitTypes
<1>5. FilesAreThere /\ SchedulesHold
  BY DEF CatalogueInit, FilesAreThere, SchedulesHold, Stored, NoExport
<1>6. SavesInOrder /\ SelectionHolds /\ OneClient
  BY DEF CatalogueInit, SavesInOrder, SelectionHolds, OneClient
<1> QED
  BY <1>1, <1>2, <1>3, <1>4, <1>5, <1>6 DEF CatalogueIInv, CatalogueTypes

\* Whatever is done to projects, they keep their columns and stay.
ProjectsStay ==
  /\ DOMAIN project' = Project
  /\ \A p \in Project :
       /\ DOMAIN project'[p] = Columns
       /\ project'[p].there => project'[p].name \in Name
       /\ project[p].there => project'[p].there

LEMMA EditKeeps ==
  ASSUME CatalogueIInv, CountsAsEdit, UNCHANGED <<reply, export, bucket, visit, selection>>, ProjectsStay
  PROVE  CatalogueIInv'
<1>1. CatalogueTypes'
  <2>1. ProjectTypes'
    BY DEF ProjectsStay, ProjectTypes
  <2>2. ReplyTypes' /\ ExportTypes'
    BY DEF ProjectsStay, CatalogueIInv, CatalogueTypes, ReplyTypes, ExportTypes
  <2>3. DOMAIN meanwhile' = DOMAIN meanwhile /\ meanwhile'.turn = meanwhile.turn
    BY DEF CountsAsEdit, CatalogueIInv, CatalogueTypes, VisitTypes
  <2>4. VisitTypes'
    BY <2>3 DEF CatalogueIInv, CatalogueTypes, VisitTypes
  <2> QED
    BY <2>1, <2>2, <2>4 DEF CatalogueTypes
<1>2. FilesAreThere' /\ SchedulesHold'
  BY DEF CatalogueIInv, FilesAreThere, Stored, Named, SchedulesHold, Of
<1>3. SavesInOrder' /\ SelectionHolds' /\ OneClient'
  BY DEF CatalogueIInv, SavesInOrder, SelectionHolds, OneClient, Overtaken
<1> QED
  BY <1>1, <1>2, <1>3 DEF CatalogueIInv

LEMMA CreateKeeps ==
  ASSUME CatalogueIInv, NEW p \in Project, NEW n \in Name, NEW a, NEW c, CreateProject(p, n, a, c)
  PROVE  CatalogueIInv'
<1> DEFINE row == [Absent EXCEPT !.there = TRUE, !.name = n, !.account = a, !.client = c, !.status = 1]
<1>1. project' = project \/ project' = [project EXCEPT ![p] = row]
  BY DEF CreateProject
<1>2. DOMAIN row = Columns /\ row.name = n /\ row.there
  BY DEF Absent, Columns
<1> HIDE DEF row
<1>3. ProjectsStay
  BY <1>1, <1>2 DEF ProjectsStay, CatalogueIInv, CatalogueTypes, ProjectTypes
<1>4. CountsAsEdit /\ UNCHANGED <<reply, export, bucket, visit, selection>>
  BY DEF CreateProject
<1> QED
  BY <1>3, <1>4, EditKeeps

LEMMA UpdateDetailsKeeps ==
  ASSUME CatalogueIInv, NEW p \in Project, NEW b, NEW m, UpdateDetails(p, b, m)
  PROVE  CatalogueIInv'
<1> PICK row : /\ project' = [project EXCEPT ![p] = row]
               /\ DOMAIN row = DOMAIN project[p] /\ row.there = project[p].there /\ row.name = project[p].name
  <2>1. DOMAIN project[p] = Columns /\ DOMAIN project = Project
    BY DEF CatalogueIInv, CatalogueTypes, ProjectTypes
  <2>2. CASE b # 0
    <3> DEFINE row == [project[p] EXCEPT !.post = b]
    <3>1. project' = [project EXCEPT ![p] = row]
      BY <2>1, <2>2 DEF UpdateDetails
    <3>2. DOMAIN row = DOMAIN project[p] /\ row.there = project[p].there /\ row.name = project[p].name
      BY <2>1 DEF Columns
    <3> QED
      BY <3>1, <3>2
  <2>3. CASE b = 0 /\ m # 0
    <3> DEFINE row == [project[p] EXCEPT !.moderator = m]
    <3>1. project' = [project EXCEPT ![p] = row]
      BY <2>1, <2>3 DEF UpdateDetails
    <3>2. DOMAIN row = DOMAIN project[p] /\ row.there = project[p].there /\ row.name = project[p].name
      BY <2>1 DEF Columns
    <3> QED
      BY <3>1, <3>2
  <2>4. CASE b = 0 /\ m = 0
    <3> DEFINE row == [project[p] EXCEPT !.generated = TRUE]
    <3>1. project' = [project EXCEPT ![p] = row]
      BY <2>1, <2>4 DEF UpdateDetails
    <3>2. DOMAIN row = DOMAIN project[p] /\ row.there = project[p].there /\ row.name = project[p].name
      BY <2>1 DEF Columns
    <3> QED
      BY <3>1, <3>2
  <2> QED
    BY <2>2, <2>3, <2>4
<1>1. ProjectsStay
  BY DEF ProjectsStay, CatalogueIInv, CatalogueTypes, ProjectTypes
<1>2. CountsAsEdit /\ UNCHANGED <<reply, export, bucket, visit, selection>>
  BY DEF UpdateDetails
<1> QED
  BY <1>1, <1>2, EditKeeps

LEMMA RenameKeeps ==
  ASSUME CatalogueIInv, NEW p \in Project, NEW n \in Name, Rename(p, n)
  PROVE  CatalogueIInv'
<1> DEFINE row == [project[p] EXCEPT !.name = n]
<1>1. DOMAIN project = Project /\ DOMAIN project[p] = Columns
  BY DEF CatalogueIInv, CatalogueTypes, ProjectTypes
<1>2. project' = [project EXCEPT ![p] = row]
  BY <1>1 DEF Rename
<1>3. DOMAIN row = Columns /\ row.name = n /\ row.there = project[p].there
  BY <1>1 DEF Columns
<1> HIDE DEF row
<1>4. ProjectsStay
  BY <1>2, <1>3 DEF ProjectsStay, CatalogueIInv, CatalogueTypes, ProjectTypes
<1>5. CountsAsEdit /\ UNCHANGED <<reply, export, bucket, visit, selection>>
  BY DEF Rename
<1> QED
  BY <1>4, <1>5, EditKeeps

\* What is done to lists leaves exports and projects alone.
LEMMA ListKeeps ==
  ASSUME CatalogueIInv, UNCHANGED <<project, reply, export, bucket>>,
         VisitTypes', SavesInOrder', SelectionHolds', OneClient'
  PROVE  CatalogueIInv'
<1>1. ProjectTypes' /\ ReplyTypes' /\ ExportTypes'
  BY DEF CatalogueIInv, CatalogueTypes, ProjectTypes, ReplyTypes, ExportTypes
<1>2. FilesAreThere' /\ SchedulesHold'
  BY DEF CatalogueIInv, FilesAreThere, Stored, Named, SchedulesHold, Of
<1> QED
  BY <1>1, <1>2 DEF CatalogueIInv, CatalogueTypes

LEMMA ReadListKeeps ==
  ASSUME CatalogueIInv, NEW v \in Visit, NEW accounts, NEW c, ReadList(v, accounts, c)
  PROVE  CatalogueIInv'
<1> DEFINE at == IF accounts = {} THEN "answered" ELSE "save"
           clients == {project[p].client : p \in Listed(accounts, c)}
           overlapped == \E w \in Visit \ {v} : visit[w].at = "save"
           row == [at |-> at, accounts |-> accounts, clients |-> clients, overlapped |-> overlapped,
                   turn |-> 1 + meanwhile.turn]
<1>1. /\ visit[v].at = "idle"
      /\ visit' = [visit EXCEPT ![v] = row]
      /\ meanwhile' = [meanwhile EXCEPT !.turn = @ + 1]
      /\ UNCHANGED selection
  BY DEF ReadList
<1>2. \E k : clients \subseteq {k}
  <2>1. clients \subseteq {IF accounts = {} THEN c ELSE 1}
    BY DEF Listed
  <2> QED
    BY <2>1
<1>3. VisitTypes
  BY DEF CatalogueIInv, CatalogueTypes
<1>4. /\ visit'[v].at = at /\ visit'[v].accounts = accounts /\ visit'[v].clients = clients
      /\ visit'[v].overlapped = overlapped /\ visit'[v].turn = 1 + meanwhile.turn
      /\ DOMAIN visit'[v] = {"at", "accounts", "clients", "overlapped", "turn"}
      /\ DOMAIN visit' = Visit
      /\ \A w \in Visit \ {v} : visit'[w] = visit[w]
  BY <1>1, <1>3 DEF VisitTypes
<1> HIDE DEF row, clients
<1>5. VisitTypes'
  BY <1>1, <1>3, <1>4 DEF VisitTypes
<1>6. SavesInOrder'
  <2> SUFFICES ASSUME NEW u \in Visit, NEW w \in Visit, u # w, visit'[u].at # "idle", visit'[w].at = "save"
               PROVE  Overtaken(u, w)'
    BY DEF SavesInOrder
  <2>1. CASE u = v
    BY <1>3, <1>4, <2>1 DEF Overtaken, VisitTypes, CatalogueIInv
  <2>2. CASE w = v
    BY <1>3, <1>4, <2>2 DEF Overtaken, VisitTypes
  <2>3. CASE u # v /\ w # v
    BY <1>4, <2>3 DEF Overtaken, SavesInOrder, CatalogueIInv
  <2> QED
    BY <2>1, <2>2, <2>3
<1>7. SelectionHolds'
  <2> SUFFICES ASSUME NEW u \in Visit, visit'[u].at = "answered", visit'[u].accounts # {}
               PROVE  selection'.accounts = visit'[u].accounts \/ \E w \in Visit \ {u} : Overtaken(u, w)'
    BY DEF SelectionHolds
  <2>1. u # v
    BY <1>4
  <2>2. CASE selection.accounts = visit[u].accounts
    BY <1>1, <1>4, <2>1, <2>2
  <2>3. ASSUME NEW w \in Visit \ {u}, Overtaken(u, w) PROVE Overtaken(u, w)' 
    BY <1>1, <1>3, <1>4, <2>1, <2>3 DEF Overtaken, VisitTypes
  <2> QED
    BY <1>4, <2>1, <2>2, <2>3 DEF SelectionHolds, CatalogueIInv
<1>8. OneClient'
  BY <1>2, <1>4 DEF OneClient, CatalogueIInv
<1> QED
  BY <1>5, <1>6, <1>7, <1>8, ListKeeps DEF ReadList

\* A list's accounts are saved, or not.
LEMMA SavingKeeps ==
  ASSUME CatalogueIInv, NEW v \in Visit, SaveSelection(v) \/ SaveFails(v)
  PROVE  CatalogueIInv'
<1> PICK at \in {"answered", "unsaved"} :
      /\ visit' = [visit EXCEPT ![v].at = at]
      /\ at = "answered" => selection' = [accounts |-> visit[v].accounts, by |-> v]
      /\ at = "unsaved" => UNCHANGED selection
      /\ visit[v].at = "save" /\ UNCHANGED <<project, reply, export, bucket, meanwhile>>
  BY DEF SaveSelection, SaveFails
<1>1. VisitTypes
  BY DEF CatalogueIInv, CatalogueTypes
<1>2. /\ DOMAIN visit' = Visit
      /\ visit'[v].at = at
      /\ \A w \in Visit : /\ DOMAIN visit'[w] = DOMAIN visit[w] /\ visit'[w].accounts = visit[w].accounts
                          /\ visit'[w].clients = visit[w].clients /\ visit'[w].turn = visit[w].turn
                          /\ visit'[w].overlapped = visit[w].overlapped
                          /\ w # v => visit'[w].at = visit[w].at
  BY <1>1 DEF VisitTypes
<1>3. VisitTypes'
  BY <1>1, <1>2 DEF VisitTypes
<1>4. \A u, w \in Visit : Overtaken(u, w)' <=> Overtaken(u, w)
  BY <1>2 DEF Overtaken
<1>5. SavesInOrder'
  BY <1>2, <1>4 DEF SavesInOrder, CatalogueIInv
<1>6. SelectionHolds'
  <2> SUFFICES ASSUME NEW u \in Visit, visit'[u].at = "answered", visit'[u].accounts # {}
               PROVE  selection'.accounts = visit'[u].accounts \/ \E w \in Visit \ {u} : Overtaken(u, w)
    BY <1>4 DEF SelectionHolds
  <2>1. CASE u = v
    BY <1>2, <2>1
  <2>2. CASE u # v
    BY <1>2, <2>2 DEF SelectionHolds, SavesInOrder, CatalogueIInv
  <2> QED
    BY <2>1, <2>2
<1>7. OneClient'
  BY <1>2 DEF OneClient, CatalogueIInv
<1> QED
  BY <1>3, <1>5, <1>6, <1>7, ListKeeps
-----------------------------------------------------------------------------

\* What an export does leaves lists and projects alone.
LEMMA ExportKeeps ==
  ASSUME CatalogueIInv, UNCHANGED <<project, visit, selection>>, DOMAIN meanwhile' = DOMAIN meanwhile,
         UNCHANGED meanwhile.turn, ReplyTypes', ExportTypes', FilesAreThere', SchedulesHold'
  PROVE  CatalogueIInv'
<1>1. ProjectTypes' /\ VisitTypes'
  BY DEF CatalogueIInv, CatalogueTypes, ProjectTypes, VisitTypes
<1>2. SavesInOrder' /\ SelectionHolds' /\ OneClient'
  BY DEF CatalogueIInv, SavesInOrder, SelectionHolds, OneClient, Overtaken
<1> QED
  BY <1>1, <1>2 DEF CatalogueIInv, CatalogueTypes

\* One export goes on, and no file is written.
LEMMA OneExportKeeps ==
  ASSUME CatalogueIInv, NEW e \in Export, NEW to, export' = [export EXCEPT ![e] = to],
         UNCHANGED <<project, reply, bucket, visit, selection, meanwhile>>,
         DOMAIN to = {"at", "of", "held", "declined", "name", "got", "failed", "changed"},
         to.at # "idle" => to.of \in Project /\ project[to.of].there,
         to.at \in Past => to.name \in Name \cup Project,
         Stored(e) => to.at \in {"signed", "downloaded"} /\ to.name = export[e].name,
         to.at \in {"signed", "downloaded"} => Named(bucket[to.name], to.name),
         to.at = "downloaded" => Named(to.got, to.name),
         to.at = "declined" => to.declined = {},
         to.at \in {"declined", "name", "upload", "signed", "downloaded"} =>
           /\ to.held \cup to.declined \subseteq Of(to.of)
           /\ \A r \in Of(to.of) \ to.changed : r \in to.held <=> reply[r].interview = "hosted",
         to.at \in {"name", "upload", "signed", "downloaded"} /\ ~to.failed =>
           \A r \in Of(to.of) \ to.changed : r \in to.declined <=> reply[r].declined
  PROVE  CatalogueIInv'
<1>1. ExportTypes /\ ReplyTypes
  BY DEF CatalogueIInv, CatalogueTypes
<1>2. export'[e] = to /\ DOMAIN export' = Export /\ \A f \in Export \ {e} : export'[f] = export[f]
  BY <1>1 DEF ExportTypes
<1>3. ReplyTypes' /\ ExportTypes'
  BY <1>1, <1>2 DEF ReplyTypes, ExportTypes
<1>4. \A f, n : Named(f, n) => Named(f, n)'
  BY <1>2 DEF Named, Stored
<1>5. FilesAreThere'
  BY <1>2, <1>4 DEF FilesAreThere, Stored, CatalogueIInv
<1>6. \A p : Of(p)' = Of(p)
  BY DEF Of
<1>7. SchedulesHold'
  BY <1>2, <1>6 DEF SchedulesHold, CatalogueIInv
<1> QED
  BY <1>3, <1>5, <1>7, ExportKeeps

LEMMA ReadHeldKeeps ==
  ASSUME CatalogueIInv, NEW e \in Export, NEW p \in Project, ReadHeld(e, p)
  PROVE  CatalogueIInv'
<1> DEFINE held == {r \in Of(p) : reply[r].interview = "hosted"}
           to == [NoExport EXCEPT !.at = "declined", !.of = p, !.held = held]
<1>1. /\ export[e].at = "idle" /\ project[p].there /\ export' = [export EXCEPT ![e] = to]
      /\ UNCHANGED <<project, reply, bucket, visit, selection, meanwhile>>
  BY DEF ReadHeld
<1>2. /\ DOMAIN to = {"at", "of", "held", "declined", "name", "got", "failed", "changed"}
      /\ to.at = "declined" /\ to.of = p /\ to.held = held /\ to.declined = {} /\ to.changed = {}
  BY DEF NoExport
<1>3. held \subseteq Of(p) /\ \A r \in Of(p) : r \in held <=> reply[r].interview = "hosted"
  OBVIOUS
<1> HIDE DEF held, to
<1> QED
  BY <1>1, <1>2, <1>3, OneExportKeeps DEF Stored, Past

LEMMA ReadDeclinedKeeps ==
  ASSUME CatalogueIInv, NEW e \in Export, ReadDeclined(e)
  PROVE  CatalogueIInv'
<1> DEFINE old == export[e]
<1>1. /\ DOMAIN export = Export /\ DOMAIN old = {"at", "of", "held", "declined", "name", "got", "failed", "changed"}
      /\ old.at = "declined" /\ old.of \in Project /\ project[old.of].there /\ old.declined = {}
      /\ old.held \subseteq Of(old.of)
      /\ \A r \in Of(old.of) \ old.changed : r \in old.held <=> reply[r].interview = "hosted"
  BY DEF ReadDeclined, CatalogueIInv, CatalogueTypes, ExportTypes, SchedulesHold
<1> PICK to : /\ export' = [export EXCEPT ![e] = to]
              /\ DOMAIN to = DOMAIN old /\ to.at = "name" /\ to.of = old.of /\ to.held = old.held /\ to.changed = old.changed
              /\ \/ to.declined = Declined(old.of)
                 \/ to.failed /\ to.declined = {}
  <2>1. CASE export' = [Goes(e, "name") EXCEPT ![e].declined = Declined(export[e].of)]
    <3> DEFINE to == [old EXCEPT !.at = "name", !.declined = Declined(old.of)]
    <3>2. /\ DOMAIN to = DOMAIN old /\ to.at = "name" /\ to.of = old.of /\ to.held = old.held /\ to.changed = old.changed
          /\ \/ to.declined = Declined(old.of)
             \/ to.failed /\ to.declined = {}
      BY <1>1
    <3>1. export' = [export EXCEPT ![e] = to]
      BY <1>1, <2>1 DEF Goes
    <3> QED
      BY <3>1, <3>2
  <2>2. CASE export' = [Goes(e, "name") EXCEPT ![e].failed = TRUE]
    <3> DEFINE to == [old EXCEPT !.at = "name", !.failed = TRUE]
    <3>2. /\ DOMAIN to = DOMAIN old /\ to.at = "name" /\ to.of = old.of /\ to.held = old.held /\ to.changed = old.changed
          /\ \/ to.declined = Declined(old.of)
             \/ to.failed /\ to.declined = {}
      BY <1>1
    <3>1. export' = [export EXCEPT ![e] = to]
      BY <1>1, <2>2 DEF Goes
    <3> QED
      BY <3>1, <3>2
  <2> QED
    BY <2>1, <2>2 DEF ReadDeclined
<1>2. to.held \cup to.declined \subseteq Of(to.of)
  BY <1>1 DEF Declined
<1>3. ~to.failed => \A r \in Of(to.of) : r \in to.declined <=> reply[r].declined
  BY <1>1 DEF Declined
<1>4. UNCHANGED <<project, reply, bucket, visit, selection, meanwhile>>
  BY DEF ReadDeclined
<1> HIDE DEF old
<1> QED
  BY <1>1, <1>2, <1>3, <1>4, OneExportKeeps DEF Stored, Past, old

LEMMA ReadNameKeeps ==
  ASSUME CatalogueIInv, NEW e \in Export, ReadName(e)
  PROVE  CatalogueIInv'
<1> DEFINE old == export[e]
<1>1. /\ DOMAIN export = Export /\ DOMAIN old = {"at", "of", "held", "declined", "name", "got", "failed", "changed"}
      /\ old.at = "name" /\ old.of \in Project /\ project[old.of].there /\ project[old.of].name \in Name
      /\ old.held \cup old.declined \subseteq Of(old.of)
      /\ \A r \in Of(old.of) \ old.changed : r \in old.held <=> reply[r].interview = "hosted"
      /\ ~old.failed => \A r \in Of(old.of) \ old.changed : r \in old.declined <=> reply[r].declined
  BY DEF ReadName, CatalogueIInv, CatalogueTypes, ProjectTypes, ExportTypes, SchedulesHold
<1> PICK name \in Name \cup Project : export' = [Goes(e, "upload") EXCEPT ![e].name = name]
  BY <1>1 DEF ReadName
<1> DEFINE to == [old EXCEPT !.at = "upload", !.name = name]
<1>2. export' = [export EXCEPT ![e] = to]
  BY <1>1 DEF Goes
<1>3. /\ DOMAIN to = DOMAIN old /\ to.at = "upload" /\ to.name = name /\ to.of = old.of /\ to.held = old.held
      /\ to.declined = old.declined /\ to.failed = old.failed /\ to.changed = old.changed
  BY <1>1
<1>4. UNCHANGED <<project, reply, bucket, visit, selection, meanwhile>>
  BY DEF ReadName
<1> HIDE DEF to
<1> QED
  BY <1>1, <1>2, <1>3, <1>4, OneExportKeeps DEF Stored, Past

LEMMA DownloadKeeps ==
  ASSUME CatalogueIInv, NEW e \in Export, Download(e)
  PROVE  CatalogueIInv'
<1> DEFINE old == export[e]
<1>1. /\ DOMAIN export = Export /\ DOMAIN old = {"at", "of", "held", "declined", "name", "got", "failed", "changed"}
      /\ old.at = "signed" /\ old.of \in Project /\ project[old.of].there /\ old.name \in Name \cup Project
      /\ old.held \cup old.declined \subseteq Of(old.of)
      /\ \A r \in Of(old.of) \ old.changed : r \in old.held <=> reply[r].interview = "hosted"
      /\ ~old.failed => \A r \in Of(old.of) \ old.changed : r \in old.declined <=> reply[r].declined
      /\ Named(bucket[old.name], old.name)
  BY DEF Download, CatalogueIInv, CatalogueTypes, ExportTypes, SchedulesHold, FilesAreThere, Stored, Past
<1> DEFINE to == [old EXCEPT !.at = "downloaded", !.got = bucket[old.name]]
<1>2. export' = [export EXCEPT ![e] = to]
  BY <1>1 DEF Download, Goes, Key
<1>3. /\ DOMAIN to = DOMAIN old /\ to.at = "downloaded" /\ to.got = bucket[old.name] /\ to.name = old.name
      /\ to.of = old.of /\ to.held = old.held
      /\ to.declined = old.declined /\ to.failed = old.failed /\ to.changed = old.changed
  BY <1>1
<1>4. UNCHANGED <<project, reply, bucket, visit, selection, meanwhile>>
  BY DEF Download
<1> HIDE DEF to
<1> QED
  BY <1>1, <1>2, <1>3, <1>4, OneExportKeeps DEF Stored, Past

LEMMA UploadKeeps ==
  ASSUME CatalogueIInv, NEW e \in Export, Upload(e)
  PROVE  CatalogueIInv'
<1>1. /\ ExportTypes /\ ReplyTypes /\ export[e].at = "upload" /\ export[e].name \in Name \cup Project
      /\ UNCHANGED <<project, reply, visit, selection, meanwhile>>
  BY DEF Upload, CatalogueIInv, CatalogueTypes, ExportTypes, Past
<1> PICK at \in {"signed", "refused"} :
      /\ export' = [export EXCEPT ![e].at = at]
      /\ at = "signed" => bucket' = [bucket EXCEPT ![export[e].name] = e]
      /\ at = "refused" => UNCHANGED bucket
  BY DEF Upload, Goes, Key
<1>2. /\ DOMAIN export' = Export /\ DOMAIN bucket' = Name \cup Project
      /\ export'[e].at = at
      /\ \A f \in Export : /\ DOMAIN export'[f] = DOMAIN export[f] /\ export'[f].of = export[f].of
                           /\ export'[f].held = export[f].held /\ export'[f].declined = export[f].declined
                           /\ export'[f].name = export[f].name /\ export'[f].got = export[f].got
                           /\ export'[f].failed = export[f].failed /\ export'[f].changed = export[f].changed
                           /\ f # e => export'[f].at = export[f].at
  BY <1>1 DEF ExportTypes
<1>3. ReplyTypes' /\ ExportTypes'
  BY <1>1, <1>2 DEF ReplyTypes, ExportTypes, Past
<1>4. \A f, n : Named(f, n) => Named(f, n)'
  BY <1>1, <1>2 DEF Named, Stored
<1>5. FilesAreThere'
  <2> SUFFICES ASSUME NEW f \in Export
               PROVE  /\ Stored(f)' => Named(bucket[export[f].name], export[f].name)'
                      /\ export'[f].at = "downloaded" => Named(export[f].got, export[f].name)'
    BY DEF FilesAreThere
  <2>1. export'[f].at = "downloaded" => Named(export[f].got, export[f].name)'
    BY <1>2, <1>4 DEF FilesAreThere, CatalogueIInv
  <2>2. ASSUME Stored(f)' PROVE Named(bucket[export[f].name], export[f].name)'
    <3>1. CASE at = "signed" /\ export[f].name = export[e].name
      BY <1>1, <1>2, <3>1 DEF Named, Stored, ExportTypes
    <3>2. CASE ~(at = "signed" /\ export[f].name = export[e].name)
      <4>1. f # e /\ Stored(f)
        BY <1>2, <2>2, <3>2 DEF Stored
      <4>2. CASE at = "signed"
        <5>1. export[f].name # export[e].name /\ bucket' = [bucket EXCEPT ![export[e].name] = e]
          BY <3>2, <4>2
        <5>2. DOMAIN bucket = Name \cup Project /\ export[f].name \in Name \cup Project
          BY <1>1, <4>1 DEF Stored, ExportTypes, Past
        <5> QED
          BY <1>2, <1>4, <4>1, <5>1, <5>2 DEF FilesAreThere, CatalogueIInv
      <4>3. CASE at = "refused"
        BY <1>2, <1>4, <4>1, <4>3 DEF FilesAreThere, CatalogueIInv
      <4> QED
        BY <4>2, <4>3
    <3> QED
      BY <3>1, <3>2
  <2> QED
    BY <2>1, <2>2
<1>6. \A p : Of(p)' = Of(p)
  BY <1>1 DEF Of
<1>7. SchedulesHold'
  BY <1>1, <1>2, <1>6 DEF SchedulesHold, CatalogueIInv
<1> QED
  BY <1>1, <1>3, <1>5, <1>7, ExportKeeps

LEMMA AnswerKeeps ==
  ASSUME CatalogueIInv, NEW r \in Person, NEW got, NEW declined, Answer(r, got, declined)
  PROVE  CatalogueIInv'
<1>1. /\ ReplyTypes /\ ExportTypes /\ UNCHANGED <<project, bucket, visit, selection>>
      /\ reply' = [reply EXCEPT ![r].interview = got, ![r].declined = declined]
      /\ export' = [e \in Export |-> [export[e] EXCEPT !.changed = @ \cup {r}]]
  BY DEF Answer, CatalogueIInv, CatalogueTypes
<1>2. DOMAIN meanwhile' = DOMAIN meanwhile /\ meanwhile'.turn = meanwhile.turn
  BY DEF Answer, CountsAsEdit, CatalogueIInv, CatalogueTypes, VisitTypes
<1>3. /\ DOMAIN reply' = Person
      /\ \A q \in Person : /\ DOMAIN reply'[q] = {"of", "interview", "declined"}
                           /\ reply'[q].of = reply[q].of
                           /\ q # r => reply'[q] = reply[q]
  BY <1>1 DEF ReplyTypes
<1>4. /\ DOMAIN export' = Export
      /\ \A f \in Export : /\ DOMAIN export'[f] = DOMAIN export[f] /\ export'[f].of = export[f].of
                           /\ export'[f].held = export[f].held /\ export'[f].declined = export[f].declined
                           /\ export'[f].name = export[f].name /\ export'[f].got = export[f].got
                           /\ export'[f].failed = export[f].failed /\ export'[f].at = export[f].at
                           /\ export'[f].changed = export[f].changed \cup {r}
  BY <1>1 DEF ExportTypes
<1>5. ReplyTypes' /\ ExportTypes'
  <2>1. ReplyTypes'
    BY <1>3 DEF ReplyTypes
  <2>2. ExportTypes'
    BY <1>1, <1>4 DEF ExportTypes
  <2> QED
    BY <2>1, <2>2
<1>6. FilesAreThere'
  BY <1>1, <1>4 DEF FilesAreThere, Named, Stored, CatalogueIInv
<1>7. \A p : Of(p)' = Of(p)
  BY <1>3 DEF Of
<1>8. SchedulesHold'
  <2> SUFFICES ASSUME NEW f \in Export
               PROVE  /\ export[f].at = "declined" => export[f].declined = {}
                      /\ export[f].at \in {"declined", "name", "upload", "signed", "downloaded"} =>
                           /\ export[f].held \cup export[f].declined \subseteq Of(export[f].of)
                           /\ \A q \in Of(export[f].of) \ (export[f].changed \cup {r}) :
                                q \in export[f].held <=> reply'[q].interview = "hosted"
                      /\ export[f].at \in {"name", "upload", "signed", "downloaded"} /\ ~export[f].failed =>
                           \A q \in Of(export[f].of) \ (export[f].changed \cup {r}) :
                             q \in export[f].declined <=> reply'[q].declined
    BY <1>4, <1>7 DEF SchedulesHold
  <2>1. \A q \in Of(export[f].of) \ {r} : reply'[q] = reply[q]
    BY <1>3 DEF Of
  <2> QED
    BY <2>1 DEF SchedulesHold, CatalogueIInv
<1> QED
  BY <1>1, <1>2, <1>5, <1>6, <1>8, ExportKeeps

LEMMA CatalogueSteps == CatalogueIInv /\ [CatalogueNext]_catalogueVars => CatalogueIInv'
<1> SUFFICES ASSUME CatalogueIInv, [CatalogueNext]_catalogueVars PROVE CatalogueIInv'
  OBVIOUS
<1>1. ASSUME NEW p \in Project, NEW n \in Name, NEW a \in Account, NEW c \in {1, 2}, CreateProject(p, n, a, c)
      PROVE  CatalogueIInv'
  BY <1>1, CreateKeeps
<1>2. ASSUME NEW p \in Project, NEW b \in {0, 1}, NEW m \in {0, 1}, UpdateDetails(p, b, m) PROVE CatalogueIInv'
  BY <1>2, UpdateDetailsKeeps
<1>3. ASSUME NEW p \in Project, NEW n \in Name, Rename(p, n) PROVE CatalogueIInv'
  BY <1>3, RenameKeeps
<1>4. ASSUME NEW v \in Visit, NEW accounts \in SUBSET Account, NEW c \in {1, 2}, ReadList(v, accounts, c)
      PROVE  CatalogueIInv'
  BY <1>4, ReadListKeeps
<1>5. ASSUME NEW v \in Visit, SaveSelection(v) \/ SaveFails(v) PROVE CatalogueIInv'
  BY <1>5, SavingKeeps
<1>6. ASSUME NEW e \in Export, NEW p \in Project, ReadHeld(e, p) PROVE CatalogueIInv'
  BY <1>6, ReadHeldKeeps
<1>7. ASSUME NEW e \in Export, ReadDeclined(e) \/ ReadName(e) \/ Upload(e) \/ Download(e) PROVE CatalogueIInv'
  BY <1>7, ReadDeclinedKeeps, ReadNameKeeps, UploadKeeps, DownloadKeeps
<1>8. ASSUME NEW r \in Person, NEW i \in {"none", "booked", "hosted"}, NEW d \in BOOLEAN, Answer(r, i, d)
      PROVE  CatalogueIInv'
  BY <1>8, AnswerKeeps
<1>9. CASE UNCHANGED catalogueVars
  <2>1. ReplyTypes' /\ ExportTypes' /\ FilesAreThere' /\ SchedulesHold'
    BY <1>9 DEF catalogueVars, CatalogueIInv, CatalogueTypes, ReplyTypes, ExportTypes, FilesAreThere, Named, Stored,
                SchedulesHold, Of
  <2> QED
    BY <1>9, <2>1, ExportKeeps DEF catalogueVars
<1> QED
  BY <1>1, <1>2, <1>3, <1>4, <1>5, <1>6, <1>7, <1>8, <1>9 DEF CatalogueNext

\* A set all of whose members are one thing has at most one member.
LEMMA AtMostOne ==
  ASSUME NEW S, NEW x, S \subseteq {x}
  PROVE  Cardinality(S) <= 1
<1>1. IsFiniteSet({x}) /\ Cardinality({x}) = 1
  BY FS_Singleton
<1> QED
  BY <1>1, FS_Subset, FS_CardinalityType

\* Managers are given what is theirs.
THEOREM CatalogueSound == CatalogueSpec => []CatalogueIsSound
<1>1. CatalogueIInv => CatalogueIsSound
  <2> SUFFICES ASSUME CatalogueIInv PROVE CatalogueIsSound
    OBVIOUS
  <2>1. DownloadIsOwn
    BY DEF CatalogueIInv, FilesAreThere, Named, DownloadIsOwn
  <2>2. ScheduleIsComplete
    BY DEF CatalogueIInv, SchedulesHold, ScheduleIsComplete
  <2>3. SelectionIsOfLast
    BY DEF CatalogueIInv, SelectionHolds, Overtaken, SelectionIsOfLast
  <2>4. ListIsOfOneClient
    BY AtMostOne DEF CatalogueIInv, OneClient, ListIsOfOneClient
  <2> QED
    BY <2>1, <2>2, <2>3, <2>4 DEF CatalogueIsSound
<1> QED
  BY <1>1, CatalogueInitially, CatalogueSteps, PTL DEF CatalogueSpec

-----------------------------------------------------------------------------
(* The pages of a survey *)

Orders ==
  [admin |-> <<"answers", "kind", "status", "level", "crowd", "available", "eligible", "full", "currency">>,
   subscriber |-> <<"answers", "kind", "status", "level", "currency", "crowd", "available", "eligible", "full">>,
   hono |-> <<"answers", "kind", "status", "level", "currency", "crowd">>,
   minimalJson |-> <<"answers", "kind", "status", "level", "currency", "crowd">>,
   detail |-> <<"answers", "kind", "crowd", "answers", "status", "currency">>]

Spelt(form) ==
  /\ Len(Statements(form)) = Len(Orders[form])
  /\ \A i \in 1 .. Len(Orders[form]) : Statements(form)[i] = Orders[form][i]

LEMMA StatementsAre == \A form \in Form : Spelt(form)
<1>1. Spelt("admin")
  BY DEF Spelt, Orders, Statements, Flat, Counted
<1>2. Spelt("subscriber")
  BY DEF Spelt, Orders, Statements, SharedForm, Flat, Counted
<1>3. Spelt("hono")
  BY DEF Spelt, Orders, Statements, SharedForm, Flat
<1>4. Spelt("minimalJson")
  BY DEF Spelt, Orders, Statements, SharedForm, Flat
<1>5. Spelt("detail")
  BY DEF Spelt, Orders, Statements, Flat
<1> QED
  BY <1>1, <1>2, <1>3, <1>4, <1>5 DEF Form

\* When a statement comes, what another one needs has been read, and what depends
\* on it has not.
LEMMA InTheirOrder ==
  ASSUME NEW form \in Form, NEW n \in 0 .. Len(Statements(form)) - 1
  PROVE  LET known == {Statements(form)[i] : i \in 1 .. n}
             what == Statements(form)[n + 1]
         IN /\ what = "level" => "status" \in known
            /\ what = "eligible" => "available" \in known
            /\ what = "full" => "eligible" \in known
            /\ what = "available" => "eligible" \notin known
            /\ what = "eligible" => "full" \notin known
<1>1. /\ Len(Statements(form)) = Len(Orders[form])
      /\ \A i \in 1 .. Len(Orders[form]) : Statements(form)[i] = Orders[form][i]
  BY StatementsAre DEF Spelt
<1>2. CASE form = "admin"
  BY <1>1, <1>2 DEF Orders
<1>3. CASE form = "subscriber"
  BY <1>1, <1>3 DEF Orders
<1>4. CASE form = "hono"
  BY <1>1, <1>4 DEF Orders
<1>5. CASE form = "minimalJson"
  BY <1>1, <1>5 DEF Orders
<1>6. CASE form = "detail"
  BY <1>1, <1>6 DEF Orders
<1> QED
  BY <1>2, <1>3, <1>4, <1>5, <1>6 DEF Form

SheetTypes ==
  /\ sample \in [Sample -> SampleRow]
  /\ stage \in [Sample -> [Panelist -> Stage]]
  /\ DOMAIN sheet = {"at", "form", "done", "row", "failed", "joined", "kindMoved"}
  /\ sheet.form \in Form
  /\ sheet.done \in [Sample -> Nat] /\ DOMAIN sheet.row = Sample

\* A row holds what the first statements of its form have answered.
Opened(c) ==
  /\ sheet.done[c] <= Len(Statements(sheet.form))
  /\ DOMAIN sheet.row[c] = {Statements(sheet.form)[i] : i \in 1 .. sheet.done[c]}
  /\ sheet.at # "rows" => sheet.done[c] = 0

KindHolds(c) ==
  Knows(c, "kind") => sheet.row[c]["kind"] = survey.kind \/ sheet.kindMoved \/ Failed(c, "kind")

\* Once fielded it stays so.
StatusHolds(c) ==
  /\ Knows(c, "level") => Knows(c, "status")
  /\ Knows(c, "status") => sheet.row[c]["status"] = "unfielded" \/ sample[c].shc # "unfielded"

\* The groups shrink, but for the newcomers.
AvailableHolds(c) ==
  Knows(c, "available") /\ ~Failed(c, "available") =>
    /\ Available(c) \subseteq sheet.row[c]["available"] \cup Newcomers(c)
    /\ Knows(c, "eligible") => sheet.row[c]["eligible"] \subseteq sheet.row[c]["available"] \cup Newcomers(c)

EligibleHolds(c) ==
  /\ Knows(c, "eligible") => Knows(c, "available")
  /\ Knows(c, "full") => Knows(c, "eligible")
  /\ Knows(c, "eligible") /\ ~Failed(c, "eligible") =>
       /\ Eligible(c, FALSE) \subseteq sheet.row[c]["eligible"] \cup Newcomers(c)
       /\ Knows(c, "full") => sheet.row[c]["full"] \subseteq sheet.row[c]["eligible"] \cup Newcomers(c)

CurrencyHolds(c) ==
  Knows(c, "currency") /\ sheet.row[c]["currency"] # Currency(c) =>
    Failed(c, "currency") /\ sheet.row[c]["currency"] = "USD"

RowHolds(c) ==
  Opened(c) /\ KindHolds(c) /\ StatusHolds(c) /\ AvailableHolds(c) /\ EligibleHolds(c) /\ CurrencyHolds(c)

SheetIInv == SheetTypes /\ \A c \in Sample : RowHolds(c)

LEMMA SheetInitially == SurveyInit => SheetIInv
<1> SUFFICES ASSUME SurveyInit PROVE SheetIInv
  OBVIOUS
<1>1. SheetTypes
  BY DEF SurveyInit, SheetTypes, Form
<1>2. \A c \in Sample : sheet.done[c] = 0 /\ DOMAIN sheet.row[c] = {} /\ sheet.form \in Form
  <2>1. DOMAIN << >> = {}
    OBVIOUS
  <2> QED
    BY <2>1 DEF SurveyInit, Form
<1>3. Len(Statements(sheet.form)) >= 0
  BY StatementsAre DEF SurveyInit, Spelt, Orders, Form
<1>4. \A c \in Sample : Opened(c)
  BY <1>2, <1>3, 1 .. 0 = {} DEF Opened
<1> QED
  BY <1>1, <1>2, <1>4 DEF SheetIInv, RowHolds, KindHolds, StatusHolds, AvailableHolds, EligibleHolds, CurrencyHolds, Knows

\* The rest of the survey moves on.
LEMMA SheetStays ==
  ASSUME SheetIInv, UNCHANGED <<survey, sample, stage, sheet>>
  PROVE  SheetIInv'
BY DEF SheetIInv, SheetTypes, RowHolds, Opened, KindHolds, StatusHolds, AvailableHolds, EligibleHolds, CurrencyHolds,
       Knows, Failed, Newcomers, Available, Eligible, In, Currency

\* A row of which nothing is known yet.
LEMMA ClosedRow ==
  ASSUME SheetTypes, NEW c \in Sample, Opened(c), sheet.done[c] = 0
  PROVE  \A what : ~Knows(c, what)
BY DEF Opened, Knows

LEMMA ListCrowdsKeeps ==
  ASSUME SheetIInv, NEW form \in Form, ListCrowds(form)
  PROVE  SheetIInv'
<1>1. /\ sheet' = [sheet EXCEPT !.at = "rows", !.form = form] \/ sheet' = [sheet EXCEPT !.at = "refused"]
      /\ sheet.at = "idle" /\ UNCHANGED <<survey, sample, stage>>
  BY DEF ListCrowds
<1>2. SheetTypes'
  BY <1>1 DEF SheetIInv, SheetTypes
<1>3. /\ sheet'.done = sheet.done /\ sheet'.row = sheet.row /\ sheet'.form \in Form
  BY <1>1, <1>2 DEF SheetIInv, SheetTypes
<1>4. \A c \in Sample : sheet'.done[c] = 0 /\ DOMAIN sheet'.row[c] = {}
  BY <1>1, <1>3 DEF SheetIInv, SheetTypes, RowHolds, Opened
<1>5. Len(Statements(sheet'.form)) >= 0
  BY <1>3, StatementsAre DEF Spelt, Orders, Form
<1>6. \A c \in Sample : Opened(c)'
  BY <1>4, <1>5 DEF Opened
<1> QED
  BY <1>2, <1>4, <1>6 DEF SheetIInv, RowHolds, KindHolds, StatusHolds, AvailableHolds, EligibleHolds, CurrencyHolds, Knows

\* What others change leaves the answer as it is, apart from its history.
SheetKept ==
  /\ sheet'.at = sheet.at /\ sheet'.form = sheet.form /\ sheet'.done = sheet.done /\ sheet'.row = sheet.row
  /\ sheet'.failed = sheet.failed /\ sheet.joined \subseteq sheet'.joined
  /\ sheet.kindMoved => sheet'.kindMoved
  /\ DOMAIN sheet' = DOMAIN sheet

LEMMA KeptIsKnown ==
  ASSUME SheetIInv, SheetKept, NEW c \in Sample
  PROVE  /\ \A what : (Knows(c, what)' <=> Knows(c, what)) /\ sheet'.row[c][what] = sheet.row[c][what]
         /\ \A what : Failed(c, what)' <=> Failed(c, what)
         /\ Newcomers(c) \subseteq Newcomers(c)'
         /\ Opened(c)'
BY DEF SheetIInv, RowHolds, SheetKept, Knows, Failed, Newcomers, Opened

LEMMA EditSurveyKeeps ==
  ASSUME SheetIInv, NEW row \in SurveyRow, EditSurvey(row)
  PROVE  SheetIInv'
<1>1. /\ UNCHANGED <<sample, stage>> /\ survey' = row
      /\ sheet' = IF row.kind = survey.kind \/ sheet.at = "idle" THEN sheet ELSE [sheet EXCEPT !.kindMoved = TRUE]
  BY DEF EditSurvey
<1>2. SheetKept
  BY <1>1 DEF SheetKept, SheetIInv, SheetTypes
<1>3. SheetTypes'
  BY <1>1, <1>2 DEF SheetKept, SheetIInv, SheetTypes
<1>4. SUFFICES ASSUME NEW c \in Sample PROVE RowHolds(c)'
  BY <1>3 DEF SheetIInv
<1>5. RowHolds(c) /\ SheetTypes
  BY DEF SheetIInv
<1>6. KindHolds(c)'
  <2>1. CASE row.kind = survey.kind
    BY <1>1, <1>5, <2>1 DEF RowHolds, KindHolds, Knows, Failed
  <2>2. CASE sheet.at = "idle"
    BY <1>1, <1>5, <2>2, ClosedRow DEF RowHolds, KindHolds, Knows, Opened
  <2>3. CASE row.kind # survey.kind /\ sheet.at # "idle"
    BY <1>1, <1>5, <2>3 DEF SheetTypes, KindHolds
  <2> QED
    BY <2>1, <2>2, <2>3
<1>7. /\ StatusHolds(c)' /\ CurrencyHolds(c)'
      /\ AvailableHolds(c)' /\ EligibleHolds(c)'
  <2>1. Available(c)' = Available(c) /\ Eligible(c, FALSE)' = Eligible(c, FALSE) /\ Currency(c)' = Currency(c)
    BY <1>1 DEF Available, Eligible, In, Currency
  <2> QED
    BY <1>1, <1>2, <1>5, <2>1, KeptIsKnown DEF RowHolds, StatusHolds, CurrencyHolds, AvailableHolds, EligibleHolds
<1> QED
  BY <1>2, <1>6, <1>7, KeptIsKnown DEF RowHolds

LEMMA CrowdsChange ==
  ASSUME SheetIInv, UNCHANGED <<survey, stage, sheet>>, sample' \in [Sample -> SampleRow],
         \A c \in Sample : /\ sample'[c].abroad = sample[c].abroad
                           /\ sample[c].shc # "unfielded" => sample'[c].shc # "unfielded"
  PROVE  SheetIInv'
<1>1. SheetTypes'
  BY DEF SheetIInv, SheetTypes
<1>2. SUFFICES ASSUME NEW c \in Sample PROVE RowHolds(c)'
  BY <1>1 DEF SheetIInv
<1>3. RowHolds(c) /\ SheetTypes
  BY DEF SheetIInv
<1>4. Available(c)' = Available(c) /\ Eligible(c, FALSE)' = Eligible(c, FALSE) /\ Currency(c)' = Currency(c)
  BY DEF Available, Eligible, In, Currency
<1>5. Opened(c)' /\ KindHolds(c)' /\ AvailableHolds(c)' /\ EligibleHolds(c)' /\ CurrencyHolds(c)'
  BY <1>3, <1>4 DEF RowHolds, Opened, KindHolds, AvailableHolds, EligibleHolds, CurrencyHolds, Knows, Failed, Newcomers
<1>6. StatusHolds(c)'
  BY <1>3 DEF RowHolds, StatusHolds, Knows
<1> QED
  BY <1>5, <1>6 DEF RowHolds

LEMMA EditCrowdKeeps ==
  ASSUME SheetIInv, NEW d \in Sample, NEW out \in BOOLEAN, NEW gone \in BOOLEAN, EditCrowd(d, out, gone)
  PROVE  SheetIInv'
<1>1. UNCHANGED <<survey, stage, sheet>> /\ sample' = [sample EXCEPT ![d].excluded = out, ![d].deleted = gone]
  BY DEF EditCrowd
<1>2. sample \in [Sample -> SampleRow]
  BY DEF SheetIInv, SheetTypes
<1>3. sample' \in [Sample -> SampleRow]
  BY <1>1, <1>2 DEF SampleRow
<1>4. \A c \in Sample : sample'[c].abroad = sample[c].abroad /\ sample'[c].shc = sample[c].shc
  BY <1>1, <1>2 DEF SampleRow
<1> QED
  BY <1>1, <1>3, <1>4, CrowdsChange

LEMMA FieldKeeps ==
  ASSUME SheetIInv, NEW d \in Sample, NEW shc \in Shc, NEW level \in Level \cup {NoLevel}, Field(d, shc, level)
  PROVE  SheetIInv'
<1>1. /\ UNCHANGED <<survey, stage, sheet>> /\ shc # "unfielded"
      /\ sample' = [sample EXCEPT ![d].shc = shc, ![d].level = level]
  BY DEF Field
<1>2. sample \in [Sample -> SampleRow]
  BY DEF SheetIInv, SheetTypes
<1>3. sample' \in [Sample -> SampleRow]
  BY <1>1, <1>2 DEF SampleRow
<1>4. \A c \in Sample : /\ sample'[c].abroad = sample[c].abroad
                        /\ sample[c].shc # "unfielded" => sample'[c].shc # "unfielded"
  BY <1>1, <1>2 DEF SampleRow
<1> QED
  BY <1>1, <1>3, <1>4, CrowdsChange

LEMMA PanelistMovesKeeps ==
  ASSUME SheetIInv, NEW d \in Sample, NEW p \in Panelist, NEW to \in Stage, PanelistMoves(d, p, to)
  PROVE  SheetIInv'
<1>1. /\ UNCHANGED <<survey, sample>> /\ stage' = [stage EXCEPT ![d][p] = to]
      /\ sheet' = IF Standing[to] > Standing[stage[d][p]] /\ sheet.at # "idle"
                  THEN [sheet EXCEPT !.joined = @ \cup {<<d, p>>}] ELSE sheet
  BY DEF PanelistMoves
<1>2. SheetKept
  BY <1>1 DEF SheetKept, SheetIInv, SheetTypes
<1>3. stage \in [Sample -> [Panelist -> Stage]]
  BY DEF SheetIInv, SheetTypes
<1>4. SheetTypes'
  <2>1. stage' \in [Sample -> [Panelist -> Stage]]
    BY <1>1, <1>3
  <2> QED
    BY <1>1, <1>2, <2>1 DEF SheetKept, SheetIInv, SheetTypes
<1>5. SUFFICES ASSUME NEW c \in Sample PROVE RowHolds(c)'
  BY <1>4 DEF SheetIInv
<1>6. RowHolds(c) /\ SheetTypes
  BY DEF SheetIInv
<1>7. KindHolds(c)' /\ StatusHolds(c)' /\ CurrencyHolds(c)'
  <2>1. Currency(c)' = Currency(c)
    BY <1>1 DEF Currency
  <2> QED
    BY <1>1, <1>2, <1>6, <2>1, KeptIsKnown DEF SheetKept, RowHolds, KindHolds, StatusHolds, CurrencyHolds
<1>8. AvailableHolds(c)' /\ EligibleHolds(c)'
  <2>1. CASE sheet.at = "idle"
    BY <1>2, <1>6, <2>1, ClosedRow, KeptIsKnown DEF RowHolds, Opened, AvailableHolds, EligibleHolds
  <2>2. CASE sheet.at # "idle"
    <3>1. /\ Available(c)' \subseteq Available(c) \cup Newcomers(c)'
          /\ Eligible(c, FALSE)' \subseteq Eligible(c, FALSE) \cup Newcomers(c)'
      <4>1. \A q \in Panelist : <<c, q>> # <<d, p>> => stage'[c][q] = stage[c][q]
        BY <1>1, <1>3
      <4>2. stage'[d][p] = to /\ stage[d][p] \in Stage
        BY <1>1, <1>3
      <4>3. Standing[to] > Standing[stage[d][p]] => <<d, p>> \in sheet'.joined
        BY <1>1, <1>6, <2>2 DEF SheetTypes
      <4>4. /\ to \in {"available", "eligible", "full"} /\ stage[d][p] \notin {"available", "eligible", "full"}
                 => Standing[to] > Standing[stage[d][p]]
            /\ to \in {"eligible", "full"} /\ stage[d][p] \notin {"eligible", "full"}
                 => Standing[to] > Standing[stage[d][p]]
        BY <4>2 DEF Standing, Stage
      <4> QED
        BY <4>1, <4>2, <4>3, <4>4 DEF Available, Eligible, In, Newcomers
    <3> QED
      BY <1>2, <1>6, <3>1, KeptIsKnown DEF RowHolds, AvailableHolds, EligibleHolds
  <2> QED
    BY <2>1, <2>2
<1> QED
  BY <1>2, <1>7, <1>8, KeptIsKnown DEF RowHolds

LEMMA ValuesAre ==
  ASSUME NEW c
  PROVE  /\ Value("kind", c) = survey.kind /\ Value("status", c) = ShcStatus(c)
         /\ Value("available", c) = Available(c) /\ Value("eligible", c) = Eligible(c, FALSE)
         /\ Value("full", c) = Eligible(c, TRUE) /\ Value("currency", c) = Currency(c)
         /\ Fallback("status") = "unfielded" /\ Fallback("currency") = "USD"
         /\ Fallback("available") = {} /\ Fallback("eligible") = {} /\ Fallback("full") = {}
BY DEF Value, Fallback

\* The next answer of a crowd: what it tells is so now, or has failed.
LEMMA ReadNextKeeps ==
  ASSUME SheetIInv, NEW c \in Sample, ReadNext(c)
  PROVE  SheetIInv'
<1> DEFINE n == sheet.done[c]
           what == Statements(sheet.form)[n + 1]
<1>1. UNCHANGED <<survey, sample, stage>> /\ sheet.at = "rows" /\ n < Len(Statements(sheet.form))
  BY DEF ReadNext, AtCrowd
<1>2. SheetTypes /\ RowHolds(c)
  BY DEF SheetIInv
<1>3. PICK value, lost :
        /\ lost \in SUBSET {<<what, c>>}
        /\ sheet' = [Learns(c, what, value) EXCEPT !.failed = sheet.failed \cup lost]
        /\ IF lost = {} THEN value = Value(what, c) ELSE value = Fallback(what)
  <2>1. Learns(c, what, Value(what, c)).failed = sheet.failed /\ Learns(c, what, Fallback(what)).failed = sheet.failed
    BY <1>2 DEF Learns, SheetTypes
  <2>2. CASE sheet' = Learns(c, what, Value(what, c))
    <3>1. sheet' = [Learns(c, what, Value(what, c)) EXCEPT !.failed = sheet.failed \cup {}]
      BY <1>2, <2>1, <2>2 DEF Learns, SheetTypes
    <3> QED
      BY <3>1
  <2>3. CASE sheet' = [Learns(c, what, Fallback(what)) EXCEPT !.failed = @ \cup {<<what, c>>}]
    <3>1. sheet' = [Learns(c, what, Fallback(what)) EXCEPT !.failed = sheet.failed \cup {<<what, c>>}]
      BY <2>1, <2>3
    <3> QED
      BY <3>1
  <2> QED
    BY <2>2, <2>3 DEF ReadNext
<1> HIDE DEF what
<1>4. /\ sheet'.at = sheet.at /\ sheet'.form = sheet.form /\ sheet'.joined = sheet.joined /\ sheet'.kindMoved = sheet.kindMoved
      /\ sheet'.failed = sheet.failed \cup lost /\ DOMAIN sheet' = DOMAIN sheet
      /\ sheet'.done = [sheet.done EXCEPT ![c] = n + 1]
      /\ sheet'.row = [sheet.row EXCEPT ![c] = [w \in DOMAIN sheet.row[c] \cup {what} |-> IF w = what THEN value ELSE sheet.row[c][w]]]
  BY <1>2, <1>3 DEF Learns, SheetTypes
<1>5. SheetTypes'
  BY <1>1, <1>2, <1>4 DEF SheetTypes
<1>6. /\ Available(c)' = Available(c) /\ Eligible(c, FALSE)' = Eligible(c, FALSE) /\ Currency(c)' = Currency(c)
      /\ \A d \in Sample : Newcomers(d)' = Newcomers(d)
      /\ Eligible(c, TRUE) \subseteq Eligible(c, FALSE) /\ Eligible(c, FALSE) \subseteq Available(c)
  BY <1>1, <1>4 DEF Available, Eligible, In, Currency, Newcomers
<1>7. ASSUME NEW d \in Sample \ {c} PROVE RowHolds(d)'
  <2>1. sheet'.row[d] = sheet.row[d] /\ sheet'.done[d] = sheet.done[d]
    BY <1>2, <1>4 DEF SheetTypes
  <2>2. \A w : Failed(d, w)' <=> Failed(d, w)
    BY <1>3, <1>4 DEF Failed
  <2>3. Available(d)' = Available(d) /\ Eligible(d, FALSE)' = Eligible(d, FALSE) /\ Currency(d)' = Currency(d)
    BY <1>1 DEF Available, Eligible, In, Currency
  <2>4. RowHolds(d)
    BY DEF SheetIInv
  <2>5. Opened(d)' /\ KindHolds(d)' /\ StatusHolds(d)' /\ CurrencyHolds(d)'
    BY <1>1, <1>4, <2>1, <2>2, <2>3, <2>4 DEF RowHolds, Opened, KindHolds, StatusHolds, CurrencyHolds, Knows
  <2>6. AvailableHolds(d)' /\ EligibleHolds(d)'
    BY <1>6, <2>1, <2>2, <2>3, <2>4 DEF RowHolds, AvailableHolds, EligibleHolds, Knows
  <2> QED
    BY <2>5, <2>6 DEF RowHolds
<1>8. RowHolds(c)'
  <2>1. /\ DOMAIN sheet'.row[c] = DOMAIN sheet.row[c] \cup {what} /\ sheet'.row[c][what] = value
        /\ \A w \in DOMAIN sheet.row[c] : w # what => sheet'.row[c][w] = sheet.row[c][w]
        /\ sheet'.done[c] = n + 1 /\ n \in Nat
    BY <1>2, <1>4 DEF SheetTypes
  <2>2. \A w : Knows(c, w)' <=> Knows(c, w) \/ w = what
    BY <2>1 DEF Knows
  <2>3. \A w : Failed(c, w)' <=> Failed(c, w) \/ (w = what /\ lost # {})
    <3>1. lost # {} => lost = {<<what, c>>}
      BY <1>3
    <3> QED
      BY <1>4, <3>1 DEF Failed
  <2>4. \A w : Knows(c, w) /\ w # what => sheet'.row[c][w] = sheet.row[c][w]
    BY <2>1 DEF Knows
  <2>5. /\ what = "level" => Knows(c, "status")
        /\ what = "eligible" => Knows(c, "available") /\ ~Knows(c, "full")
        /\ what = "full" => Knows(c, "eligible")
        /\ what = "available" => ~Knows(c, "eligible")
    <3>1. n \in 0 .. Len(Statements(sheet.form)) - 1
      <4>1. Len(Statements(sheet.form)) \in Nat
        BY <1>2, StatementsAre DEF SheetTypes, Spelt, Orders, Form
      <4> QED
        BY <1>1, <2>1, <4>1
    <3>2. DOMAIN sheet.row[c] = {Statements(sheet.form)[i] : i \in 1 .. n}
      BY <1>2 DEF RowHolds, Opened
    <3> QED
      BY <1>2, <3>1, <3>2, InTheirOrder DEF SheetTypes, Knows, what
  <2>6. Opened(c)'
    <3>1. Len(Statements(sheet.form)) \in Nat
      BY <1>2, StatementsAre DEF SheetTypes, Spelt, Orders, Form
    <3>2. \A i : i \in 1 .. n + 1 <=> i \in 1 .. n \/ i = n + 1
      BY <2>1
    <3> QED
      BY <1>1, <1>2, <1>4, <2>1, <3>1, <3>2 DEF RowHolds, Opened, what
  <2>7. KindHolds(c)'
    <3>1. CASE what = "kind"
      BY <1>1, <1>3, <2>1, <2>3, <3>1, ValuesAre DEF KindHolds
    <3>2. CASE what # "kind"
      BY <1>1, <1>2, <1>4, <2>2, <2>3, <2>4, <3>2 DEF RowHolds, KindHolds
    <3> QED
      BY <3>1, <3>2
  <2>8. StatusHolds(c)'
    BY <1>1, <1>2, <1>3, <2>1, <2>2, <2>4, <2>5, ValuesAre DEF RowHolds, StatusHolds, ShcStatus
  <2>9. CurrencyHolds(c)'
    BY <1>2, <1>3, <1>6, <2>1, <2>2, <2>3, <2>4, ValuesAre DEF RowHolds, CurrencyHolds
  <2>10. AvailableHolds(c)'
    <3>1. CASE what = "available"
      BY <1>3, <1>6, <2>1, <2>2, <2>3, <2>5, <3>1, ValuesAre DEF AvailableHolds
    <3>2. CASE what = "eligible"
      <4>1. /\ Knows(c, "available") /\ sheet'.row[c]["available"] = sheet.row[c]["available"]
            /\ Failed(c, "available")' <=> Failed(c, "available")
        BY <2>3, <2>4, <2>5, <3>2
      <4>2. sheet'.row[c]["eligible"] \in {{}, Eligible(c, FALSE)}
        BY <1>3, <2>1, <3>2, ValuesAre
      <4> QED
        BY <1>2, <1>6, <4>1, <4>2 DEF RowHolds, AvailableHolds
    <3>3. CASE what \notin {"available", "eligible"}
      BY <1>2, <1>6, <2>2, <2>3, <2>4, <3>3 DEF RowHolds, AvailableHolds
    <3> QED
      BY <3>1, <3>2, <3>3
  <2>11. EligibleHolds(c)'
    <3>1. CASE what = "eligible"
      BY <1>3, <1>6, <2>1, <2>2, <2>3, <2>5, <3>1, ValuesAre DEF EligibleHolds
    <3>2. CASE what = "full"
      BY <1>2, <1>3, <1>6, <2>1, <2>2, <2>3, <2>4, <2>5, <3>2, ValuesAre DEF RowHolds, EligibleHolds
    <3>3. CASE what \notin {"eligible", "full"}
      BY <1>2, <1>6, <2>2, <2>3, <2>4, <3>3 DEF RowHolds, EligibleHolds
    <3> QED
      BY <3>1, <3>2, <3>3
  <2> QED
    BY <2>6, <2>7, <2>8, <2>9, <2>10, <2>11 DEF RowHolds
<1> QED
  BY <1>5, <1>7, <1>8 DEF SheetIInv

LEMMA SheetSteps == SheetIInv /\ [SurveyNext]_surveyVars => SheetIInv'
<1> SUFFICES ASSUME SheetIInv, [SurveyNext]_surveyVars PROVE SheetIInv'
  OBVIOUS
<1>1. CASE UNCHANGED <<survey, sample, stage, sheet>>
  BY <1>1, SheetStays
<1>2. CASE \E f \in Form : ListCrowds(f)
  BY <1>2, ListCrowdsKeeps
<1>3. CASE \E c \in Sample : ReadNext(c)
  BY <1>3, ReadNextKeeps
<1>4. CASE \E row \in SurveyRow : EditSurvey(row)
  BY <1>4, EditSurveyKeeps
<1>5. CASE \E c \in Sample, out, gone \in BOOLEAN : EditCrowd(c, out, gone)
  BY <1>5, EditCrowdKeeps
<1>6. CASE \E c \in Sample, shc \in Shc, level \in Level \cup {NoLevel} : Field(c, shc, level)
  BY <1>6, FieldKeeps
<1>7. CASE \E c \in Sample, p \in Panelist, to \in Stage : PanelistMoves(c, p, to)
  BY <1>7, PanelistMovesKeeps
<1>8. CASE BeginCheck \/ CountCrowds \/ CountDeleted \/ CountSlots \/ \E q \in {"crowds", "deleted", "slots"} : CountFails(q)
  BY <1>1, <1>8 DEF BeginCheck, CountCrowds, CountDeleted, CountSlots, CountFails
<1>9. CASE \E t \in Favoring : \/ \E u \in Reader : ListSurveys(t, u) \/ \E w \in BOOLEAN : BeginToggle(t, u, w)
                               \/ CheckLeave(t) \/ WriteFavorite(t) \/ WriteFails(t) \/ Reread(t) \/ ShowFavorite(t) \/ ShowLeave(t)
  BY <1>1, <1>9 DEF ListSurveys, BeginToggle, CheckLeave, WriteFavorite, WriteFails, Reread, ShowFavorite, ShowLeave
<1>10. CASE ReplicaFollows \/ \E u \in Reader : Revoke(u)
  BY <1>1, <1>10 DEF ReplicaFollows, Revoke
<1>11. CASE UNCHANGED surveyVars
  BY <1>1, <1>11 DEF surveyVars
<1> QED
  BY <1>2, <1>3, <1>4, <1>5, <1>6, <1>7, <1>8, <1>9, <1>10, <1>11 DEF SurveyNext

\* The numbers of an answer, at every moment.
LEMMA SheetsAgree ==
  SheetIInv => HonorariaAgree /\ CountsNest /\ LevelNeedsFielding /\ CurrencyIsOwn
<1> SUFFICES ASSUME SheetIInv PROVE HonorariaAgree /\ CountsNest /\ LevelNeedsFielding /\ CurrencyIsOwn
  OBVIOUS
<1>1. \A c \in Sample : RowHolds(c)
  BY DEF SheetIInv
<1>2. HonorariaAgree
  BY <1>1 DEF HonorariaAgree, RowHolds, KindHolds
<1>3. CountsNest
  BY <1>1 DEF CountsNest, RowHolds, AvailableHolds, EligibleHolds
<1>4. LevelNeedsFielding
  BY <1>1 DEF LevelNeedsFielding, RowHolds, StatusHolds, CurrentLevel
<1>5. CurrencyIsOwn
  BY <1>1 DEF CurrencyIsOwn, RowHolds, CurrencyHolds
<1> QED
  BY <1>2, <1>3, <1>4, <1>5

-----------------------------------------------------------------------------
(* The check of a survey *)

Asked(at) ==
  CASE at = "crowds" -> {"name", "template"}
    [] at = "deleted" -> {"name", "template", "crowds"}
    [] at = "slots" -> {"name", "template", "crowds", "deleted"}
    [] at = "answered" -> {"name", "template", "crowds", "deleted", "slots"}
    [] OTHER -> {}

CheckTypes ==
  /\ DOMAIN check = {"at", "problems", "moved", "failed"}
  /\ check.at = "idle" => check.problems = {}
  /\ sample \in [Sample -> SampleRow]

\* A problem asked for is named or not as it is, was till it moved, or as a count that
\* failed has it.
Judged(q) ==
  /\ q \in Problems /\ q \notin check.problems => q \in check.moved \/ (q = "deleted" /\ q \in check.failed)
  /\ q \in check.problems /\ q \notin Problems => q \in check.moved \/ (q # "deleted" /\ q \in check.failed)

CheckIInv ==
  CheckTypes /\ check.problems \subseteq Asked(check.at) /\ \A q \in Asked(check.at) : Judged(q)

LEMMA AskedAre ==
  /\ Asked("idle") = {} /\ Asked("refused") = {}
  /\ Asked("crowds") = {"name", "template"} /\ Asked("deleted") = Asked("crowds") \cup {"crowds"}
  /\ Asked("slots") = Asked("deleted") \cup {"deleted"} /\ Asked("answered") = Asked("slots") \cup {"slots"}
BY DEF Asked

LEMMA CheckInitially == SurveyInit => CheckIInv
<1> SUFFICES ASSUME SurveyInit PROVE CheckIInv
  OBVIOUS
<1>1. check = [at |-> "idle", problems |-> {}, moved |-> {}, failed |-> {}] /\ sample \in [Sample -> SampleRow]
  BY DEF SurveyInit
<1> QED
  BY <1>1, AskedAre DEF CheckIInv, CheckTypes

LEMMA CheckStays ==
  ASSUME CheckIInv, UNCHANGED <<survey, sample, check>>
  PROVE  CheckIInv'
<1>1. Problems' = Problems
  BY DEF Problems
<1> QED
  BY <1>1 DEF CheckIInv, CheckTypes, Judged

LEMMA BeginCheckKeeps ==
  ASSUME CheckIInv, BeginCheck
  PROVE  CheckIInv'
<1>1. UNCHANGED <<survey, sample>> /\ CheckTypes /\ check.at = "idle"
  BY DEF BeginCheck, CheckIInv
<1>2. Problems' = Problems
  BY <1>1 DEF Problems
<1>3. CASE check' = [check EXCEPT !.at = "crowds", !.problems = RowProblems]
  <2>1. CheckTypes' /\ check'.at = "crowds" /\ check'.problems = RowProblems
    BY <1>1, <1>3 DEF CheckTypes
  <2>2. \A q \in {"name", "template"} : q \in RowProblems <=> q \in Problems
    BY DEF RowProblems, Problems
  <2> QED
    BY <1>2, <2>1, <2>2, AskedAre DEF CheckIInv, Judged, RowProblems
<1>4. CASE check' = [check EXCEPT !.at = "refused"]
  <2>1. CheckTypes' /\ check'.at = "refused" /\ check'.problems = {}
    BY <1>1, <1>4 DEF CheckTypes
  <2> QED
    BY <2>1, AskedAre DEF CheckIInv
<1> QED
  BY <1>3, <1>4 DEF BeginCheck

\* One more problem is asked for.
LEMMA CountKeeps ==
  ASSUME CheckIInv, NEW q \in {"crowds", "deleted", "slots"}, NEW named \in SUBSET {q}, NEW moved, NEW failed,
         UNCHANGED <<survey, sample>>, check.at = q,
         check' = [at |-> Following[q], problems |-> check.problems \cup named, moved |-> moved, failed |-> failed],
         check.moved \ {q} \subseteq moved, check.failed \subseteq failed,
         \/ q \in named <=> q \in Problems
         \/ (q \in named <=> q # "deleted") /\ q \in failed
  PROVE  CheckIInv'
<1>1. Problems' = Problems /\ CheckTypes
  BY DEF Problems, CheckIInv
<1>2. CheckTypes' /\ check'.at = Following[q] /\ check'.moved = moved /\ check'.failed = failed
      /\ check'.problems = check.problems \cup named
  BY <1>1 DEF CheckTypes, Following
<1>3. Asked(Following[q]) = Asked(q) \cup {q} /\ q \notin Asked(q)
  BY AskedAre DEF Following
<1>4. check.problems \subseteq Asked(q) /\ \A p \in Asked(q) : Judged(p)
  BY DEF CheckIInv
<1>5. \A p \in Asked(q) : Judged(p)'
  BY <1>1, <1>2, <1>3, <1>4 DEF Judged
<1>6. Judged(q)'
  BY <1>1, <1>2, <1>3, <1>4 DEF Judged
<1> QED
  BY <1>2, <1>3, <1>4, <1>5, <1>6 DEF CheckIInv

LEMMA CountsKeep ==
  ASSUME CheckIInv, CountCrowds \/ CountDeleted \/ CountSlots
  PROVE  CheckIInv'
<1>1. CheckTypes
  BY DEF CheckIInv
<1>2. ASSUME NEW q \in {"crowds", "deleted", "slots"}, NEW holds \in BOOLEAN, Counts(q, Following[q], q, holds),
             holds <=> q \in Problems, UNCHANGED <<survey, sample>>
      PROVE  CheckIInv'
  <2> DEFINE named == IF holds THEN {q} ELSE {}
  <2>1. check.at = q /\ check' = [at |-> Following[q], problems |-> check.problems \cup named,
                                  moved |-> check.moved \ {q}, failed |-> check.failed]
    BY <1>1, <1>2 DEF Counts, CheckTypes
  <2>2. named \in SUBSET {q} /\ (q \in named <=> q \in Problems)
    BY <1>2
  <2> HIDE DEF named
  <2> QED
    BY <1>2, <2>1, <2>2, CountKeeps
<1>3. Following["crowds"] = "deleted" /\ Following["deleted"] = "slots" /\ Following["slots"] = "answered"
  BY DEF Following
<1>4. CASE CountCrowds
  <2>1. (\A c \in Sample : sample[c].excluded) <=> "crowds" \in Problems
    BY DEF Problems
  <2> QED
    BY <1>2, <1>3, <1>4, <2>1 DEF CountCrowds
<1>5. CASE CountDeleted
  <2>1. (\E c \in Sample : sample[c].deleted) <=> "deleted" \in Problems
    BY DEF Problems
  <2> QED
    BY <1>2, <1>3, <1>5, <2>1 DEF CountDeleted
<1>6. CASE CountSlots
  <2>1. ~survey.slots <=> "slots" \in Problems
    BY DEF Problems
  <2> QED
    BY <1>2, <1>3, <1>6, <2>1 DEF CountSlots
<1> QED
  BY <1>4, <1>5, <1>6

LEMMA CountFailsKeeps ==
  ASSUME CheckIInv, NEW q \in {"crowds", "deleted", "slots"}, CountFails(q)
  PROVE  CheckIInv'
<1>1. CheckTypes
  BY DEF CheckIInv
<1>2. UNCHANGED <<survey, sample>> /\ check.at = q
      /\ check' = [check EXCEPT !.at = Following[q], !.failed = @ \cup {q}, !.problems = @ \cup ({q} \ {"deleted"})]
  BY DEF CountFails
<1> DEFINE named == {q} \ {"deleted"}
           failed == check.failed \cup {q}
<1>3. check' = [at |-> Following[q], problems |-> check.problems \cup named, moved |-> check.moved, failed |-> failed]
  BY <1>1, <1>2 DEF CheckTypes
<1>4. /\ named \in SUBSET {q} /\ (q \in named <=> q # "deleted") /\ q \in failed
      /\ check.moved \ {q} \subseteq check.moved /\ check.failed \subseteq failed
  OBVIOUS
<1> HIDE DEF named, failed
<1> QED
  BY <1>2, <1>3, <1>4, CountKeeps

LEMMA ProblemsMoveKeeps ==
  ASSUME CheckIInv, ProblemsMove, sample' \in [Sample -> SampleRow]
  PROVE  CheckIInv'
<1>1. CheckTypes
  BY DEF CheckIInv
<1>2. CASE check.at = "idle"
  BY <1>1, <1>2, AskedAre DEF CheckIInv, CheckTypes, ProblemsMove
<1>3. CASE check.at # "idle"
  <2>1. /\ check'.at = check.at /\ check'.problems = check.problems /\ check'.failed = check.failed
        /\ check'.moved = check.moved \cup {q \in Problems \cup Problems' : ~(q \in Problems /\ q \in Problems')}
        /\ CheckTypes'
    BY <1>1, <1>3 DEF CheckTypes, ProblemsMove
  <2>2. ASSUME NEW q \in Asked(check.at) PROVE Judged(q)'
    <3>1. Judged(q)
      BY DEF CheckIInv
    <3>2. (q \in Problems <=> q \in Problems') \/ q \in check'.moved
      BY <2>1
    <3> QED
      BY <2>1, <3>1, <3>2 DEF Judged
  <2> QED
    BY <2>1, <2>2 DEF CheckIInv
<1> QED
  BY <1>2, <1>3

LEMMA FieldIsNoProblem ==
  ASSUME CheckIInv, NEW c \in Sample, NEW shc \in Shc, NEW level \in Level \cup {NoLevel}, Field(c, shc, level)
  PROVE  CheckIInv'
<1>1. sample \in [Sample -> SampleRow] /\ sample' = [sample EXCEPT ![c].shc = shc, ![c].level = level]
      /\ UNCHANGED <<survey, check>>
  BY DEF CheckIInv, CheckTypes, Field
<1>2. sample' \in [Sample -> SampleRow] /\ \A d \in Sample : sample'[d].excluded = sample[d].excluded /\ sample'[d].deleted = sample[d].deleted
  BY <1>1 DEF SampleRow
<1>3. Problems' = Problems
  BY <1>1, <1>2 DEF Problems
<1> QED
  BY <1>1, <1>2, <1>3 DEF CheckIInv, CheckTypes, Judged

LEMMA CheckSteps == CheckIInv /\ [SurveyNext]_surveyVars => CheckIInv'
<1> SUFFICES ASSUME CheckIInv, [SurveyNext]_surveyVars PROVE CheckIInv'
  OBVIOUS
<1>1. CASE UNCHANGED <<survey, sample, check>>
  BY <1>1, CheckStays
<1>2. CASE BeginCheck \/ CountCrowds \/ CountDeleted \/ CountSlots
  BY <1>2, BeginCheckKeeps, CountsKeep
<1>3. CASE \E q \in {"crowds", "deleted", "slots"} : CountFails(q)
  BY <1>3, CountFailsKeeps
<1>4. CASE \E row \in SurveyRow : EditSurvey(row)
  <2>1. UNCHANGED sample /\ ProblemsMove
    BY <1>4 DEF EditSurvey
  <2> QED
    BY <2>1, ProblemsMoveKeeps DEF CheckIInv, CheckTypes
<1>5. CASE \E c \in Sample, out, gone \in BOOLEAN : EditCrowd(c, out, gone)
  <2>1. PICK c \in Sample, out \in BOOLEAN, gone \in BOOLEAN : EditCrowd(c, out, gone)
    BY <1>5
  <2>2. sample' = [sample EXCEPT ![c].excluded = out, ![c].deleted = gone] /\ ProblemsMove
    BY <2>1 DEF EditCrowd
  <2>3. sample' \in [Sample -> SampleRow]
    BY <2>2 DEF CheckIInv, CheckTypes, SampleRow
  <2> QED
    BY <2>2, <2>3, ProblemsMoveKeeps
<1>6. CASE \E c \in Sample, shc \in Shc, level \in Level \cup {NoLevel} : Field(c, shc, level)
  BY <1>6, FieldIsNoProblem
<1>7. CASE \E c \in Sample, p \in Panelist, to \in Stage : PanelistMoves(c, p, to)
  BY <1>1, <1>7 DEF PanelistMoves
<1>8. CASE (\E f \in Form : ListCrowds(f)) \/ \E c \in Sample : ReadNext(c)
  BY <1>1, <1>8 DEF ListCrowds, ReadNext
<1>9. CASE \E t \in Favoring : \/ \E u \in Reader : ListSurveys(t, u) \/ \E w \in BOOLEAN : BeginToggle(t, u, w)
                               \/ CheckLeave(t) \/ WriteFavorite(t) \/ WriteFails(t) \/ Reread(t) \/ ShowFavorite(t) \/ ShowLeave(t)
  BY <1>1, <1>9 DEF ListSurveys, BeginToggle, CheckLeave, WriteFavorite, WriteFails, Reread, ShowFavorite, ShowLeave
<1>10. CASE ReplicaFollows \/ \E u \in Reader : Revoke(u)
  BY <1>1, <1>10 DEF ReplicaFollows, Revoke
<1>11. CASE UNCHANGED surveyVars
  BY <1>1, <1>11 DEF surveyVars
<1> QED
  BY <1>2, <1>3, <1>4, <1>5, <1>6, <1>7, <1>8, <1>9, <1>10, <1>11 DEF SurveyNext

LEMMA ChecksAreTrue == CheckIInv => CheckIsTrue
<1> SUFFICES ASSUME CheckIInv, check.at = "answered"
             PROVE  /\ Problems \ check.problems \subseteq check.moved \cup (check.failed \cap {"deleted"})
                    /\ check.problems \ Problems \subseteq check.moved \cup (check.failed \ {"deleted"})
  BY DEF CheckIsTrue
<1>1. Asked("answered") = {"name", "template", "crowds", "deleted", "slots"}
  BY DEF Asked
<1>2. Problems \subseteq Asked("answered")
  BY <1>1 DEF Problems
<1> QED
  BY <1>2 DEF CheckIInv, Judged

-----------------------------------------------------------------------------
(* Favourites *)

Parts == {"at", "user", "wants", "shown", "may", "unknown", "excuses"}
Written == {"reread", "show", "permissions", "answered"}

FavorTypes ==
  /\ DOMAIN favoring = Favoring /\ DOMAIN surveyPast = {"edits", "revoked"}
  /\ \A t \in Favoring :
       /\ DOMAIN favoring[t] = Parts
       /\ favoring[t].shown \in BOOLEAN
       /\ favoring[t].wants \in {{}, {TRUE}, {FALSE}}
       /\ favoring[t].at = "idle" => favoring[t].wants = {}

\* Who is to write, or has written, had the leave to.
Granted(t) ==
  favoring[t].at \in Written \cup {"write"} /\ favoring[t].wants # {} =>
    favoring[t].user \in Admin \cup leave \cup surveyPast.revoked

\* What was written stands until another request is by.
AsWanted(t) ==
  favoring[t].at \in Written /\ "overtaken" \notin favoring[t].excuses =>
    /\ TRUE \in favoring[t].wants => favoring[t].user \in favorite
    /\ FALSE \in favoring[t].wants => favoring[t].user \notin favorite

AsShown(t) ==
  favoring[t].at \in {"permissions", "answered"} /\ favoring[t].excuses = {} =>
    (favoring[t].shown <=> favoring[t].user \in favorite)

LeaveTold(t) ==
  favoring[t].at = "answered" /\ favoring[t].wants # {} /\ ~favoring[t].may =>
    favoring[t].user \in Admin \cup surveyPast.revoked \/ favoring[t].unknown

FavorHolds(t) == Granted(t) /\ AsWanted(t) /\ AsShown(t) /\ LeaveTold(t)

FavorIInv == FavorTypes /\ FavoriteHasLeave /\ \A t \in Favoring : FavorHolds(t)

LEMMA FavorInitially == SurveyInit => FavorIInv
<1> SUFFICES ASSUME SurveyInit PROVE FavorIInv
  OBVIOUS
<1>1. FavorTypes
  BY DEF SurveyInit, FavorTypes, Parts
<1>2. \A t \in Favoring : favoring[t].at = "idle"
  BY DEF SurveyInit
<1>3. FavoriteHasLeave
  BY DEF SurveyInit, FavoriteHasLeave
<1> QED
  BY <1>1, <1>2, <1>3 DEF FavorIInv, FavorHolds, Granted, AsWanted, AsShown, LeaveTold, Written

LEMMA FavorStays ==
  ASSUME FavorIInv, UNCHANGED <<favorite, leave, favoring>>, surveyPast'.revoked = surveyPast.revoked, DOMAIN surveyPast' = DOMAIN surveyPast
  PROVE  FavorIInv'
BY DEF FavorIInv, FavorTypes, FavoriteHasLeave, FavorHolds, Granted, AsWanted, AsShown, LeaveTold

LEMMA RevokeKeeps ==
  ASSUME FavorIInv, NEW u \in Reader, Revoke(u)
  PROVE  FavorIInv'
<1>1. /\ UNCHANGED <<favorite, favoring>> /\ leave' = leave \ {u} /\ surveyPast'.revoked = surveyPast.revoked \cup {u}
      /\ DOMAIN surveyPast' = {"edits", "revoked"}
  BY DEF Revoke
<1>2. FavorTypes' /\ FavoriteHasLeave'
  BY <1>1 DEF FavorIInv, FavorTypes, FavoriteHasLeave
<1>3. ASSUME NEW t \in Favoring PROVE FavorHolds(t)'
  BY <1>1 DEF FavorIInv, FavorHolds, Granted, AsWanted, AsShown, LeaveTold
<1> QED
  BY <1>2, <1>3 DEF FavorIInv

\* One request goes on and nothing is written.
OnlyOne(t) ==
  /\ UNCHANGED <<favorite, leave, surveyPast>>
  /\ DOMAIN favoring' = Favoring /\ DOMAIN favoring'[t] = Parts
  /\ \A s \in Favoring \ {t} : favoring'[s] = favoring[s]

LEMMA OneFavorKeeps ==
  ASSUME FavorIInv, NEW t \in Favoring, OnlyOne(t), FavorHolds(t)', favoring'[t].shown \in BOOLEAN,
         favoring'[t].wants \in {{}, {TRUE}, {FALSE}}, favoring'[t].at = "idle" => favoring'[t].wants = {}
  PROVE  FavorIInv'
<1>1. FavorTypes' /\ FavoriteHasLeave'
  BY DEF FavorIInv, FavorTypes, FavoriteHasLeave, OnlyOne
<1>2. ASSUME NEW s \in Favoring \ {t} PROVE FavorHolds(s)'
  <2>1. favoring'[s] = favoring[s] /\ UNCHANGED <<favorite, leave, surveyPast>> /\ FavorHolds(s)
    BY DEF OnlyOne, FavorIInv
  <2> QED
    BY <2>1 DEF FavorHolds, Granted, AsWanted, AsShown, LeaveTold
<1> QED
  BY <1>1, <1>2 DEF FavorIInv

LEMMA GoesKeeps ==
  ASSUME FavorIInv, NEW t \in Favoring, NEW at, favoring' = FavoringGoes(t, at), UNCHANGED <<favorite, leave, surveyPast>>,
         \/ at \in {"refused", "panicked"}
         \/ at = "write" /\ favoring[t].user \in Admin \cup leave
         \/ at = "show" /\ favoring[t].at = "reread"
  PROVE  FavorIInv'
<1>1. FavorTypes /\ FavorHolds(t)
  BY DEF FavorIInv
<1>2. OnlyOne(t) /\ favoring'[t] = [favoring[t] EXCEPT !.at = at]
  BY <1>1 DEF OnlyOne, FavoringGoes, FavorTypes
<1>3. /\ favoring'[t].at = at /\ favoring'[t].user = favoring[t].user /\ favoring'[t].wants = favoring[t].wants
      /\ favoring'[t].shown = favoring[t].shown /\ favoring'[t].excuses = favoring[t].excuses
  BY <1>1, <1>2 DEF FavorTypes, Parts
<1>4. FavorHolds(t)'
  BY <1>1, <1>3 DEF FavorHolds, Granted, AsWanted, AsShown, LeaveTold, Written
<1> QED
  BY <1>1, <1>2, <1>3, <1>4, OneFavorKeeps DEF FavorTypes

LEMMA BeginFavoringKeeps ==
  ASSUME FavorIInv, NEW t \in Favoring, NEW u \in Reader,
         ListSurveys(t, u) \/ \E w \in BOOLEAN : BeginToggle(t, u, w)
  PROVE  FavorIInv'
<1>1. FavorTypes /\ favoring[t].at = "idle" /\ UNCHANGED <<favorite, leave, surveyPast>>
  BY DEF FavorIInv, ListSurveys, BeginToggle
<1>2. CASE favoring' = FavoringGoes(t, "refused")
  BY <1>1, <1>2, GoesKeeps
<1>3. CASE favoring' = [favoring EXCEPT ![t] = [@ EXCEPT !.at = "show", !.user = u]]
  <2>1. OnlyOne(t) /\ favoring'[t].at = "show" /\ favoring'[t].wants = {} /\ favoring'[t].shown \in BOOLEAN
    BY <1>1, <1>3 DEF OnlyOne, FavorTypes, Parts
  <2>2. FavorHolds(t)'
    BY <2>1 DEF FavorHolds, Granted, AsWanted, AsShown, LeaveTold
  <2> QED
    BY <2>1, <2>2, OneFavorKeeps
<1>4. ASSUME NEW w \in BOOLEAN, favoring' = [favoring EXCEPT ![t] = [@ EXCEPT !.at = "leave", !.user = u, !.wants = {w}]]
      PROVE  FavorIInv'
  <2>1. OnlyOne(t) /\ favoring'[t].at = "leave" /\ favoring'[t].wants = {w} /\ favoring'[t].shown \in BOOLEAN
    BY <1>1, <1>4 DEF OnlyOne, FavorTypes, Parts
  <2>2. FavorHolds(t)'
    BY <2>1 DEF FavorHolds, Granted, AsWanted, AsShown, LeaveTold, Written
  <2>3. {w} \in {{}, {TRUE}, {FALSE}}
    OBVIOUS
  <2> QED
    BY <2>1, <2>2, <2>3, OneFavorKeeps
<1> QED
  BY <1>2, <1>3, <1>4 DEF ListSurveys, BeginToggle

LEMMA CheckLeaveKeeps ==
  ASSUME FavorIInv, NEW t \in Favoring, CheckLeave(t) \/ WriteFails(t) \/ Reread(t)
  PROVE  FavorIInv'
<1>1. UNCHANGED <<favorite, leave, surveyPast>>
  BY DEF CheckLeave, WriteFails, Reread
<1>2. CASE CheckLeave(t)
  BY <1>1, <1>2, GoesKeeps DEF CheckLeave
<1>3. CASE WriteFails(t)
  BY <1>1, <1>3, GoesKeeps DEF WriteFails
<1>4. CASE Reread(t)
  <2>1. favoring' = FavoringGoes(t, "show") \/ favoring' = FavoringGoes(t, "panicked")
    BY <1>4 DEF Reread
  <2> QED
    BY <1>1, <1>4, <2>1, GoesKeeps DEF Reread
<1> QED
  BY <1>2, <1>3, <1>4

LEMMA WriteFavoriteKeeps ==
  ASSUME FavorIInv, NEW t \in Favoring, WriteFavorite(t)
  PROVE  FavorIInv'
<1> DEFINE u == favoring[t].user
<1>1. /\ favoring[t].at = "write" /\ UNCHANGED <<leave, surveyPast>>
      /\ favorite' = IF TRUE \in favoring[t].wants THEN favorite \cup {u} ELSE favorite \ {u}
      /\ favoring' = [s \in Favoring |->
           IF s = t THEN [favoring[s] EXCEPT !.at = "reread"]
           ELSE IF favoring[s].user = u /\ favoring[s].at \in {"reread", "show", "permissions", "answered"}
           THEN [favoring[s] EXCEPT !.excuses = @ \cup {"overtaken"}]
           ELSE favoring[s]]
  BY DEF WriteFavorite
<1>2. FavorTypes /\ \A s \in Favoring : FavorHolds(s)
  BY DEF FavorIInv
<1>3. /\ favoring'[t].at = "reread" /\ DOMAIN favoring'[t] = Parts
      /\ \A s \in Favoring : /\ favoring'[s].user = favoring[s].user /\ favoring'[s].wants = favoring[s].wants
                             /\ favoring'[s].shown = favoring[s].shown /\ favoring'[s].may = favoring[s].may
                             /\ favoring'[s].unknown = favoring[s].unknown /\ DOMAIN favoring'[s] = Parts
      /\ \A s \in Favoring \ {t} :
           /\ favoring'[s].at = favoring[s].at
           /\ IF favoring[s].user = u /\ favoring[s].at \in Written
              THEN "overtaken" \in favoring'[s].excuses ELSE favoring'[s].excuses = favoring[s].excuses
  BY <1>1, <1>2 DEF FavorTypes, Parts, Written
<1>4. FavorTypes'
  BY <1>1, <1>2, <1>3 DEF FavorTypes
<1>5. FavoriteHasLeave'
  <2>1. TRUE \in favoring[t].wants => u \in Admin \cup leave \cup surveyPast.revoked
    BY <1>1, <1>2 DEF FavorHolds, Granted
  <2> QED
    BY <1>1, <2>1 DEF FavoriteHasLeave, FavorIInv
<1>6. FavorHolds(t)'
  <2>1. favoring[t].wants \in {{}, {TRUE}, {FALSE}} /\ Granted(t)
    BY <1>2 DEF FavorTypes, FavorHolds
  <2>2. Granted(t)'
    BY <1>1, <1>3, <2>1 DEF Granted
  <2>3. AsWanted(t)'
    <3>1. FALSE \in favoring[t].wants => ~(TRUE \in favoring[t].wants)
      <4>1. FALSE \in favoring[t].wants => favoring[t].wants = {FALSE}
        BY <2>1
      <4>2. ~(TRUE \in {FALSE})
        OBVIOUS
      <4> QED
        BY <4>1, <4>2
    <3>2. favoring'[t].wants = favoring[t].wants /\ favoring'[t].user = u
      BY <1>3
    <3>3. /\ TRUE \in favoring[t].wants => u \in favorite'
          /\ ~(TRUE \in favoring[t].wants) => u \notin favorite'
      BY <1>1
    <3> QED
      BY <3>1, <3>2, <3>3 DEF AsWanted
  <2> QED
    BY <1>3, <2>2, <2>3 DEF FavorHolds, AsShown, LeaveTold
<1>7. ASSUME NEW s \in Favoring \ {t} PROVE FavorHolds(s)'
  <2>1. FavorHolds(s)
    BY <1>2
  <2>2. Granted(s)' /\ LeaveTold(s)'
    BY <1>1, <1>3, <2>1 DEF FavorHolds, Granted, LeaveTold
  <2>3. CASE favoring[s].user = u
    <3>1. favoring'[s].at \in Written => "overtaken" \in favoring'[s].excuses
      BY <1>3, <2>3
    <3> QED
      BY <2>2, <3>1 DEF FavorHolds, AsWanted, AsShown, Written
  <2>4. CASE favoring[s].user # u
    <3>1. favoring[s].user \in favorite' <=> favoring[s].user \in favorite
      BY <1>1, <2>4
    <3>2. favoring'[s].excuses = favoring[s].excuses
      BY <1>3, <2>4
    <3> QED
      BY <1>3, <2>1, <2>2, <3>1, <3>2 DEF FavorHolds, AsWanted, AsShown
  <2> QED
    BY <2>3, <2>4
<1> QED
  BY <1>4, <1>5, <1>6, <1>7 DEF FavorIInv

LEMMA ShowFavoriteKeeps ==
  ASSUME FavorIInv, NEW t \in Favoring, ShowFavorite(t)
  PROVE  FavorIInv'
<1>1. FavorTypes /\ FavorHolds(t) /\ favoring[t].at = "show" /\ UNCHANGED <<favorite, leave, surveyPast>>
  BY DEF FavorIInv, ShowFavorite
<1>2. PICK value \in BOOLEAN, excuses \in {{}, {"lag"}, {"failed"}} :
        /\ favoring' = [favoring EXCEPT ![t].at = IF favoring[t].wants = {} THEN "answered" ELSE "permissions",
                                        ![t].shown = value, ![t].excuses = @ \cup excuses]
        /\ excuses = {} => (value <=> favoring[t].user \in favorite)
  <2>1. IsFavoriteOf(favoring[t].user) \in BOOLEAN
    BY DEF IsFavoriteOf
  <2>2. CASE favoring' = [favoring EXCEPT ![t].at = IF favoring[t].wants = {} THEN "answered" ELSE "permissions",
                                          ![t].shown = FALSE, ![t].excuses = @ \cup {"failed"}]
    <3>1. {"failed"} # {} /\ FALSE \in BOOLEAN
      OBVIOUS
    <3> QED
      BY <2>2, <3>1
  <2> DEFINE value == IsFavoriteOf(favoring[t].user)
             excuses == IF IsFavoriteOf(favoring[t].user) = (favoring[t].user \in favorite) THEN {} ELSE {"lag"}
  <2>3. CASE favoring' = [favoring EXCEPT ![t].at = IF favoring[t].wants = {} THEN "answered" ELSE "permissions",
                                          ![t].shown = value, ![t].excuses = @ \cup excuses]
    <3>1. excuses \in {{}, {"lag"}, {"failed"}} /\ (excuses = {} => (value <=> favoring[t].user \in favorite))
      BY DEF IsFavoriteOf
    <3> HIDE DEF value, excuses
    <3> QED
      BY <2>1, <2>3, <3>1 DEF value
  <2> QED
    BY <2>2, <2>3 DEF ShowFavorite
<1>3. /\ OnlyOne(t) /\ favoring'[t].wants = favoring[t].wants /\ favoring'[t].user = favoring[t].user
      /\ favoring'[t].at = IF favoring[t].wants = {} THEN "answered" ELSE "permissions"
      /\ favoring'[t].shown = value /\ favoring'[t].excuses = favoring[t].excuses \cup excuses
  BY <1>1, <1>2 DEF OnlyOne, FavorTypes, Parts
<1>4. Granted(t)' /\ AsWanted(t)'
  BY <1>1, <1>3 DEF FavorHolds, Granted, AsWanted, Written
<1>5. AsShown(t)'
  <2>1. favoring'[t].excuses = {} => excuses = {}
    BY <1>3
  <2>2. favoring'[t].excuses = {} => (favoring'[t].shown <=> favoring[t].user \in favorite)
    BY <1>2, <1>3, <2>1
  <2> QED
    BY <1>1, <1>3, <2>2 DEF AsShown
<1>6. LeaveTold(t)'
  BY <1>3 DEF LeaveTold
<1>7. favoring'[t].shown \in BOOLEAN /\ favoring'[t].wants \in {{}, {TRUE}, {FALSE}} /\ favoring'[t].at # "idle"
  <2>1. favoring[t].wants \in {{}, {TRUE}, {FALSE}}
    BY <1>1 DEF FavorTypes
  <2>2. favoring'[t].shown \in BOOLEAN
    BY <1>2, <1>3
  <2>3. favoring'[t].at \in {"answered", "permissions"}
    BY <1>3
  <2> QED
    BY <1>3, <2>1, <2>2, <2>3
<1> QED
  BY <1>3, <1>4, <1>5, <1>6, <1>7, OneFavorKeeps DEF FavorHolds

LEMMA ShowLeaveKeeps ==
  ASSUME FavorIInv, NEW t \in Favoring, ShowLeave(t)
  PROVE  FavorIInv'
<1>1. FavorTypes /\ FavorHolds(t) /\ favoring[t].at = "permissions" /\ UNCHANGED <<favorite, leave, surveyPast>>
  BY DEF FavorIInv, ShowLeave
<1>2. \/ favoring' = [favoring EXCEPT ![t] = [@ EXCEPT !.at = "answered", !.may = favoring[t].user \in leave]]
      \/ favoring' = [favoring EXCEPT ![t] = [@ EXCEPT !.at = "answered", !.unknown = TRUE]]
  BY DEF ShowLeave
<1>3. /\ OnlyOne(t) /\ favoring'[t].wants = favoring[t].wants /\ favoring'[t].user = favoring[t].user
      /\ favoring'[t].at = "answered" /\ favoring'[t].shown = favoring[t].shown /\ favoring'[t].excuses = favoring[t].excuses
      /\ favoring'[t].unknown \/ (favoring'[t].may <=> favoring[t].user \in leave)
  BY <1>1, <1>2 DEF OnlyOne, FavorTypes, Parts
<1>4. Granted(t)' /\ AsWanted(t)' /\ AsShown(t)'
  BY <1>1, <1>3 DEF FavorHolds, Granted, AsWanted, AsShown, Written
<1>5. LeaveTold(t)'
  BY <1>1, <1>3 DEF FavorHolds, Granted, LeaveTold, Written
<1> QED
  BY <1>1, <1>3, <1>4, <1>5, OneFavorKeeps DEF FavorTypes, FavorHolds

LEMMA FavorSteps == FavorIInv /\ [SurveyNext]_surveyVars => FavorIInv'
<1> SUFFICES ASSUME FavorIInv, [SurveyNext]_surveyVars PROVE FavorIInv'
  OBVIOUS
<1>1. CASE UNCHANGED <<favorite, leave, favoring>> /\ surveyPast'.revoked = surveyPast.revoked /\ DOMAIN surveyPast' = DOMAIN surveyPast
  BY <1>1, FavorStays
<1>2. CASE Edits /\ UNCHANGED <<favorite, leave, favoring>>
  <2>1. surveyPast'.revoked = surveyPast.revoked /\ DOMAIN surveyPast' = DOMAIN surveyPast
    BY <1>2 DEF Edits, FavorIInv, FavorTypes
  <2> QED
    BY <1>1, <1>2, <2>1
<1>3. CASE \/ \E row \in SurveyRow : EditSurvey(row)
           \/ \E c \in Sample : \/ \E x, d \in BOOLEAN : EditCrowd(c, x, d)
                                \/ \E s \in Shc, l \in Level \cup {NoLevel} : Field(c, s, l)
                                \/ \E p \in Panelist, to \in Stage : PanelistMoves(c, p, to)
  BY <1>2, <1>3 DEF EditSurvey, EditCrowd, Field, PanelistMoves
<1>4. CASE \/ \E f \in Form : ListCrowds(f)
           \/ \E c \in Sample : ReadNext(c)
           \/ BeginCheck \/ CountCrowds \/ CountDeleted \/ CountSlots
           \/ \E q \in {"crowds", "deleted", "slots"} : CountFails(q)
           \/ ReplicaFollows
  BY <1>1, <1>4 DEF ListCrowds, ReadNext, BeginCheck, CountCrowds, CountDeleted, CountSlots, CountFails, ReplicaFollows
<1>5. CASE \E t \in Favoring, u \in Reader : ListSurveys(t, u) \/ \E w \in BOOLEAN : BeginToggle(t, u, w)
  BY <1>5, BeginFavoringKeeps
<1>6. CASE \E t \in Favoring : CheckLeave(t) \/ WriteFails(t) \/ Reread(t)
  BY <1>6, CheckLeaveKeeps
<1>7. CASE \E t \in Favoring : WriteFavorite(t)
  BY <1>7, WriteFavoriteKeeps
<1>8. CASE \E t \in Favoring : ShowFavorite(t) \/ ShowLeave(t)
  BY <1>8, ShowFavoriteKeeps, ShowLeaveKeeps
<1>9. CASE \E u \in Reader : Revoke(u)
  BY <1>9, RevokeKeeps
<1>10. CASE UNCHANGED surveyVars
  BY <1>1, <1>10 DEF surveyVars
<1> QED
  BY <1>3, <1>4, <1>5, <1>6, <1>7, <1>8, <1>9, <1>10 DEF SurveyNext

LEMMA FavoritesShown == FavorIInv => FavoriteIsShown /\ FavoriteHasLeave /\ LeaveIsShown
<1> SUFFICES ASSUME FavorIInv PROVE FavoriteIsShown /\ FavoriteHasLeave /\ LeaveIsShown
  OBVIOUS
<1>1. FavoriteHasLeave /\ FavorTypes /\ \A t \in Favoring : FavorHolds(t)
  BY DEF FavorIInv
<1>2. ASSUME NEW t \in Favoring, favoring[t].at \in {"permissions", "answered"}, favoring[t].excuses = {}
      PROVE  favoring[t].shown = (favoring[t].user \in favorite) /\ favoring[t].wants \subseteq {favoring[t].shown}
  <2>1. /\ favoring[t].shown \in BOOLEAN /\ favoring[t].wants \in {{}, {TRUE}, {FALSE}}
        /\ favoring[t].shown <=> favoring[t].user \in favorite
        /\ TRUE \in favoring[t].wants => favoring[t].user \in favorite
        /\ FALSE \in favoring[t].wants => favoring[t].user \notin favorite
    BY <1>1, <1>2 DEF FavorTypes, FavorHolds, AsWanted, AsShown, Written
  <2>2. favoring[t].shown = (favoring[t].user \in favorite)
    BY <2>1
  <2>3. CASE favoring[t].user \in favorite
    <3>1. favoring[t].shown = TRUE /\ ~(FALSE \in favoring[t].wants)
      BY <2>1, <2>3
    <3>2. favoring[t].wants \in {{}, {TRUE}}
      BY <2>1, <3>1
    <3> QED
      BY <2>2, <3>1, <3>2
  <2>4. CASE favoring[t].user \notin favorite
    <3>1. favoring[t].shown = FALSE /\ ~(TRUE \in favoring[t].wants)
      BY <2>1, <2>4
    <3>2. favoring[t].wants \in {{}, {FALSE}}
      BY <2>1, <3>1
    <3> QED
      BY <2>2, <3>1, <3>2
  <2> QED
    BY <2>3, <2>4
<1>3. LeaveIsShown
  BY <1>1 DEF LeaveIsShown, FavorHolds, LeaveTold
<1> QED
  BY <1>1, <1>2, <1>3 DEF FavoriteIsShown

\* Whatever is edited, fielded or fails between two statements of an answer, and however
\* favourites are set at the same time: the crowds of a survey, its check and its
\* favourites are as they are, or for one of the causes named are not.
THEOREM SurveySound == SurveySpec => []SurveyPagesAgree
<1> DEFINE IInv == SheetIInv /\ CheckIInv /\ FavorIInv
<1>1. SurveyInit => IInv
  BY SheetInitially, CheckInitially, FavorInitially
<1>2. IInv /\ [SurveyNext]_surveyVars => IInv'
  BY SheetSteps, CheckSteps, FavorSteps
<1>3. IInv => SurveyPagesAgree
  BY SheetsAgree, ChecksAreTrue, FavoritesShown DEF SurveyPagesAgree
<1> QED
  BY <1>1, <1>2, <1>3, PTL DEF SurveySpec
=============================================================================
