--------------------------- MODULE ScheduledProofs ---------------------------
(***************************************************************************)
(* Proofs about what clocks and other systems drive, for any values of the *)
(* constants.                                                              *)
(*                                                                         *)
(* Soft launch: as long as no two calculations have met, the shares that   *)
(* one has written are those of the quotas it read, and the rest are as    *)
(* they were.                                                              *)
(*                                                                         *)
(* Watch of the calendar: the one registered last outlives the days to its *)
(* renewal, and no run that is under way is about to withdraw it.          *)
(*                                                                         *)
(* Reminders: in a minute of the window every process that is not waiting  *)
(* has written or lost its text, and no process has at any other time.     *)
(*                                                                         *)
(* Recordings: as long as nothing odd has happened one callback at a time  *)
(* is handled, and only the meeting it is of may have the tables at odds.  *)
(*                                                                         *)
(* The job that credits participants: whatever fails and however runs      *)
(* overlap, a slot that is marked paid names a granted credit, and a slot  *)
(* is credited twice only for one of the causes that the model keeps in    *)
(* its history.                                                            *)
(*                                                                         *)
(* The pool of connections that jobs and requests share: each connection   *)
(* in use is for one query that its request has open; so the connections   *)
(* of a stuck pool are as many pairs of a request that waits and a level   *)
(* above its innermost query.                                              *)
(***************************************************************************)
EXTENDS Meetings, SoftLaunch, CalendarWatch, Reminders, CreditGrantJob, ConnectionPool,
        FiniteSetTheorems, TLAPS

-----------------------------------------------------------------------------
(* The soft launch of a survey: SoftLaunch.                               *)

\* The shares that a calculation has written are those of the quotas it read.
LaunchTypes ==
  /\ survey = [quota |-> survey.quota, share |-> survey.share, needed |-> survey.needed]
  /\ survey.share = [w \in Crowd |-> survey.share[w]]
  /\ DOMAIN survey.quota = Crowd /\ DOMAIN lagging.quota = Crowd
  /\ DOMAIN check = Check
  /\ \A c \in Check : check[c].at = "write" =>
       /\ check[c] = [at |-> "write", quota |-> check[c].quota, left |-> check[c].left]
       /\ DOMAIN check[c].quota = Crowd
       /\ check[c].left \subseteq Crowd

Alone ==
  /\ \A c, d \in Calculating : c = d
  /\ Calculating # {} => survey.needed = 0
  /\ \A c \in Check : check[c].at = "write" =>
       \A w \in Crowd \ check[c].left : survey.share[w] = Share(check[c].quota[w])
  /\ survey.needed = 0 \/ survey.needed = SumFunction(survey.share)

LaunchIInv == LaunchTypes /\ (entangled \/ Alone)

LEMMA LaunchInitially == LaunchInit => LaunchIInv
BY DEF LaunchInit, LaunchIInv, LaunchTypes, Alone, Calculating

\* A validation moves to where it calculates no longer, or not yet.
LEMMA CheckMovesOne ==
  ASSUME DOMAIN check = Check, NEW c \in Check, NEW to, CheckMoves(c, to)
  PROVE  DOMAIN check' = Check /\ check'[c] = to /\ \A d \in Check \ {c} : check'[d] = check[d]
BY DEF CheckMoves

\* One that ends leaves everything else as it is.
LEMMA EndingKeeps ==
  ASSUME LaunchIInv, NEW c \in Check, CheckMoves(c, [at |-> "over"]), UNCHANGED <<survey, lagging, entangled>>
  PROVE  LaunchIInv'
<1>1. DOMAIN check' = Check /\ check'[c].at = "over" /\ \A d \in Check \ {c} : check'[d] = check[d]
  BY CheckMovesOne DEF LaunchIInv, LaunchTypes
<1> QED
  BY <1>1 DEF LaunchIInv, LaunchTypes, Alone, Calculating

LEMMA ReadSurveyKeeps ==
  ASSUME LaunchIInv, NEW c \in Check, ReadSurvey(c)
  PROVE  LaunchIInv'
<1>1. CASE lagging.needed # 0
  BY <1>1, EndingKeeps DEF ReadSurvey
<1>2. CASE lagging.needed = 0
  <2>1. DOMAIN check' = Check /\ check'[c].at = "read" /\ \A d \in Check \ {c} : check'[d] = check[d]
    BY <1>2, CheckMovesOne DEF ReadSurvey, LaunchIInv, LaunchTypes
  <2>2. UNCHANGED <<survey, lagging>> /\ (~entangled' => ~entangled /\ Calculating = {} /\ survey.needed = 0)
    BY <1>2 DEF ReadSurvey
  <2> QED
    BY <2>1, <2>2 DEF LaunchIInv, LaunchTypes, Alone, Calculating
<1> QED
  BY <1>1, <1>2

LEMMA ReadCrowdsKeeps ==
  ASSUME LaunchIInv, NEW c \in Check, ReadCrowds(c)
  PROVE  LaunchIInv'
<1> DEFINE to == [at |-> "write", quota |-> lagging.quota, left |-> Crowd]
<1>1. DOMAIN check' = Check /\ check'[c] = to /\ \A d \in Check \ {c} : check'[d] = check[d]
  BY CheckMovesOne DEF ReadCrowds, LaunchIInv, LaunchTypes
<1>2. UNCHANGED <<survey, lagging, entangled>> /\ check[c].at = "read"
  BY DEF ReadCrowds
<1>3. Calculating' = Calculating
  BY <1>1, <1>2 DEF Calculating
<1> QED
  BY <1>1, <1>2, <1>3 DEF LaunchIInv, LaunchTypes, Alone

\* Another crowd has the share of the quota that was read.
LEMMA WriteShareKeeps ==
  ASSUME LaunchIInv, NEW c \in Check, NEW w \in Crowd, WriteShare(c, w)
  PROVE  LaunchIInv'
<1> DEFINE k == check[c]
           to == [at |-> "write", quota |-> k.quota, left |-> k.left \ {w}]
<1>1. k.at = "write" /\ [k EXCEPT !.left = @ \ {w}] = to
  BY DEF WriteShare, LaunchIInv, LaunchTypes
<1>2. DOMAIN check' = Check /\ check'[c] = to /\ \A d \in Check \ {c} : check'[d] = check[d]
  BY <1>1, CheckMovesOne DEF WriteShare, LaunchIInv, LaunchTypes
<1>3. UNCHANGED <<lagging, entangled>> /\ Calculating' = Calculating
  BY <1>1, <1>2 DEF WriteShare, Calculating
<1>4. survey' = [quota |-> survey.quota, share |-> [survey.share EXCEPT ![w] = Share(k.quota[w])], needed |-> survey.needed]
  BY DEF WriteShare, LaunchIInv, LaunchTypes
<1>5. LaunchTypes'
  <2>1. survey'.share = [v \in Crowd |-> survey'.share[v]] /\ DOMAIN survey'.quota = Crowd
        /\ survey' = [quota |-> survey'.quota, share |-> survey'.share, needed |-> survey'.needed]
    BY <1>4 DEF LaunchIInv, LaunchTypes
  <2>2. check'[c] = [at |-> "write", quota |-> check'[c].quota, left |-> check'[c].left]
        /\ check'[c].left \subseteq Crowd /\ DOMAIN check'[c].quota = Crowd
    BY <1>1, <1>2 DEF LaunchIInv, LaunchTypes
  <2>3. \A d \in Check \ {c} : check'[d].at = "write" =>
          /\ check'[d] = [at |-> "write", quota |-> check'[d].quota, left |-> check'[d].left]
          /\ DOMAIN check'[d].quota = Crowd
          /\ check'[d].left \subseteq Crowd
    BY <1>2 DEF LaunchIInv, LaunchTypes
  <2> QED
    BY <1>2, <1>3, <2>1, <2>2, <2>3 DEF LaunchIInv, LaunchTypes
<1>6. ASSUME ~entangled'
      PROVE  Alone'
  <2>1. Alone /\ c \in Calculating
    BY <1>1, <1>3, <1>6 DEF LaunchIInv, Calculating
  <2>2. survey'.needed = 0
    BY <1>4, <2>1 DEF Alone
  <2>3. \A d \in Check : check'[d].at = "write" => d = c
    BY <1>2, <2>1 DEF Alone, Calculating
  <2>4. \A v \in Crowd \ to.left : survey'.share[v] = Share(to.quota[v])
    BY <1>1, <1>4, <2>1 DEF Alone, LaunchIInv, LaunchTypes
  <2> QED
    BY <1>2, <1>3, <2>1, <2>2, <2>3, <2>4 DEF Alone
<1> QED
  BY <1>3, <1>5, <1>6 DEF LaunchIInv

\* The total is of the shares that are written by then.
LEMMA WriteNeededKeeps ==
  ASSUME LaunchIInv, NEW c \in Check, WriteNeeded(c)
  PROVE  LaunchIInv'
<1> DEFINE k == check[c]
<1>1. k.at = "write" /\ k.left = {} /\ c \in Calculating
  BY DEF WriteNeeded, Calculating
<1>2. DOMAIN check' = Check /\ check'[c].at = "over" /\ \A d \in Check \ {c} : check'[d] = check[d]
  BY CheckMovesOne DEF WriteNeeded, LaunchIInv, LaunchTypes
<1>3. UNCHANGED <<lagging, entangled>>
      /\ survey' = [quota |-> survey.quota, share |-> survey.share, needed |-> SumFunction(Shares(k.quota))]
  BY DEF WriteNeeded, LaunchIInv, LaunchTypes
<1>4. LaunchTypes'
  BY <1>2, <1>3 DEF LaunchIInv, LaunchTypes
<1>5. ASSUME ~entangled'
      PROVE  Alone'
  <2>1. Alone
    BY <1>3, <1>5 DEF LaunchIInv
  <2>2. survey.share = Shares(k.quota)
    <3>1. \A w \in Crowd : survey.share[w] = Share(k.quota[w])
      BY <1>1, <2>1 DEF Alone
    <3>2. survey.share = [w \in Crowd |-> survey.share[w]]
      BY DEF LaunchIInv, LaunchTypes
    <3> QED
      BY <3>1, <3>2 DEF Shares
  <2>3. Calculating' = {}
    BY <1>1, <1>2, <2>1 DEF Alone, Calculating
  <2>4. \A d \in Check : check'[d].at # "write"
    BY <2>3 DEF Calculating
  <2> QED
    BY <1>3, <2>2, <2>3, <2>4 DEF Alone
<1> QED
  BY <1>3, <1>4, <1>5 DEF LaunchIInv

LEMMA LaunchSteps == LaunchIInv /\ [LaunchNext]_launchVars => LaunchIInv'
<1> SUFFICES ASSUME LaunchIInv, [LaunchNext]_launchVars PROVE LaunchIInv'
  OBVIOUS
<1>1. CASE ReplicaFollows
  BY <1>1 DEF ReplicaFollows, LaunchIInv, LaunchTypes, Alone, Calculating
<1>2. ASSUME NEW w \in Crowd, EditQuota(w) PROVE LaunchIInv'
  <2>1. PICK q \in Quotas : survey' = [survey EXCEPT !.quota[w] = q]
    BY <1>2 DEF EditQuota
  <2>2. survey' = [quota |-> [survey.quota EXCEPT ![w] = q], share |-> survey.share, needed |-> survey.needed]
    BY <2>1 DEF LaunchIInv, LaunchTypes
  <2> QED
    BY <1>2, <2>2 DEF EditQuota, LaunchIInv, LaunchTypes, Alone, Calculating
<1>3. ASSUME NEW c \in Check, CheckFails(c) PROVE LaunchIInv'
  BY <1>3, EndingKeeps DEF CheckFails
<1>4. CASE UNCHANGED launchVars
  BY <1>4 DEF launchVars, LaunchIInv, LaunchTypes, Alone, Calculating
<1> QED
  BY <1>1, <1>2, <1>3, <1>4, ReadSurveyKeeps, ReadCrowdsKeeps, WriteShareKeeps, WriteNeededKeeps DEF LaunchNext

\* Whatever fails and however many validations there are (CalculateSLCompletions),
\* the soft launch's total is the sum of its crowds' shares, but for two that
\* calculate at once or one that the replica showed no total.
THEOREM TotalIsSum == LaunchSpec => []TotalIsSumOfShares
<1>1. LaunchIInv => TotalIsSumOfShares
  BY DEF LaunchIInv, Alone, TotalIsSumOfShares
<1> QED
  BY <1>1, LaunchInitially, LaunchSteps, PTL DEF LaunchSpec

-----------------------------------------------------------------------------
(* The watch of the shared calendar: CalendarWatch.                       *)

WatchTypes ==
  /\ month \in MonthLengths /\ day \in 1 .. month
  /\ since \in 0 .. Lasts
  /\ watches = [w \in DOMAIN watches |-> watches[w]]
  /\ \A w \in DOMAIN watches : watches[w] \in Nat
  /\ DOMAIN renewal = Renewer
  /\ \A p \in Renewer : renewal[p].at = "withdraw" =>
       renewal[p] = [at |-> "withdraw", new |-> renewal[p].new, old |-> renewal[p].old]

\* The watch registered last is alive, and no run is about to withdraw it.
LastIsAlive ==
  since < Lasts =>
    \E w \in DOMAIN watches :
      /\ watches[w] = Lasts - since
      /\ \A p \in Renewer : renewal[p].at = "withdraw" => renewal[p].old # w

\* Without a day lost for renewal, one was registered on the last such day.
RegisteredLast ==
  ~lapsed => IF day \in RenewalDays THEN since < Lasts
             ELSE since <= (IF day < 21 THEN day - 1 ELSE day - 21)

WatchIInv == WatchTypes /\ LastIsAlive /\ RegisteredLast

LEMMA MonthsKnown == month \in MonthLengths => month \in 28 .. 31
BY WatchAssumption

LEMMA WatchInitially == WatchInit => WatchIInv
<1> SUFFICES ASSUME WatchInit PROVE WatchIInv
  OBVIOUS
<1>1. WatchTypes
  BY WatchAssumption DEF WatchInit, WatchTypes, Lasts
<1>2. LastIsAlive
  BY DEF WatchInit, LastIsAlive, Lasts
<1>3. RegisteredLast
  BY DEF WatchInit, RegisteredLast, RenewalDays, Lasts
<1> QED
  BY <1>1, <1>2, <1>3 DEF WatchIInv

\* The new watch has an id that no run has in hand.
LEMMA RegisterKeeps ==
  ASSUME WatchIInv, NEW p \in Renewer, Register(p)
  PROVE  WatchIInv'
<1> DEFINE new == CHOOSE w \in WatchId : w \notin KnownIds
<1>1. new \notin KnownIds
  BY DEF Register
<1>2. /\ DOMAIN renewal' = Renewer
      /\ renewal'[p] = [at |-> "withdraw", new |-> new, old |-> copy]
      /\ \A q \in Renewer \ {p} : renewal'[q] = renewal[q]
  BY DEF Register, RenewalMoves, WatchIInv, WatchTypes
<1>3. /\ watches' = [w \in DOMAIN watches \cup {new} |-> IF w = new THEN Lasts ELSE watches[w]]
      /\ since' = 0 /\ UNCHANGED <<day, month, stored, copy, lapsed>>
  BY DEF Register
<1> HIDE DEF new
<1>4. watches'[new] = Lasts /\ new \in DOMAIN watches'
  BY <1>3
<1>5. copy # new /\ \A q \in Renewer : renewal[q].at = "withdraw" => renewal[q].old # new
  BY <1>1 DEF KnownIds
<1>6. WatchTypes'
  BY <1>2, <1>3 DEF WatchIInv, WatchTypes, Lasts
<1>7. LastIsAlive'
  <2>1. Lasts - since' = Lasts
    BY <1>3 DEF Lasts
  <2>2. \A q \in Renewer : renewal'[q].at = "withdraw" => renewal'[q].old # new
    BY <1>2, <1>5
  <2> QED
    BY <1>4, <2>1, <2>2 DEF LastIsAlive
<1>8. RegisteredLast'
  BY <1>3, MonthsKnown DEF WatchIInv, WatchTypes, RegisteredLast, RenewalDays, Lasts
<1> QED
  BY <1>6, <1>7, <1>8 DEF WatchIInv

\* A run that withdraws nothing that is needed goes on.
LEMMA RunOnKeeps ==
  ASSUME WatchIInv, NEW p \in Renewer, NEW to, to.at # "withdraw", RenewalMoves(p, to),
         UNCHANGED <<day, month, since, lapsed>>,
         \/ watches' = watches
         \/ renewal[p].at = "withdraw" /\ watches' = [w \in DOMAIN watches \ {renewal[p].old} |-> watches[w]]
  PROVE  WatchIInv'
<1>1. /\ DOMAIN renewal' = Renewer
      /\ renewal'[p] = to
      /\ \A q \in Renewer \ {p} : renewal'[q] = renewal[q]
  BY DEF RenewalMoves, WatchIInv, WatchTypes
<1>2. WatchTypes'
  BY <1>1 DEF WatchIInv, WatchTypes
<1>3. LastIsAlive'
  <2> SUFFICES ASSUME since < Lasts PROVE LastIsAlive'
    BY DEF LastIsAlive
  <2>1. PICK w \in DOMAIN watches :
          /\ watches[w] = Lasts - since
          /\ \A q \in Renewer : renewal[q].at = "withdraw" => renewal[q].old # w
    BY DEF WatchIInv, LastIsAlive
  <2>2. w \in DOMAIN watches' /\ watches'[w] = watches[w]
    BY <2>1
  <2>3. \A q \in Renewer : renewal'[q].at = "withdraw" => renewal'[q].old # w
    BY <1>1, <2>1
  <2> QED
    BY <2>1, <2>2, <2>3 DEF LastIsAlive
<1> QED
  BY <1>2, <1>3 DEF WatchIInv, RegisteredLast

\* A watch that is as old as `since' ends when `since' is full; a renewal day on
\* which nothing was registered is noted.
LEMMA DaysPassKeeps == WatchIInv /\ DaysPass => WatchIInv'
<1> SUFFICES ASSUME WatchIInv, DaysPass PROVE WatchIInv'
  OBVIOUS
<1>1. PICK d \in 1 .. UntilRenewal :
        /\ \A w \in DOMAIN watches : d <= watches[w]
        /\ day' = IF day + d > month THEN 1 ELSE day + d
        /\ IF day + d > month THEN month' \in MonthLengths ELSE UNCHANGED month
        /\ watches' = [w \in {x \in DOMAIN watches : watches[x] > d} |-> watches[w] - d]
        /\ since' = IF since + d < Lasts THEN since + d ELSE Lasts
  BY DEF DaysPass
<1>2. /\ lapsed' = (lapsed \/ (day \in RenewalDays /\ since # 0))
      /\ renewal' = [p \in Renewer |-> [at |-> IF day' \in RenewalDays THEN "due" ELSE "idle"]]
  BY DEF DaysPass
<1>3. /\ month \in 28 .. 31 /\ day \in 1 .. month /\ since \in 0 .. Lasts /\ d \in Nat /\ d >= 1
      /\ d <= IF day < 21 THEN 21 - day ELSE month + 1 - day
  BY MonthsKnown DEF WatchIInv, WatchTypes, UntilRenewal
<1>4. WatchTypes'
  <2>1. month' \in MonthLengths /\ day' \in 1 .. month' /\ since' \in 0 .. Lasts
    BY <1>1, <1>3, WatchAssumption DEF WatchIInv, WatchTypes, Lasts
  <2>2. watches' = [w \in DOMAIN watches' |-> watches'[w]] /\ \A w \in DOMAIN watches' : watches'[w] \in Nat
    BY <1>1, <1>3 DEF WatchIInv, WatchTypes
  <2> QED
    BY <1>2, <2>1, <2>2 DEF WatchTypes
<1>5. LastIsAlive'
  <2> SUFFICES ASSUME since' < Lasts PROVE LastIsAlive'
    BY DEF LastIsAlive
  <2>1. since + d < Lasts /\ since' = since + d /\ since < Lasts
    BY <1>1, <1>3 DEF Lasts
  <2>2. PICK w \in DOMAIN watches : watches[w] = Lasts - since
    BY <2>1 DEF WatchIInv, LastIsAlive
  <2>3. w \in DOMAIN watches' /\ watches'[w] = Lasts - since'
    BY <1>1, <1>3, <2>1, <2>2 DEF Lasts
  <2>4. \A p \in Renewer : renewal'[p].at # "withdraw"
    BY <1>2
  <2> QED
    BY <2>3, <2>4 DEF LastIsAlive
<1>6. RegisteredLast'
  <2> SUFFICES ASSUME ~lapsed'
               PROVE  IF day' \in RenewalDays THEN since' < Lasts
                      ELSE since' <= (IF day' < 21 THEN day' - 1 ELSE day' - 21)
    BY DEF RegisteredLast
  <2>1. ~lapsed /\ (day \in {1, 21} => since = 0)
    BY <1>2 DEF RenewalDays
  <2>2. since <= (IF day < 21 THEN day - 1 ELSE day - 21)
    BY <1>3, <2>1 DEF WatchIInv, RegisteredLast, RenewalDays
  <2> QED
    BY <1>1, <1>3, <2>1, <2>2 DEF Lasts, RenewalDays
<1> QED
  BY <1>4, <1>5, <1>6 DEF WatchIInv

LEMMA WatchSteps == WatchIInv /\ [WatchNext]_watchVars => WatchIInv'
<1> SUFFICES ASSUME WatchIInv, [WatchNext]_watchVars PROVE WatchIInv'
  OBVIOUS
<1>1. CASE CopyRow
  BY <1>1 DEF CopyRow, WatchIInv, WatchTypes, LastIsAlive, RegisteredLast
<1>2. ASSUME NEW p \in Renewer, RegisterFails(p) PROVE WatchIInv'
  BY <1>2, RunOnKeeps DEF RegisterFails
<1>3. ASSUME NEW p \in Renewer, Withdraw(p) PROVE WatchIInv'
  <2>1. [renewal[p] EXCEPT !.at = "store"].at # "withdraw"
    BY <1>3 DEF Withdraw, WatchIInv, WatchTypes
  <2> QED
    BY <1>3, <2>1, RunOnKeeps DEF Withdraw
<1>4. ASSUME NEW p \in Renewer, StoreWatch(p) PROVE WatchIInv'
  BY <1>4, RunOnKeeps DEF StoreWatch
<1>5. CASE UNCHANGED watchVars
  BY <1>5 DEF watchVars, WatchIInv, WatchTypes, LastIsAlive, RegisteredLast
<1> QED
  BY <1>1, <1>2, <1>3, <1>4, <1>5, RegisterKeeps, DaysPassKeeps DEF WatchNext

\* However many processes run updateCalendarPushWatch, whatever of it fails and
\* whatever row it reads, no gap opens unless a day for renewal passed on which
\* nothing was registered.
THEOREM Watched == WatchSpec => []UnwatchedHasCause
<1>1. WatchIInv => UnwatchedHasCause
  <2> SUFFICES ASSUME WatchIInv, DOMAIN watches = {} PROVE since = Lasts /\ lapsed
    BY DEF UnwatchedHasCause
  <2>1. since = Lasts
    BY DEF WatchIInv, WatchTypes, LastIsAlive, Lasts
  <2>2. month \in 28 .. 31 /\ day \in 1 .. month
    BY MonthsKnown DEF WatchIInv, WatchTypes
  <2>3. lapsed
    BY <2>1, <2>2 DEF WatchIInv, RegisteredLast, Lasts, RenewalDays
  <2> QED
    BY <2>1, <2>3
<1> QED
  BY <1>1, WatchInitially, WatchSteps, PTL DEF WatchSpec

-----------------------------------------------------------------------------
(* The reminders of an interview: Reminders.                              *)

Greater(a, b) == IF a > b THEN a ELSE b
Processes == Cardinality(Server)

\* The types; what is left of the time an interview was set ahead.
ReminderTypes ==
  /\ minutes \in Nat \cup {None} /\ setAt \in Nat /\ minutes <= setAt
  /\ waiting \in SUBSET Server
  /\ sent \in Nat /\ lost \in Nat

\* Every process writes once in a minute of the window.
WrittenByMinute ==
  /\ minutes > Furthest => sent = 0
  /\ \A k \in 0 .. 4 : minutes = Furthest - k => sent + Cardinality(waiting) <= (k + 1) * Processes
  /\ sent <= 5 * Processes

\* While nobody has written, every minute of the window since the interview was set
\* was lost, and no process has run in this one.
NobodyWrote ==
  minutes # None /\ sent = 0 =>
    /\ lost >= Lesser(setAt - 1, Furthest) - Greater(minutes, Nearest)
    /\ ran /\ minutes \in Nearest + 1 .. Furthest => minutes = setAt

ReminderIInv == ReminderTypes /\ WrittenByMinute /\ NobodyWrote

LEMMA ProcessesNat == Processes \in Nat /\ \A S \in SUBSET Server : IsFiniteSet(S) /\ Cardinality(S) \in Nat /\ Cardinality(S) <= Processes
BY ReminderAssumption, FS_CardinalityType, FS_Subset DEF Processes

LEMMA ReminderInitially == ReminderInit => ReminderIInv
<1> SUFFICES ASSUME ReminderInit PROVE ReminderIInv
  OBVIOUS
<1>1. minutes = -1 /\ waiting = {} /\ sent = 0 /\ setAt = 0 /\ ran = TRUE /\ lost = 0
  BY DEF ReminderInit, None
<1> QED
  BY <1>1, ProcessesNat DEF ReminderIInv, ReminderTypes, WrittenByMinute, NobodyWrote, None, Furthest

LEMMA SetKeeps ==
  ASSUME ReminderIInv, NEW m \in Ahead, SetInterview(m)
  PROVE  ReminderIInv'
<1>1. m \in Nat /\ waiting' = {} /\ minutes' = m /\ setAt' = m /\ sent' = 0 /\ lost' = 0 /\ ran' = TRUE
  BY ReminderAssumption DEF SetInterview
<1>2. Cardinality(waiting') = 0
  BY <1>1, FS_EmptySet
<1>3. WrittenByMinute'
  BY <1>1, <1>2, ProcessesNat DEF WrittenByMinute, Furthest
<1>4. NobodyWrote'
  BY <1>1 DEF NobodyWrote, Lesser, Greater, Nearest, Furthest
<1> QED
  BY <1>1, <1>3, <1>4 DEF ReminderIInv, ReminderTypes

LEMMA CallOffKeeps == ReminderIInv /\ CallOff => ReminderIInv'
<1> SUFFICES ASSUME ReminderIInv, CallOff PROVE ReminderIInv'
  OBVIOUS
<1>1. minutes' = -1 /\ UNCHANGED <<waiting, sent, setAt, ran, lost>>
  BY DEF CallOff, None
<1> QED
  BY <1>1 DEF ReminderIInv, ReminderTypes, WrittenByMinute, NobodyWrote, None, Furthest

\* One process less is to run, and one reminder more, at most, was sent.
LEMMA RunKeeps ==
  ASSUME ReminderIInv, NEW p \in Server, p \in waiting, waiting' = waiting \ {p},
         UNCHANGED <<minutes, setAt, lost>>,
         \/ sent' = sent /\ ran' = ran
         \/ sent' = sent + 1 /\ ran' = TRUE /\ minutes \in Nearest .. Furthest
         \/ sent' = sent /\ ran' = TRUE /\ minutes \notin Nearest + 1 .. Furthest
  PROVE  ReminderIInv'
<1>1. ReminderTypes'
  BY DEF ReminderIInv, ReminderTypes
<1>2. Cardinality(waiting') = Cardinality(waiting) - 1 /\ Cardinality(waiting) \in Nat
  BY ProcessesNat, FS_RemoveElement DEF ReminderIInv, ReminderTypes
<1>3. sent' <= sent + 1 /\ sent \in Nat /\ sent' \in Nat /\ (minutes \notin Nearest .. Furthest => sent' = sent)
  BY DEF ReminderIInv, ReminderTypes
<1>4. ASSUME NEW k \in 0 .. 4, minutes = Furthest - k
      PROVE  sent' + Cardinality(waiting') <= (k + 1) * Processes
  <2>1. sent + Cardinality(waiting) <= (k + 1) * Processes /\ (k + 1) * Processes \in Nat
    BY <1>4, ProcessesNat DEF ReminderIInv, WrittenByMinute
  <2> QED
    BY <1>2, <1>3, <2>1
<1>5. sent' <= 5 * Processes
  <2>1. CASE minutes \notin Nearest .. Furthest
    BY <1>3, <2>1 DEF ReminderIInv, WrittenByMinute
  <2>2. CASE minutes \in Nearest .. Furthest
    <3>1. PICK k \in 0 .. 4 : minutes = Furthest - k
      BY <2>2 DEF Nearest, Furthest
    <3>2. sent' <= (k + 1) * Processes
      BY <1>2, <1>3, <1>4, <3>1, ProcessesNat DEF ReminderIInv, ReminderTypes
    <3>3. (k + 1) * Processes <= 5 * Processes
      <4>1. k = 0 \/ k = 1 \/ k = 2 \/ k = 3 \/ k = 4
        BY <3>1
      <4> QED
        BY <4>1, ProcessesNat
    <3> QED
      BY <1>3, <3>2, <3>3, ProcessesNat
  <2> QED
    BY <2>1, <2>2
<1>6. WrittenByMinute'
  BY <1>3, <1>4, <1>5 DEF ReminderIInv, WrittenByMinute, Nearest, Furthest
<1>7. NobodyWrote'
  BY DEF ReminderIInv, ReminderTypes, NobodyWrote
<1> QED
  BY <1>1, <1>6, <1>7 DEF ReminderIInv

LEMMA RemindKeeps ==
  ASSUME ReminderIInv, NEW p \in Server, Remind(p)
  PROVE  ReminderIInv'
<1>1. PICK late \in {0, 1} : sent' = IF InWindow(late) THEN sent + 1 ELSE sent
  BY DEF Remind
<1>2. p \in waiting /\ waiting' = waiting \ {p} /\ UNCHANGED <<minutes, setAt, lost>> /\ ran' = TRUE
  BY DEF Remind
<1>3. CASE minutes = None
  <2>1. ~InWindow(late) /\ minutes \notin Nearest + 1 .. Furthest
    BY <1>3 DEF InWindow, None, Nearest, Furthest
  <2> QED
    BY <1>1, <1>2, <2>1, RunKeeps
<1>4. CASE minutes \in Nat
  <2>1. InWindow(late) => minutes \in Nearest .. Furthest
    BY <1>4 DEF InWindow, Nearest, Furthest
  <2>2. ~InWindow(late) => minutes \notin Nearest + 1 .. Furthest
    BY <1>4 DEF InWindow, Nearest, Furthest
  <2> QED
    BY <1>1, <1>2, <2>1, <2>2, RunKeeps
<1> QED
  BY <1>3, <1>4 DEF ReminderIInv, ReminderTypes

\* A minute of the window ends: every process has run in it, or it is lost.
LEMMA NextMinuteKeeps == ReminderIInv /\ NextMinute => ReminderIInv'
<1> SUFFICES ASSUME ReminderIInv, NextMinute PROVE ReminderIInv'
  OBVIOUS
<1>1. /\ waiting = {} /\ waiting' = Server /\ ran' = FALSE /\ UNCHANGED <<sent, setAt>>
      /\ minutes' = IF minutes > 0 THEN minutes - 1 ELSE -1
      /\ lost' = IF ~ran /\ minutes \in Nearest + 1 .. Furthest THEN lost + 1 ELSE lost
      /\ minutes \in Nat \cup {-1} /\ setAt \in Nat /\ sent \in Nat /\ lost \in Nat /\ minutes <= setAt
  BY DEF NextMinute, None, ReminderIInv, ReminderTypes
<1>2. ReminderTypes'
  BY <1>1 DEF ReminderTypes, None
<1>3. WrittenByMinute'
  <2>1. sent <= 5 * Processes /\ (minutes > Furthest => sent = 0)
    BY DEF ReminderIInv, WrittenByMinute
  <2>2. ASSUME NEW k \in 0 .. 4, minutes' = Furthest - k
        PROVE  sent + Cardinality(Server) <= (k + 1) * Processes
    <3>1. minutes = Furthest - (k - 1)
      BY <1>1, <2>2 DEF Furthest
    <3>2. CASE k = 0
      <4>1. sent = 0
        BY <2>1, <3>1, <3>2 DEF Furthest
      <4> QED
        BY <3>2, <4>1, ProcessesNat DEF Processes
    <3>3. CASE k # 0
      <4>1. k - 1 \in 0 .. 4
        BY <3>3
      <4>2. sent + Cardinality(waiting) <= ((k - 1) + 1) * Processes
        BY <3>1, <4>1 DEF ReminderIInv, WrittenByMinute
      <4>3. sent <= k * Processes
        BY <1>1, <4>2, FS_EmptySet
      <4>4. (k + 1) * Processes = k * Processes + Processes
        BY ProcessesNat
      <4>5. k * Processes \in Nat
        BY ProcessesNat
      <4> QED
        BY <1>1, <4>3, <4>4, <4>5, ProcessesNat DEF Processes
    <3> QED
      BY <3>2, <3>3
  <2>3. minutes' > Furthest => sent = 0
    BY <1>1, <2>1 DEF Furthest
  <2> QED
    BY <1>1, <2>1, <2>2, <2>3 DEF WrittenByMinute, Processes
<1>4. NobodyWrote'
  <2> SUFFICES ASSUME minutes' # -1, sent = 0
               PROVE  lost' >= Lesser(setAt - 1, Furthest) - Greater(minutes', Nearest)
    BY <1>1 DEF NobodyWrote, None
  <2>1. /\ lost >= Lesser(setAt - 1, Furthest) - Greater(minutes, Nearest)
        /\ ran /\ minutes \in Nearest + 1 .. Furthest => minutes = setAt
        /\ minutes \in Nat /\ minutes > 0 /\ minutes' = minutes - 1
    BY <1>1 DEF ReminderIInv, NobodyWrote, None
  <2> QED
    BY <1>1, <2>1 DEF Lesser, Greater, Nearest, Furthest
<1> QED
  BY <1>2, <1>3, <1>4 DEF ReminderIInv

LEMMA ReminderSteps == ReminderIInv /\ [ReminderNext]_reminderVars => ReminderIInv'
<1> SUFFICES ASSUME ReminderIInv, [ReminderNext]_reminderVars PROVE ReminderIInv'
  OBVIOUS
<1>1. ASSUME NEW p \in Server, RemindFails(p) PROVE ReminderIInv'
  BY <1>1, RunKeeps DEF RemindFails
<1>2. CASE UNCHANGED reminderVars
  BY <1>2 DEF reminderVars, ReminderIInv, ReminderTypes, WrittenByMinute, NobodyWrote
<1> QED
  BY <1>1, <1>2, SetKeeps, CallOffKeeps, NextMinuteKeeps, RemindKeeps DEF ReminderNext

\* For any number of processes, interviews set any time ahead and moved any number
\* of times (remindInterviewees30MinBefore): one that begins without a reminder lost
\* every minute left of its window but the last, and no process writes more than
\* five times.
THEOREM RemindersMatch == ReminderSpec => []RemindersMatchRuns
<1>1. ReminderIInv => RemindersMatchRuns
  BY DEF ReminderIInv, ReminderTypes, WrittenByMinute, NobodyWrote, RemindersMatchRuns, Processes, Lesser, Greater, None, Nearest, Furthest
<1> QED
  BY <1>1, ReminderInitially, ReminderSteps, PTL DEF ReminderSpec

-----------------------------------------------------------------------------
(* The recording of a meeting: Meetings.                                  *)

Handling(c) == meetingCall[c].at \in {"media", "status"}

MeetingTypes ==
  /\ DOMAIN meetingCall = MeetingCall
  /\ DOMAIN media = Meeting /\ DOMAIN recording = Meeting
  /\ told \subseteq Meeting
  /\ \A c \in MeetingCall : Handling(c) =>
       /\ meetingCall[c].meeting \in Meeting
       /\ meetingCall[c] = [at |-> meetingCall[c].at, meeting |-> meetingCall[c].meeting, body |-> meetingCall[c].body]

InOrder ==
  /\ \A c, d \in MeetingCall : Handling(c) /\ Handling(d) => c = d
  /\ \A c \in MeetingCall : Handling(c) => meetingCall[c].meeting \in linked /\ meetingCall[c].body \in Body
  /\ \A c \in MeetingCall : meetingCall[c].at = "status" => media[meetingCall[c].meeting] = meetingCall[c].body
  /\ \A m \in Meeting :
       \/ media[m] = recording[m]
       \/ \E c \in MeetingCall : meetingCall[c].at = "status" /\ meetingCall[c].meeting = m
  /\ \A m \in told : media[m] \in Body

MeetingIInv == MeetingTypes /\ (odd = {} => InOrder)

\* When no callback is being handled the tables agree.
LEMMA InOrderSuffices == MeetingIInv => RecordingLostHasCause
BY BodyAssumption DEF MeetingIInv, MeetingTypes, InOrder, Handling, RecordingLostHasCause

LEMMA MeetingInitially == MeetingInit => MeetingIInv
BY DEF MeetingInit, MeetingIInv, MeetingTypes, InOrder, Handling

\* What one call does to its own entry leaves those of the others.
LEMMA MeetingMovesOne ==
  ASSUME DOMAIN meetingCall = MeetingCall, NEW c \in MeetingCall, NEW to, MeetingMoves(c, to)
  PROVE  /\ DOMAIN meetingCall' = MeetingCall
         /\ meetingCall'[c] = to
         /\ \A d \in MeetingCall \ {c} : meetingCall'[d] = meetingCall[d]
BY DEF MeetingMoves

\* A call that handles no callback, before or after, may only add to those linked.
LEMMA CreatingKeeps ==
  ASSUME MeetingIInv, NEW c \in MeetingCall, ~Handling(c), NEW to, to.at \notin {"media", "status"},
         MeetingMoves(c, to), linked \subseteq linked', UNCHANGED <<recording, media, told>>, odd \subseteq odd'
  PROVE  MeetingIInv'
<1>1. /\ DOMAIN meetingCall' = MeetingCall
      /\ meetingCall'[c] = to
      /\ \A d \in MeetingCall \ {c} : meetingCall'[d] = meetingCall[d]
  BY MeetingMovesOne DEF MeetingIInv, MeetingTypes
<1>2. MeetingTypes'
  BY <1>1 DEF MeetingIInv, MeetingTypes, Handling
<1>3. ASSUME odd' = {}
      PROVE  InOrder'
  <2>1. InOrder
    BY <1>3 DEF MeetingIInv
  <2>2. \A d \in MeetingCall : meetingCall'[d].at \in {"media", "status"} => d # c /\ meetingCall'[d] = meetingCall[d]
    BY <1>1
  <2>3. \A d \in MeetingCall : meetingCall[d].at = "status" => d # c /\ meetingCall'[d] = meetingCall[d]
    BY <1>1 DEF Handling
  <2> QED
    BY <2>1, <2>2, <2>3 DEF InOrder, Handling
<1> QED
  BY <1>2, <1>3 DEF MeetingIInv

\* A callback that is not odd is of a linked meeting, and the only one.
LEMMA ReceiveKeeps ==
  ASSUME MeetingIInv, NEW c \in MeetingCall, NEW m \in Meeting, NEW body \in Body \cup {Empty},
         ReceiveCallback(c, m, body)
  PROVE  MeetingIInv'
<1> DEFINE to == [at |-> "media", meeting |-> m, body |-> body]
<1>1. /\ DOMAIN meetingCall' = MeetingCall
      /\ meetingCall'[c] = to
      /\ \A d \in MeetingCall \ {c} : meetingCall'[d] = meetingCall[d]
      /\ meetingCall[c].at = "idle"
      /\ UNCHANGED <<linked, recording, media, told>>
  BY MeetingMovesOne DEF MeetingIInv, MeetingTypes, ReceiveCallback
<1>2. to.at = "media" /\ to.meeting = m /\ to.body = body
      /\ to = [at |-> to.at, meeting |-> to.meeting, body |-> to.body]
  OBVIOUS
<1> HIDE DEF to
<1>3. MeetingTypes'
  BY <1>1, <1>2 DEF MeetingIInv, MeetingTypes, Handling
<1>4. ASSUME odd' = {}
      PROVE  InOrder'
  <2>1. InOrder /\ (\A d \in MeetingCall : ~Handling(d)) /\ body # Empty /\ m \in linked
    BY <1>4 DEF MeetingIInv, ReceiveCallback, Handling
  <2> QED
    BY <1>1, <1>2, <2>1 DEF InOrder, Handling
<1> QED
  BY <1>3, <1>4 DEF MeetingIInv

\* A call's next position, with the meeting and the body it had.
LEMMA NextPosition ==
  ASSUME NEW k, k = [at |-> k.at, meeting |-> k.meeting, body |-> k.body], NEW l
  PROVE  [k EXCEPT !.at = l] = [at |-> l, meeting |-> k.meeting, body |-> k.body]
OBVIOUS

\* From then on IRIS has the recording, and the call is to bring it to QS.
LEMMA UpsertKeeps ==
  ASSUME MeetingIInv, NEW c \in MeetingCall, UpsertMedia(c)
  PROVE  MeetingIInv'
<1> DEFINE k == meetingCall[c]
           to == [at |-> "status", meeting |-> k.meeting, body |-> k.body]
<1>1. k.at = "media" /\ Handling(c)
  BY DEF UpsertMedia, Handling
<1>2. k.meeting \in Meeting /\ [k EXCEPT !.at = "status"] = to
  BY <1>1, NextPosition DEF MeetingIInv, MeetingTypes
<1>3. /\ DOMAIN meetingCall' = MeetingCall
      /\ meetingCall'[c] = to
      /\ \A d \in MeetingCall \ {c} : meetingCall'[d] = meetingCall[d]
      /\ UNCHANGED <<linked, recording, told, odd>>
      /\ media' = [media EXCEPT ![k.meeting] = k.body]
  BY <1>2, MeetingMovesOne DEF MeetingIInv, MeetingTypes, UpsertMedia
<1>4. /\ DOMAIN media' = Meeting
      /\ media'[k.meeting] = k.body
      /\ \A m \in Meeting \ {k.meeting} : media'[m] = media[m]
  BY <1>2, <1>3 DEF MeetingIInv, MeetingTypes
<1>5. to.at = "status" /\ to.meeting = k.meeting /\ to.body = k.body
      /\ to = [at |-> to.at, meeting |-> to.meeting, body |-> to.body]
  OBVIOUS
<1> HIDE DEF to
<1>6. MeetingTypes'
  BY <1>2, <1>3, <1>4, <1>5 DEF MeetingIInv, MeetingTypes, Handling
<1>7. ASSUME odd' = {}
      PROVE  InOrder'
  <2>1. InOrder
    BY <1>3, <1>7 DEF MeetingIInv
  <2>2. \A d \in MeetingCall \ {c} : meetingCall'[d].at \notin {"media", "status"}
    BY <1>1, <1>3, <2>1 DEF InOrder, Handling
  <2>3. \A m \in Meeting \ {k.meeting} : media'[m] = recording'[m]
    BY <1>1, <1>3, <1>4, <2>1 DEF InOrder, Handling
  <2>4. \A m \in told' : media'[m] \in Body
    BY <1>1, <1>3, <1>4, <2>1 DEF InOrder, MeetingIInv, MeetingTypes
  <2> QED
    BY <1>1, <1>3, <1>4, <1>5, <2>1, <2>2, <2>3, <2>4 DEF InOrder, Handling
<1> QED
  BY <1>6, <1>7 DEF MeetingIInv

\* QS gets what IRIS has.
LEMMA UpdateKeeps ==
  ASSUME MeetingIInv, NEW c \in MeetingCall, UpdateRecording(c)
  PROVE  MeetingIInv'
<1> DEFINE k == meetingCall[c]
           to == [at |-> "over"]
<1>1. k.at = "status" /\ Handling(c)
  BY DEF UpdateRecording, Handling
<1>2. k.meeting \in Meeting
  BY <1>1 DEF MeetingIInv, MeetingTypes
<1>3. /\ DOMAIN meetingCall' = MeetingCall
      /\ meetingCall'[c].at = "over"
      /\ \A d \in MeetingCall \ {c} : meetingCall'[d] = meetingCall[d]
      /\ UNCHANGED <<linked, media, odd>>
      /\ told' = told \cup {k.meeting}
      /\ recording' = IF k.meeting \in linked THEN [recording EXCEPT ![k.meeting] = k.body] ELSE recording
  BY MeetingMovesOne DEF MeetingIInv, MeetingTypes, UpdateRecording
<1>4. MeetingTypes'
  BY <1>2, <1>3 DEF MeetingIInv, MeetingTypes, Handling
<1>5. ASSUME odd' = {}
      PROVE  InOrder'
  <2>1. InOrder
    BY <1>3, <1>5 DEF MeetingIInv
  <2>2. \A d \in MeetingCall : meetingCall'[d].at \notin {"media", "status"}
    BY <1>1, <1>3, <2>1 DEF InOrder, Handling
  <2>3. k.meeting \in linked /\ k.body \in Body /\ media[k.meeting] = k.body
    BY <1>1, <2>1 DEF InOrder
  <2>4. \A m \in Meeting : media'[m] = recording'[m]
    <3>1. recording'[k.meeting] = k.body /\ \A m \in Meeting \ {k.meeting} : recording'[m] = recording[m]
      BY <1>2, <1>3, <2>3 DEF MeetingIInv, MeetingTypes
    <3>2. \A m \in Meeting \ {k.meeting} : media[m] = recording[m]
      BY <1>1, <2>1 DEF InOrder, Handling
    <3> QED
      BY <1>3, <2>3, <3>1, <3>2
  <2>5. \A m \in told' : media'[m] \in Body
    BY <1>3, <2>1, <2>3 DEF InOrder
  <2> QED
    BY <2>2, <2>4, <2>5 DEF InOrder, Handling
<1> QED
  BY <1>4, <1>5 DEF MeetingIInv

\* A failure is odd; what it leaves is of the types all the same.
LEMMA PassesKeeps ==
  ASSUME MeetingIInv, NEW c \in MeetingCall, MeetingPasses(c)
  PROVE  MeetingIInv'
<1> DEFINE k == meetingCall[c]
           to == IF k.at = "media" THEN [k EXCEPT !.at = "status"] ELSE [at |-> "over"]
<1>1. /\ DOMAIN meetingCall' = MeetingCall
      /\ meetingCall'[c] = to
      /\ \A d \in MeetingCall \ {c} : meetingCall'[d] = meetingCall[d]
      /\ UNCHANGED <<linked, media, recording>>
      /\ odd' # {}
      /\ told' = IF k.at = "status" THEN told \cup {k.meeting} ELSE told
  BY MeetingMovesOne DEF MeetingIInv, MeetingTypes, MeetingPasses
<1>2. told' \subseteq Meeting
  BY <1>1 DEF MeetingIInv, MeetingTypes, Handling
<1>3. Handling(c)' => /\ to.meeting \in Meeting
                      /\ to = [at |-> to.at, meeting |-> to.meeting, body |-> to.body]
  <2>1. CASE k.at = "media"
    <3>1. k.meeting \in Meeting /\ k = [at |-> k.at, meeting |-> k.meeting, body |-> k.body]
      BY <2>1 DEF MeetingIInv, MeetingTypes, Handling
    <3>2. to = [at |-> "status", meeting |-> k.meeting, body |-> k.body]
      BY <2>1, <3>1, NextPosition
    <3> QED
      BY <3>1, <3>2
  <2>2. CASE k.at # "media"
    BY <1>1, <2>2 DEF Handling
  <2> QED
    BY <2>1, <2>2
<1> HIDE DEF to
<1> QED
  BY <1>1, <1>2, <1>3 DEF MeetingIInv, MeetingTypes, Handling

LEMMA MeetingSteps == MeetingIInv /\ [MeetingNext]_meetingVars => MeetingIInv'
<1> SUFFICES ASSUME MeetingIInv, [MeetingNext]_meetingVars PROVE MeetingIInv'
  OBVIOUS
<1>1. ASSUME NEW c \in MeetingCall, NEW m \in Meeting, CreateMeeting(c, m)
      PROVE  MeetingIInv'
  BY <1>1, CreatingKeeps DEF CreateMeeting, Handling
<1>2. ASSUME NEW c \in MeetingCall, LinkMeeting(c)
      PROVE  MeetingIInv'
  BY <1>2, CreatingKeeps DEF LinkMeeting, Handling
<1>3. CASE UNCHANGED meetingVars
  BY <1>3 DEF meetingVars, MeetingIInv, MeetingTypes, InOrder, Handling
<1> QED
  BY <1>1, <1>2, <1>3, ReceiveKeeps, UpsertKeeps, UpdateKeeps, PassesKeeps DEF MeetingNext

\* Whatever calls there are and in whatever order, a meeting whose callback was
\* answered (RecordingUploadCallback) has the same recording in IRIS and in QS,
\* but for a failure, an empty body, a meeting without a row, crossed callbacks.
THEOREM RecordingsKept == MeetingSpec => []RecordingLostHasCause
BY InOrderSuffices, MeetingInitially, MeetingSteps, PTL DEF MeetingSpec

-----------------------------------------------------------------------------
(* The job: CreditGrantJob.                                               *)

\* What a run has done for the row it is handling.
Progress ==
  \A r \in Run :
    /\ pc[r] \in {"credit", "grant", "mark"} => SlotOf(row[r]) \notin Ineligible
    /\ pc[r] = "markIneligible" => SlotOf(row[r]) \in Ineligible
    /\ pc[r] = "grant" => <<r, row[r]>> \in credits
    /\ pc[r] = "mark" => <<r, row[r]>> \in grants

JobInv == TypeOK /\ Progress /\ PaidNamesItsCredit

\* The rows of the query name slots.
LEMMA RowSlot == \A rw \in Row : SlotOf(rw) \in Slot
  BY DEF Row, SlotOf

LEMMA JobInit == Init => JobInv
  BY DEF Init, JobInv, TypeOK, Progress, PaidNamesItsCredit

\* Every step preserves JobInv.
LEMMA JobStep == JobInv /\ [Next]_vars => JobInv'
  <1> SUFFICES ASSUME JobInv, [Next]_vars PROVE JobInv'
    OBVIOUS
  <1> USE DEF JobInv, tables, runVars, jobHistory
  <1>1. ASSUME NEW r \in Run, Start(r) PROVE JobInv'
    <2>1. TypeOK'
      BY <1>1, RowSlot DEF Start, TypeOK, Listed, SlotsOf
    <2>2. Progress' /\ PaidNamesItsCredit'
      BY <1>1 DEF Start, TypeOK, Progress, PaidNamesItsCredit
    <2>3. QED
      BY <2>1, <2>2
  <1>2. ASSUME NEW r \in Run, NEW rw \in Row, TakeRow(r, rw) PROVE JobInv'
    <2>1. TypeOK'
      BY <1>2 DEF TakeRow, TypeOK
    <2>2. Progress' /\ PaidNamesItsCredit'
      BY <1>2 DEF TakeRow, TypeOK, Progress, PaidNamesItsCredit
    <2>3. QED
      BY <2>1, <2>2
  <1>3. ASSUME NEW r \in Run, InsertCredit(r) PROVE JobInv'
    <2>1. TypeOK'
      BY <1>3 DEF InsertCredit, TypeOK, Credit
    <2>2. Progress' /\ PaidNamesItsCredit'
      BY <1>3 DEF InsertCredit, TypeOK, Progress, PaidNamesItsCredit
    <2>3. QED
      BY <2>1, <2>2
  <1>4. ASSUME NEW r \in Run, InsertCreditGrant(r) PROVE JobInv'
    <2>1. TypeOK'
      BY <1>4 DEF InsertCreditGrant, TypeOK, Progress
    <2>2. Progress' /\ PaidNamesItsCredit'
      BY <1>4 DEF InsertCreditGrant, TypeOK, Progress, PaidNamesItsCredit
    <2>3. QED
      BY <2>1, <2>2
  <1>5. ASSUME NEW r \in Run, MarkHonorariumPaid(r) PROVE JobInv'
    <2>1. SlotOf(row[r]) \in Slot /\ <<r, row[r]>> \in Credit
      BY RowSlot DEF TypeOK, Credit
    <2>2. TypeOK'
      BY <1>5, <2>1 DEF MarkHonorariumPaid, TypeOK
    <2>3. Progress'
      BY <1>5 DEF MarkHonorariumPaid, TypeOK, Progress
    <2>4. PaidNamesItsCredit'
      BY <1>5, <2>1 DEF MarkHonorariumPaid, TypeOK, Progress, PaidNamesItsCredit
    <2>5. QED
      BY <2>2, <2>3, <2>4
  <1>6. ASSUME NEW r \in Run, RowFails(r) \/ Finish(r) \/ Crash(r) \/ StartFails(r) PROVE JobInv'
    <2>1. /\ \E st \in {"next", "done"} : pc' = [pc EXCEPT ![r] = st]
          /\ todo' \in {todo, [todo EXCEPT ![r] = {}]}
          /\ UNCHANGED <<due, tables, replica, row>>
      BY <1>6 DEF RowFails, Finish, Crash, StartFails
    <2>2. Unmarked(r) \subseteq Slot /\ SlotOf(row[r]) \in Slot /\ SlotsOf(Held(r)) \subseteq Slot
      BY RowSlot DEF TypeOK, Unmarked, SlotsOf, Held
    <2>3. again' \subseteq Slot /\ failed' \subseteq Slot
      BY <1>6, <2>2 DEF RowFails, Finish, Crash, StartFails, TypeOK
    <2>4. TypeOK'
      BY <2>1, <2>3 DEF TypeOK
    <2>5. Progress' /\ PaidNamesItsCredit'
      BY <2>1 DEF TypeOK, Progress, PaidNamesItsCredit
    <2>6. QED
      BY <2>4, <2>5
  <1>7. ASSUME NEW s \in Slot, BecomesDue(s) \/ Replicate(s) \/ MarkNoShow(s) PROVE JobInv'
    <2>1. TypeOK'
      BY <1>7 DEF BecomesDue, Replicate, MarkNoShow, TypeOK
    <2>2. Progress' /\ PaidNamesItsCredit'
      BY <1>7 DEF BecomesDue, Replicate, MarkNoShow, Progress, PaidNamesItsCredit
    <2>3. QED
      BY <2>1, <2>2
  <1>8. CASE UNCHANGED vars \/ Quiet
    BY <1>8 DEF vars, Quiet, TypeOK, Progress, PaidNamesItsCredit
  <1>9. QED
    BY <1>1, <1>2, <1>3, <1>4, <1>5, <1>6, <1>7, <1>8 DEF Next, RunStep, RunFault

\* No participant is recorded as paid without a granted credit.
THEOREM PaidIsCredited == Spec => []PaidNamesItsCredit
  <1>1. Spec => []JobInv
    BY JobInit, JobStep, PTL DEF Spec
  <1>2. QED
    BY <1>1, PTL DEF JobInv

\* Every variable of the job keeps its type: no credit_grant is ever without
\* its credit.
THEOREM JobTypes == Spec => []TypeOK
  <1>1. Spec => []JobInv
    BY JobInit, JobStep, PTL DEF Spec
  <1>2. QED
    BY <1>1, PTL DEF JobInv

-----------------------------------------------------------------------------
(* Crediting twice *)

\* A slot without a cause to be credited again is in the hands of one run, which
\* holds it once and finds it unpaid; what was credited for it is marked paid or
\* about to be.
InGoodHands(s) ==
  /\ \A r \in Run, rw \in Row : Running(r) /\ rw \in Held(r) /\ SlotOf(rw) = s => Copies[s] = 1
  /\ \A q, r \in Run : Running(q) /\ Running(r) /\ s \in SlotsOf(Held(q)) /\ s \in SlotsOf(Held(r)) => q = r
  /\ \A r \in Run : Running(r) =>
       /\ \A rw \in todo[r] : SlotOf(rw) = s => s \notin paid
       /\ pc[r] \in {"credit", "grant", "mark"} /\ SlotOf(row[r]) = s => s \notin paid
       /\ pc[r] # "next" /\ SlotOf(row[r]) = s => s \notin SlotsOf(todo[r])
  /\ \A c \in credits : SlotOf(c[2]) = s =>
       s \in paid \/ (pc[c[1]] \in {"grant", "mark"} /\ row[c[1]] = c[2])
  /\ \A c, d \in credits : SlotOf(c[2]) = s /\ SlotOf(d[2]) = s => c = d

HandsInv == TypeOK /\ \A s \in Slot \ again : InGoodHands(s)

\* A slot that the query returns once is named by one row.
LEMMA OneRowPerSlot ==
  ASSUME NEW v \in Row, NEW w \in Row, SlotOf(v) = SlotOf(w), Copies[SlotOf(v)] = 1
  PROVE  v = w
  <1>1. PICK s \in Slot : v \in {s} \X (1 .. Copies[s])
    BY DEF Row
  <1>2. PICK t \in Slot : w \in {t} \X (1 .. Copies[t])
    BY DEF Row
  <1>3. v = <<s, 1>> /\ w = <<t, 1>> /\ s = t
    BY <1>1, <1>2 DEF SlotOf
  <1>4. QED
    BY <1>3

LEMMA HandsInit == Init => HandsInv
  BY RowSlot DEF Init, HandsInv, InGoodHands, TypeOK, Running

LEMMA HandsStep == JobInv /\ HandsInv /\ [Next]_vars => HandsInv'
  <1> SUFFICES ASSUME JobInv, HandsInv, [Next]_vars PROVE HandsInv'
    OBVIOUS
  <1>0. TypeOK /\ TypeOK'
    BY JobStep DEF JobInv
  <1> SUFFICES ASSUME NEW s \in Slot, s \notin again' PROVE InGoodHands(s)'
    BY <1>0 DEF HandsInv
  <1> USE DEF tables, runVars, jobHistory
  <1>1. again \subseteq again' => InGoodHands(s)
    BY DEF HandsInv
  <1>2. ASSUME NEW r \in Run, Start(r) PROVE InGoodHands(s)'
    <2>1. /\ pc[r] = "idle" /\ pc'[r] = "next" /\ todo'[r] = Listed /\ Listed \subseteq Row
          /\ \A q \in Run \ {r} : pc'[q] = pc[q] /\ todo'[q] = todo[q]
          /\ UNCHANGED <<tables, row>>
      BY <1>0, <1>2 DEF Start, TypeOK, Listed
    <2>2. Held(r)' = Listed /\ \A q \in Run \ {r} : Held(q)' = Held(q) /\ Running(q)' = Running(q)
      BY <2>1 DEF Held, Running
    <2>3. s \in SlotsOf(Listed) =>
            s \notin paid /\ ~(Copies[s] > 1) /\ \A q \in Run : Running(q) => s \notin SlotsOf(Held(q))
      BY <1>2 DEF Start
    <2>4. Copies[s] \in Nat \ {0}
      BY CopiesAssumption
    <2>5. \A rw \in Listed : SlotOf(rw) = s => s \in SlotsOf(Listed)
      BY DEF SlotsOf
    <2>6. InGoodHands(s)
      BY <1>1, <1>2 DEF Start
    <2>7. \A q \in Run, rw \in Row : Running(q)' /\ rw \in Held(q)' /\ SlotOf(rw) = s => Copies[s] = 1
      BY <2>2, <2>3, <2>4, <2>5, <2>6 DEF InGoodHands
    <2>8. \A p, q \in Run :
            Running(p)' /\ Running(q)' /\ s \in SlotsOf(Held(p)') /\ s \in SlotsOf(Held(q)') => p = q
      BY <2>2, <2>3, <2>6 DEF InGoodHands
    <2>9. \A q \in Run : Running(q)' =>
            /\ \A rw \in todo'[q] : SlotOf(rw) = s => s \notin paid
            /\ pc'[q] \in {"credit", "grant", "mark"} /\ SlotOf(row[q]) = s => s \notin paid
            /\ pc'[q] # "next" /\ SlotOf(row[q]) = s => s \notin SlotsOf(todo'[q])
      BY <2>1, <2>2, <2>3, <2>5, <2>6 DEF InGoodHands
    <2>10. \A c \in credits : SlotOf(c[2]) = s =>
             s \in paid \/ (pc'[c[1]] \in {"grant", "mark"} /\ row[c[1]] = c[2])
      BY <1>0, <2>1, <2>6 DEF InGoodHands, TypeOK, Credit
    <2>11. \A c, d \in credits : SlotOf(c[2]) = s /\ SlotOf(d[2]) = s => c = d
      BY <2>6 DEF InGoodHands
    <2>12. QED
      BY <2>1, <2>7, <2>8, <2>9, <2>10, <2>11 DEF InGoodHands, SlotsOf
  <1>3. ASSUME NEW r \in Run, NEW rw \in Row, TakeRow(r, rw) PROVE InGoodHands(s)'
    <2>1. /\ pc[r] = "next" /\ pc'[r] \in {"credit", "markIneligible"}
          /\ rw \in todo[r] /\ todo'[r] = todo[r] \ {rw} /\ row'[r] = rw
          /\ \A q \in Run \ {r} : pc'[q] = pc[q] /\ todo'[q] = todo[q] /\ row'[q] = row[q]
          /\ UNCHANGED tables
      BY <1>0, <1>3 DEF TakeRow, TypeOK
    <2>2. InGoodHands(s)
      BY <1>1, <1>3 DEF TakeRow
    <2>3. Held(r) = todo[r] /\ Held(r)' = todo[r]
      BY <2>1 DEF Held
    <2>4. \A q \in Run : Held(q)' = Held(q) /\ Running(q)' = Running(q)
      BY <2>1, <2>3 DEF Held, Running
    <2>5. SlotOf(rw) = s => s \notin SlotsOf(todo'[r]) /\ s \notin paid
      BY <1>0, <2>1, <2>2, <2>3, OneRowPerSlot DEF InGoodHands, SlotsOf, TypeOK, Running
    <2>6. QED
      BY <1>0, <2>1, <2>2, <2>4, <2>5 DEF InGoodHands, SlotsOf, TypeOK, Credit
  <1>4. ASSUME NEW r \in Run, InsertCredit(r) PROVE InGoodHands(s)'
    <2>1. /\ pc[r] = "credit" /\ pc'[r] = "grant" /\ credits' = credits \cup {<<r, row[r]>>}
          /\ \A q \in Run \ {r} : pc'[q] = pc[q]
          /\ UNCHANGED <<paid, todo, row>>
      BY <1>0, <1>4 DEF InsertCredit, TypeOK
    <2>2. InGoodHands(s)
      BY <1>1, <1>4 DEF InsertCredit
    <2>3. \A q \in Run : Held(q)' = Held(q) /\ Running(q)' = Running(q)
      BY <2>1 DEF Held, Running
    <2>4. SlotOf(row[r]) = s => \A c \in credits : SlotOf(c[2]) # s
      BY <1>0, <2>1, <2>2 DEF InGoodHands, TypeOK, Credit, Held, SlotsOf, Running
    <2>5. QED
      BY <1>0, <2>1, <2>2, <2>3, <2>4 DEF InGoodHands, SlotsOf, TypeOK, Credit
  <1>5. ASSUME NEW r \in Run, InsertCreditGrant(r) PROVE InGoodHands(s)'
    <2>1. /\ pc[r] = "grant" /\ pc'[r] = "mark"
          /\ \A q \in Run \ {r} : pc'[q] = pc[q]
          /\ UNCHANGED <<paid, credits, todo, row>>
      BY <1>0, <1>5 DEF InsertCreditGrant, TypeOK
    <2>2. InGoodHands(s)
      BY <1>1, <1>5 DEF InsertCreditGrant
    <2>3. \A q \in Run : Held(q)' = Held(q) /\ Running(q)' = Running(q)
      BY <2>1 DEF Held, Running
    <2>4. QED
      BY <1>0, <2>1, <2>2, <2>3 DEF InGoodHands, SlotsOf, TypeOK, Credit
  <1>6. ASSUME NEW r \in Run, MarkHonorariumPaid(r) PROVE InGoodHands(s)'
    <2>1. /\ pc[r] \in {"mark", "markIneligible"} /\ pc'[r] = "next"
          /\ paid' = paid \cup {SlotOf(row[r])}
          /\ \A q \in Run \ {r} : pc'[q] = pc[q]
          /\ UNCHANGED <<credits, todo, row>>
      BY <1>0, <1>6 DEF MarkHonorariumPaid, TypeOK
    <2>2. InGoodHands(s)
      BY <1>1, <1>6 DEF MarkHonorariumPaid
    <2>3. /\ \A q \in Run : Running(q)' = Running(q)
          /\ Held(r) = todo[r] \cup {row[r]} /\ Held(r)' = todo[r]
          /\ \A q \in Run \ {r} : Held(q)' = Held(q)
      BY <2>1 DEF Held, Running
    <2>4. SlotOf(row[r]) = s => \A q \in Run : Running(q)' => s \notin SlotsOf(Held(q)')
      BY <2>1, <2>2, <2>3 DEF InGoodHands, SlotsOf, Running
    <2>5. \A q \in Run : \A rw \in Held(q)' : SlotOf(rw) \in SlotsOf(Held(q)')
      BY DEF SlotsOf
    <2>6. \A q \in Run : todo'[q] \subseteq Held(q)' /\
            (pc'[q] \in {"credit", "grant", "mark"} => row'[q] \in Held(q)')
      BY DEF Held
    <2>7. \A q \in Run, rw \in Row : Running(q)' /\ rw \in Held(q)' /\ SlotOf(rw) = s => Copies[s] = 1
      BY <2>2, <2>3 DEF InGoodHands
    <2>8. \A p, q \in Run :
            Running(p)' /\ Running(q)' /\ s \in SlotsOf(Held(p)') /\ s \in SlotsOf(Held(q)') => p = q
      BY <2>2, <2>3 DEF InGoodHands, SlotsOf
    <2>9. \A q \in Run : Running(q)' =>
            /\ \A rw \in todo'[q] : SlotOf(rw) = s => s \notin paid'
            /\ pc'[q] \in {"credit", "grant", "mark"} /\ SlotOf(row'[q]) = s => s \notin paid'
            /\ pc'[q] # "next" /\ SlotOf(row'[q]) = s => s \notin SlotsOf(todo'[q])
      BY <2>1, <2>2, <2>3, <2>4, <2>5, <2>6 DEF InGoodHands
    <2>10. \A c \in credits' : SlotOf(c[2]) = s =>
             s \in paid' \/ (pc'[c[1]] \in {"grant", "mark"} /\ row'[c[1]] = c[2])
      BY <1>0, <2>1, <2>2 DEF InGoodHands, TypeOK, Credit
    <2>11. \A c, d \in credits' : SlotOf(c[2]) = s /\ SlotOf(d[2]) = s => c = d
      BY <2>1, <2>2 DEF InGoodHands
    <2>12. QED
      BY <2>7, <2>8, <2>9, <2>10, <2>11 DEF InGoodHands, SlotsOf
  <1>7. ASSUME NEW r \in Run, RowFails(r) \/ Crash(r) \/ Finish(r) \/ StartFails(r) PROVE InGoodHands(s)'
    <2>1. /\ pc[r] \notin {"done"} /\ pc'[r] \in {"next", "done"} /\ (pc[r] = "idle" => pc'[r] = "done")
          /\ todo'[r] \subseteq todo[r]
          /\ \A q \in Run \ {r} : pc'[q] = pc[q] /\ todo'[q] = todo[q]
          /\ UNCHANGED <<paid, credits, row>>
      BY <1>0, <1>7 DEF RowFails, Crash, Finish, StartFails, TypeOK, Running
    <2>2. InGoodHands(s) /\ again \subseteq again'
      BY <1>1, <1>7 DEF RowFails, Crash, Finish, StartFails
    <2>3. pc[r] \in {"grant", "mark"} => SlotOf(row[r]) # s
      BY <1>7 DEF RowFails, Crash, Finish, StartFails, Unmarked
    <2>4. \A q \in Run : Held(q)' \subseteq Held(q) /\ (Running(q)' => Running(q))
      BY <2>1 DEF Held, Running
    <2>5. \A q \in Run : s \in SlotsOf(Held(q)') => s \in SlotsOf(Held(q))
      BY <2>4 DEF SlotsOf
    <2>6. \A q \in Run, rw \in Row : Running(q)' /\ rw \in Held(q)' /\ SlotOf(rw) = s => Copies[s] = 1
      BY <2>2, <2>4 DEF InGoodHands
    <2>7. \A p, q \in Run :
            Running(p)' /\ Running(q)' /\ s \in SlotsOf(Held(p)') /\ s \in SlotsOf(Held(q)') => p = q
      BY <2>2, <2>4, <2>5 DEF InGoodHands
    <2>8. \A q \in Run : Running(q)' =>
            /\ \A rw \in todo'[q] : SlotOf(rw) = s => s \notin paid'
            /\ pc'[q] \in {"credit", "grant", "mark"} /\ SlotOf(row'[q]) = s => s \notin paid'
            /\ pc'[q] # "next" /\ SlotOf(row'[q]) = s => s \notin SlotsOf(todo'[q])
      BY <2>1, <2>2, <2>4 DEF InGoodHands, Running
    <2>9. \A c \in credits' : SlotOf(c[2]) = s =>
             s \in paid' \/ (pc'[c[1]] \in {"grant", "mark"} /\ row'[c[1]] = c[2])
      BY <1>0, <2>1, <2>2, <2>3 DEF InGoodHands, TypeOK, Credit
    <2>10. \A c, d \in credits' : SlotOf(c[2]) = s /\ SlotOf(d[2]) = s => c = d
      BY <2>1, <2>2 DEF InGoodHands
    <2>11. QED
      BY <2>6, <2>7, <2>8, <2>9, <2>10 DEF InGoodHands, SlotsOf
  <1>8. ASSUME UNCHANGED <<paid, credits, runVars, again>> PROVE InGoodHands(s)'
    BY <1>1, <1>8 DEF InGoodHands, Running, Held, SlotsOf
  <1>9. ASSUME NEW t \in Slot, BecomesDue(t) \/ Replicate(t) \/ MarkNoShow(t) PROVE InGoodHands(s)'
    BY <1>8, <1>9 DEF BecomesDue, Replicate, MarkNoShow
  <1>10. CASE UNCHANGED vars \/ Quiet
    BY <1>8, <1>10 DEF vars, Quiet
  <1>11. QED
    BY <1>2, <1>3, <1>4, <1>5, <1>6, <1>7, <1>9, <1>10 DEF Next, RunStep, RunFault

\* A slot is credited twice only for a cause, for any number of slots and runs:
\* without lag, overlap, repeated rows and failures between a credit and its
\* mark, it is credited once.
THEOREM SecondCreditHasCause == Spec => []CreditedTwiceHasCause
  <1>1. Spec => []JobInv
    BY JobInit, JobStep, PTL DEF Spec
  <1>2. HandsInv => CreditedTwiceHasCause
    BY RowSlot DEF HandsInv, InGoodHands, CreditedTwiceHasCause, TypeOK, Credit
  <1>3. Spec => []HandsInv
    BY <1>1, HandsInit, HandsStep, PTL DEF Spec
  <1>4. QED
    BY <1>2, <1>3, PTL

-----------------------------------------------------------------------------
(* The pool: ConnectionPool.                                              *)

Places == {"idle", "waiting", "reading", "answered", "refused", "gone"}

QueryType == [kind : Kinds, at : Places, level : 0 .. 3, left : [Levels -> Nat], read : Nat]
QueryTypeOK == query \in [Query -> QueryType]
OwnerTypeOK ==
  /\ conns \subseteq Conn
  /\ owner \in [Conn -> [by : Query \cup {"nobody", "none"}, level : 0 .. 3]]

\* A query has one connection.
OneEach ==
  \A c, d \in Conn : owner[c].by \in Query /\ owner[c] = owner[d] => c = d

\* A connection in use is of a query that is open.
UsedIsOpen ==
  \A c \in Conn : owner[c].by \in Query => owner[c].level \in 1 .. query[owner[c].by].level

\* Who waits has yet to open the innermost query.
RoomToWait ==
  \A q \in Query :
    /\ query[q].at = "idle" => query[q].level = 0
    /\ query[q].at = "waiting" => query[q].level < Depth[query[q].kind]
    /\ query[q].at = "reading" => query[q].level \in 1 .. Depth[query[q].kind]

PoolIInv == QueryTypeOK /\ OwnerTypeOK /\ OneEach /\ UsedIsOpen /\ RoomToWait

\* The connections of a stuck pool are pairs of what requests may hold.
LEMMA StuckIsHeld == PoolIInv => StuckHasCause
<1> SUFFICES ASSUME PoolIInv, Stuck
             PROVE  Cardinality(conns) <= Cardinality(Holdable)
  BY DEF StuckHasCause
<1> DEFINE f == [c \in conns |-> <<owner[c].by, owner[c].level>>]
<1>1. ASSUME NEW c \in conns
      PROVE  <<owner[c].by, owner[c].level>> \in Holdable
  <2>1. owner[c].by \in Query /\ Waiting(owner[c].by) /\ c \in Conn
    BY DEF Stuck, PoolIInv, OwnerTypeOK
  <2> DEFINE q == owner[c].by
  <2>2. query[q].level < Depth[query[q].kind]
    BY <2>1 DEF PoolIInv, RoomToWait, Waiting
  <2>3. owner[c].level \in 1 .. query[q].level
    BY <2>1 DEF PoolIInv, UsedIsOpen
  <2>4. query[q].level \in 0 .. 3 /\ Depth[query[q].kind] \in 0 .. 3
    BY <2>1 DEF PoolIInv, QueryTypeOK, QueryType, Kinds, Depth
  <2>5. owner[c].level \in Levels /\ owner[c].level < Depth[query[q].kind]
    BY <2>2, <2>3, <2>4 DEF Levels
  <2> QED
    BY <2>1, <2>5 DEF Holdable
<1>2. ASSUME NEW c \in conns, NEW d \in conns, f[c] = f[d]
      PROVE  c = d
  <2>1. owner[c].by = owner[d].by /\ owner[c].level = owner[d].level
    BY <1>2
  <2>2. c \in Conn /\ d \in Conn /\ owner[c].by \in Query
    BY DEF Stuck, PoolIInv, OwnerTypeOK
  <2>3. owner[c] = owner[d]
    BY <2>1, <2>2 DEF PoolIInv, OwnerTypeOK
  <2> QED
    BY <2>2, <2>3 DEF PoolIInv, OneEach
<1>3. f \in Injection(conns, Holdable)
  BY <1>1, <1>2 DEF Injection, IsInjective
<1>4. IsFiniteSet(Holdable)
  <2>1. IsFiniteSet(Levels)
    <3>1. 1 \in Int /\ 3 \in Int
      OBVIOUS
    <3> QED
      BY <3>1, FS_Interval, Zenon DEF Levels
  <2>2. IsFiniteSet(Query \X Levels)
    BY <2>1, PoolAssumption, FS_Product
  <2>3. Holdable \in SUBSET (Query \X Levels)
    BY DEF Holdable
  <2> QED
    BY <2>2, <2>3, FS_Subset
<1> HIDE DEF f
<1> QED
  BY <1>3, <1>4, FS_Injection

\* At first every connection is free or not there.
LEMMA PoolInitially == PoolInit => PoolIInv
<1> SUFFICES ASSUME PoolInit PROVE PoolIInv
  OBVIOUS
<1>1. QueryTypeOK
  BY DEF PoolInit, QueryTypeOK, QueryType, NewQuery, Places, Levels
<1>2. OwnerTypeOK
  BY DEF PoolInit, OwnerTypeOK, Unused
<1>3. \A c \in Conn : owner[c].by \notin Query
  BY PoolAssumption DEF PoolInit, Unused
<1>4. RoomToWait
  BY DEF PoolInit, RoomToWait, NewQuery
<1> QED
  BY <1>1, <1>2, <1>3, <1>4 DEF PoolIInv, OneEach, UsedIsOpen

\* A query that is over gives back its connection and no other.
LEMMA CloseKeeps ==
  ASSUME PoolIInv, NEW q \in Query, NEW outcome \in {"answered", "refused"},
         query[q].at = "reading", Close(q, outcome)
  PROVE  PoolIInv'
<1> DEFINE l == query[q].level
<1>1. l \in 1 .. Depth[query[q].kind] /\ l \in 1 .. 3 /\ Depth[query[q].kind] \in 2 .. 3
  BY DEF PoolIInv, RoomToWait, QueryTypeOK, QueryType, Kinds, Depth
<1>2. /\ query' = [query EXCEPT ![q].level = l - 1, ![q].at = IF l = 1 THEN outcome ELSE "reading"]
      /\ conns' = conns
      /\ owner' = [c \in Conn |-> IF owner[c] = [by |-> q, level |-> l] THEN Unused ELSE owner[c]]
  BY DEF Close, Released
<1>3. QueryTypeOK'
  <2> DEFINE e == [query[q] EXCEPT !.level = l - 1, !.at = IF l = 1 THEN outcome ELSE "reading"]
  <2>1. query[q] \in QueryType /\ l - 1 \in 0 .. 3
    BY <1>1 DEF PoolIInv, QueryTypeOK, QueryType
  <2>2. e \in QueryType
    BY <2>1 DEF QueryType, Places
  <2>3. query' = [query EXCEPT ![q] = e]
    BY <1>2
  <2> QED
    BY <2>2, <2>3 DEF PoolIInv, QueryTypeOK, QueryType
<1>4. OwnerTypeOK'
  BY <1>2 DEF PoolIInv, OwnerTypeOK, Unused
<1>5. \A c \in Conn : owner'[c].by \in Query => owner'[c] = owner[c] /\ owner[c] # [by |-> q, level |-> l]
  BY <1>2, PoolAssumption DEF Unused
<1>6. OneEach'
  BY <1>5 DEF PoolIInv, OneEach
<1>7. ASSUME NEW p \in Query
      PROVE  /\ query'[p].kind = query[p].kind
             /\ p # q => query'[p] = query[p]
             /\ query'[q].level = l - 1 /\ query'[q].at = IF l = 1 THEN outcome ELSE "reading"
  BY <1>2 DEF PoolIInv, QueryTypeOK, QueryType
<1>8. ASSUME NEW c \in Conn, owner'[c].by \in Query
      PROVE  owner'[c].level \in 1 .. query'[owner'[c].by].level
  <2>1. owner'[c] = owner[c] /\ owner[c] # [by |-> q, level |-> l]
    BY <1>5, <1>8
  <2>2. owner[c].level \in 1 .. query[owner[c].by].level
    BY <1>8, <2>1 DEF PoolIInv, UsedIsOpen
  <2>3. CASE owner[c].by # q
    BY <1>7, <1>8, <2>1, <2>2, <2>3
  <2>4. CASE owner[c].by = q
    <3>1. owner[c].level # l
      BY <2>1, <2>4 DEF PoolIInv, OwnerTypeOK
    <3> QED
      BY <1>1, <1>7, <2>1, <2>2, <2>4, <3>1
  <2> QED
    BY <2>3, <2>4
<1>9. RoomToWait'
  BY <1>1, <1>7 DEF PoolIInv, RoomToWait
<1> QED
  BY <1>3, <1>4, <1>6, <1>8, <1>9 DEF PoolIInv, UsedIsOpen

\* Every step keeps the invariant.
LEMMA PoolSteps == PoolIInv /\ [PoolNext]_poolVars => PoolIInv'
<1> SUFFICES ASSUME PoolIInv, [PoolNext]_poolVars PROVE PoolIInv'
  OBVIOUS
<1>1. ASSUME NEW q \in Query, Begin(q)
      PROVE  PoolIInv'
  BY <1>1 DEF Begin, PoolIInv, QueryTypeOK, QueryType, OwnerTypeOK, OneEach, UsedIsOpen, RoomToWait, Places, Kinds, Depth
<1>2. ASSUME NEW q \in Query, NEW c \in Conn, Connect(q, c)
      PROVE  PoolIInv'
  <2> DEFINE l == query[q].level + 1
  <2>1. /\ owner' = [owner EXCEPT ![c] = [by |-> q, level |-> l]]
        /\ query' = [query EXCEPT ![q].at = "reading", ![q].level = l, ![q].left[l] = Rows]
        /\ conns' = conns
        /\ query[q].at = "waiting"
    BY <1>2 DEF Connect, Waiting
  <2>2. l \in 1 .. Depth[query[q].kind] /\ l \in 1 .. 3
    BY <2>1 DEF PoolIInv, RoomToWait, QueryTypeOK, QueryType, Kinds, Depth
  <2>3. QueryTypeOK'
    BY <2>1, <2>2, PoolAssumption DEF PoolIInv, QueryTypeOK, QueryType, Places, Levels
  <2>4. OwnerTypeOK'
    BY <2>1, <2>2 DEF PoolIInv, OwnerTypeOK
  <2>5. /\ owner'[c] = [by |-> q, level |-> l]
        /\ \A d \in Conn \ {c} : owner'[d] = owner[d]
    BY <2>1 DEF PoolIInv, OwnerTypeOK
  <2>6. \A d \in Conn : owner[d] # [by |-> q, level |-> l]
    BY <2>2 DEF PoolIInv, UsedIsOpen, QueryTypeOK, QueryType
  <2>7. OneEach'
    BY <2>5, <2>6 DEF PoolIInv, OneEach
  <2>8. /\ query'[q].level = l /\ query'[q].at = "reading" /\ query'[q].kind = query[q].kind
        /\ \A p \in Query \ {q} : query'[p] = query[p]
    BY <2>1 DEF PoolIInv, QueryTypeOK, QueryType
  <2>9. ASSUME NEW d \in Conn, owner'[d].by \in Query
        PROVE  owner'[d].level \in 1 .. query'[owner'[d].by].level
    <3>1. CASE d = c
      BY <2>2, <2>5, <2>8, <3>1
    <3>2. CASE d # c
      <4>1. owner'[d] = owner[d] /\ owner[d].level \in 1 .. query[owner[d].by].level
        BY <2>5, <2>9, <3>2 DEF PoolIInv, UsedIsOpen
      <4>2. query[q].level \in 0 .. 3
        BY DEF PoolIInv, QueryTypeOK, QueryType
      <4> QED
        BY <2>8, <2>9, <4>1, <4>2
    <3> QED
      BY <3>1, <3>2
  <2>10. RoomToWait'
    BY <2>2, <2>8 DEF PoolIInv, RoomToWait
  <2> QED
    BY <2>3, <2>4, <2>7, <2>9, <2>10 DEF PoolIInv, UsedIsOpen
<1>3. ASSUME NEW q \in Query, NextRow(q)
      PROVE  PoolIInv'
  <2> DEFINE l == query[q].level
  <2>1. l \in 1 .. Depth[query[q].kind] /\ l \in Levels
    BY <1>3 DEF NextRow, PoolIInv, RoomToWait, QueryTypeOK, QueryType, Levels
  <2>2. /\ query' = [query EXCEPT ![q].left[l] = @ - 1, ![q].read = @ + 1,
                                  ![q].at = IF Deepest(q) THEN "reading" ELSE "waiting"]
        /\ query[q].left[l] > 0
        /\ UNCHANGED <<conns, owner>>
    BY <1>3 DEF NextRow
  <2>3. QueryTypeOK'
    BY <2>1, <2>2 DEF PoolIInv, QueryTypeOK, QueryType, Places
  <2>4. /\ query'[q].level = l /\ query'[q].kind = query[q].kind
        /\ query'[q].at = IF Deepest(q) THEN "reading" ELSE "waiting"
        /\ \A p \in Query \ {q} : query'[p] = query[p]
    BY <2>2 DEF PoolIInv, QueryTypeOK, QueryType
  <2>5. RoomToWait'
    BY <2>1, <2>4 DEF PoolIInv, RoomToWait, Deepest, QueryTypeOK, QueryType, Kinds, Depth
  <2>6. OwnerTypeOK' /\ OneEach' /\ UsedIsOpen'
    BY <2>2, <2>4 DEF PoolIInv, OwnerTypeOK, OneEach, UsedIsOpen
  <2> QED
    BY <2>3, <2>5, <2>6 DEF PoolIInv
<1>4. ASSUME NEW q \in Query, EndRows(q)
      PROVE  PoolIInv'
  BY <1>4, CloseKeeps DEF EndRows
<1>5. ASSUME NEW q \in Query, LoseConnection(q)
      PROVE  PoolIInv'
  BY <1>5, CloseKeeps DEF LoseConnection
<1>6. ASSUME NEW q \in Query, QueryFails(q)
      PROVE  PoolIInv'
  <2>1. /\ query' = [query EXCEPT ![q].at = IF query[q].level = 0
                                            THEN IF query[q].kind = "types" THEN "refused" ELSE "answered"
                                            ELSE "reading"]
        /\ UNCHANGED <<conns, owner>>
        /\ query[q].at = "waiting"
    BY <1>6 DEF QueryFails, Waiting
  <2>2. QueryTypeOK'
    BY <2>1 DEF PoolIInv, QueryTypeOK, QueryType, Places
  <2>3. /\ query'[q].level = query[q].level /\ query'[q].kind = query[q].kind
        /\ query'[q].at \in {"refused", "answered", "reading"}
        /\ query'[q].at = "reading" => query[q].level # 0
        /\ \A p \in Query \ {q} : query'[p] = query[p]
    BY <2>1 DEF PoolIInv, QueryTypeOK, QueryType
  <2>4. query[q].level \in 0 .. 3 /\ query[q].level < Depth[query[q].kind] /\ Depth[query[q].kind] \in 2 .. 3
    BY <2>1 DEF PoolIInv, QueryTypeOK, QueryType, RoomToWait, Kinds, Depth
  <2>5. RoomToWait'
    BY <2>3, <2>4 DEF PoolIInv, RoomToWait
  <2>6. OwnerTypeOK' /\ OneEach' /\ UsedIsOpen'
    BY <2>1, <2>3 DEF PoolIInv, OwnerTypeOK, OneEach, UsedIsOpen
  <2> QED
    BY <2>2, <2>5, <2>6 DEF PoolIInv
<1>7. ASSUME NEW q \in Query, GiveUp(q)
      PROVE  PoolIInv'
  <2>1. \A c \in Conn : owner'[c].by \in Query => owner'[c] = owner[c] /\ owner[c].by # q
    BY <1>7, PoolAssumption DEF GiveUp, Unused
  <2>2. QueryTypeOK'
    <3> DEFINE e == [query[q] EXCEPT !.at = "gone", !.level = 0]
    <3>1. e \in QueryType
      <4>1. query[q] \in QueryType /\ 0 \in 0 .. 3 /\ "gone" \in Places
        BY DEF PoolIInv, QueryTypeOK, Places
      <4> QED
        BY <4>1 DEF QueryType
    <3>2. query' = [query EXCEPT ![q] = e]
      BY <1>7 DEF GiveUp
    <3> QED
      BY <3>1, <3>2 DEF PoolIInv, QueryTypeOK, QueryType
  <2>3. OwnerTypeOK'
    BY <1>7 DEF GiveUp, PoolIInv, OwnerTypeOK, Unused
  <2>4. query'[q].at = "gone" /\ \A p \in Query \ {q} : query'[p] = query[p]
    BY <1>7 DEF GiveUp, PoolIInv, QueryTypeOK, QueryType
  <2>5. OneEach' /\ UsedIsOpen' /\ RoomToWait'
    BY <2>1, <2>4 DEF PoolIInv, OneEach, UsedIsOpen, RoomToWait
  <2> QED
    BY <2>2, <2>3, <2>5 DEF PoolIInv
<1>8. CASE UNCHANGED poolVars
  BY <1>8 DEF poolVars, PoolIInv, QueryTypeOK, QueryType, OwnerTypeOK, OneEach, UsedIsOpen, RoomToWait
<1> QED
  BY <1>1, <1>2, <1>3, <1>4, <1>5, <1>6, <1>7, <1>8 DEF PoolNext, Answering

\* A pool is stuck only if it has no more connections than the requests that
\* wait have queries around their innermost one (GetAllQuestionTypes and
\* GetProjectInquiryCrowds), for any pool, requests and faults.
THEOREM StuckPools == PoolSpec => []StuckHasCause
BY PoolInitially, PoolSteps, StuckIsHeld, PTL DEF PoolSpec
=============================================================================
