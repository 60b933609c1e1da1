---------------------------- MODULE CalendarWatch ----------------------------
(***************************************************************************)
(* The push watch through which Google Calendar tells the server of        *)
(* events.  A watch lasts 21 days; a job renews it by the day of the month *)
(* (every 20th, so on the 1st and the 21st) in every process of the        *)
(* server: it registers a new watch, withdraws the one it has read of from *)
(* a replica that lags, and stores the new one.                            *)
(***************************************************************************)
EXTENDS Naturals

CONSTANTS
  Renewer,      \* processes that run the job
  WatchId,      \* ids of watches, used again when nothing holds them
  MonthLengths, \* the lengths of months
  WatchFaults   \* "call", "store": a call to the calendar, or the insert, fails

Lasts == 21
\* The days that "*/20" stands for in the field of days.
RenewalDays == {1, 21}

\* Months as they are; somebody's id is there to begin with.
ASSUME WatchAssumption == MonthLengths \subseteq 28 .. 31 /\ WatchId # {}

VARIABLES
  day,      \* of the month
  month,    \* its length
  watches,  \* Google's: the days that each live watch has left
  stored,   \* the watch in the last row of calendar_push_watch
  copy,     \* that row in the replica
  renewal,  \* where each process's run is
  since,    \* history: days since a watch was last registered
  lapsed    \* history: on a day for renewal none was registered

watchVars == <<day, month, watches, stored, copy, renewal, since, lapsed>>

WatchInit ==
  /\ day = 1
  /\ month \in MonthLengths
  /\ stored = CHOOSE w \in WatchId : TRUE
  /\ copy = stored
  /\ watches = [w \in {stored} |-> Lasts]
  /\ renewal = [p \in Renewer |-> [at |-> "due"]]
  /\ since = 0
  /\ lapsed = FALSE

RenewalMoves(p, to) == renewal' = [renewal EXCEPT ![p] = to]
KnownIds == DOMAIN watches \cup {stored, copy}
            \cup UNION {{renewal[p].new, renewal[p].old} : p \in {q \in Renewer : renewal[q].at \in {"withdraw", "store"}}}

CopyRow ==
  /\ copy # stored
  /\ copy' = stored
  /\ UNCHANGED <<day, month, watches, stored, renewal, since, lapsed>>

\* Mutant: the old watch goes even if no new one could be registered.
RegisterFails_Withdraws(p) ==
  /\ "call" \in WatchFaults
  /\ renewal[p].at = "due"
  /\ watches' = [w \in DOMAIN watches \ {copy} |-> watches[w]]
  /\ RenewalMoves(p, [at |-> "idle"])
  /\ UNCHANGED <<day, month, stored, copy, since, lapsed>>

\* The row is read, and a watch registered.  Bound: an id is free.
Register(p) ==
  LET new == CHOOSE w \in WatchId : w \notin KnownIds
  IN /\ renewal[p].at = "due"
     /\ \E w \in WatchId : w \notin KnownIds
     /\ watches' = [w \in DOMAIN watches \cup {new} |-> IF w = new THEN Lasts ELSE watches[w]]
     /\ since' = 0
     /\ RenewalMoves(p, [at |-> "withdraw", new |-> new, old |-> copy])
     /\ UNCHANGED <<day, month, stored, copy, lapsed>>

\* Without a new watch the old one is left alone; a process that is down for the
\* day does as much.
RegisterFails(p) ==
  /\ "call" \in WatchFaults
  /\ renewal[p].at = "due"
  /\ RenewalMoves(p, [at |-> "idle"])
  /\ UNCHANGED <<day, month, watches, stored, copy, since, lapsed>>

\* The watch it read of goes, if it is still there; a failure is passed over.
Withdraw(p) ==
  /\ renewal[p].at = "withdraw"
  /\ watches' \in {[w \in DOMAIN watches \ {renewal[p].old} |-> watches[w]]}
                  \cup IF "call" \in WatchFaults THEN {watches} ELSE {}
  /\ RenewalMoves(p, [renewal[p] EXCEPT !.at = "store"])
  /\ UNCHANGED <<day, month, stored, copy, since, lapsed>>

\* UpdateCalendarWatch inserts a row; if it fails no row tells of the new watch.
StoreWatch(p) ==
  /\ renewal[p].at = "store"
  /\ stored' \in {renewal[p].new} \cup IF "store" \in WatchFaults THEN {stored} ELSE {}
  /\ RenewalMoves(p, [at |-> "idle"])
  /\ UNCHANGED <<day, month, watches, copy, since, lapsed>>

UntilRenewal == IF day < 21 THEN 21 - day ELSE month + 1 - day

\* Days pass, as many as bring the next renewal or the next end of a watch; a run
\* is over within its day.
DaysPass ==
  /\ \A p \in Renewer : renewal[p].at = "idle"
  /\ \E d \in 1 .. UntilRenewal :
       /\ \A w \in DOMAIN watches : d <= watches[w]
       /\ d = UntilRenewal \/ \E w \in DOMAIN watches : d = watches[w]
       /\ day' = IF day + d > month THEN 1 ELSE day + d
       /\ IF day + d > month THEN month' \in MonthLengths ELSE UNCHANGED month
       /\ watches' = [w \in {x \in DOMAIN watches : watches[x] > d} |-> watches[w] - d]
       /\ since' = IF since + d < Lasts THEN since + d ELSE Lasts
  /\ lapsed' = (lapsed \/ (day \in RenewalDays /\ since # 0))
  /\ renewal' = [p \in Renewer |-> [at |-> IF day' \in RenewalDays THEN "due" ELSE "idle"]]
  /\ UNCHANGED <<stored, copy>>

WatchNext ==
  \/ CopyRow
  \/ \E p \in Renewer : Register(p) \/ RegisterFails(p) \/ Withdraw(p) \/ StoreWatch(p)
  \/ DaysPass

WatchSpec == WatchInit /\ [][WatchNext]_watchVars

-----------------------------------------------------------------------------
\* The calendar is unwatched only when for 21 days nobody could register a watch,
\* which takes a day for renewal on which every run failed or was missed: months
\* of any length, renewals that read an old row, that cannot withdraw or cannot
\* store, and processes that renew at once leave no gap.
UnwatchedHasCause == DOMAIN watches = {} => since = Lasts /\ lapsed
=============================================================================
