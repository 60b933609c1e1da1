------------------------------ MODULE Reminders ------------------------------
(***************************************************************************)
(* The reminders that an interviewee gets shortly before an interview.     *)
(* Every minute each process of the server looks for interviews that start *)
(* between 28 and 32 minutes from now, ends included, and writes to each   *)
(* interviewee; nothing records that it has.  A minute's run may read the  *)
(* clock a second late.  One interview of IRIS is followed: the legacy     *)
(* application sets and moves it, and MarkNoShow or that application may   *)
(* end its being pending, at any time.                                     *)
(***************************************************************************)
EXTENDS Integers, FiniteSets

CONSTANTS
  Server,          \* processes that run the job
  Ahead,           \* minutes ahead that an interview is set for
  LastMove,        \* bound: times it is set
  ReminderFaults   \* "run": a run or its e-mail fails, or the process is down

ASSUME ReminderAssumption == IsFiniteSet(Server) /\ Ahead \subseteq Nat

Nearest == 28
Furthest == 32
None == -1

VARIABLES
  minutes,   \* minutes until the interview starts, None when it is not pending
  waiting,   \* processes that have not run this minute
  moves,     \* times it was set
  sent,      \* history: reminders sent for the time it is set for
  setAt,     \* history: minutes ahead it was set
  ran,       \* history: a process has run this minute
  lost       \* history: minutes of its window in which no process wrote

reminderVars == <<minutes, waiting, moves, sent, setAt, ran, lost>>

ReminderInit ==
  /\ minutes = None
  /\ waiting = {}
  /\ moves = 0
  /\ sent = 0
  /\ setAt = 0
  /\ ran = TRUE
  /\ lost = 0

\* Mutant: only the thirtieth minute counts, as the job's name has it.
InWindow_Exact(late) == minutes = 30 /\ late = 0

\* time_slot.start_time BETWEEN the two, for a clock that is `late' seconds late.
InWindow(late) == minutes <= Furthest /\ 60 * minutes - late >= 60 * Nearest

\* Set, or moved, between the runs of two minutes: reminders for the old time are void.
SetInterview(m) ==
  /\ waiting = {}
  /\ moves < LastMove
  /\ moves' = moves + 1
  /\ minutes' = m
  /\ setAt' = m
  /\ sent' = 0
  /\ lost' = 0
  /\ ran' = TRUE
  /\ UNCHANGED waiting

\* No longer pending: the status has changed.
CallOff ==
  /\ waiting = {}
  /\ minutes # None
  /\ minutes' = None
  /\ UNCHANGED <<waiting, moves, sent, setAt, ran, lost>>

\* remindInterviewees30MinBefore, in one process.
Remind(p) ==
  /\ p \in waiting
  /\ waiting' = waiting \ {p}
  /\ \E late \in {0, 1} : sent' = IF InWindow(late) THEN sent + 1 ELSE sent
  /\ ran' = TRUE
  /\ UNCHANGED <<minutes, moves, setAt, lost>>

\* The query fails or its replica does not show the interview yet, the e-mail is
\* refused, or the process is down: nobody tries again.
RemindFails(p) ==
  /\ "run" \in ReminderFaults
  /\ p \in waiting
  /\ waiting' = waiting \ {p}
  /\ UNCHANGED <<minutes, moves, sent, setAt, ran, lost>>

\* The next minute.
NextMinute ==
  /\ waiting = {}
  /\ minutes' = IF minutes > 0 THEN minutes - 1 ELSE None
  /\ lost' = IF ~ran /\ minutes \in Nearest + 1 .. Furthest THEN lost + 1 ELSE lost
  /\ waiting' = Server
  /\ ran' = FALSE
  /\ UNCHANGED <<moves, sent, setAt>>

ReminderNext ==
  \/ \E m \in Ahead : SetInterview(m)
  \/ CallOff \/ NextMinute
  \/ \E p \in Server : Remind(p) \/ RemindFails(p)

ReminderSpec == ReminderInit /\ [][ReminderNext]_reminderVars

-----------------------------------------------------------------------------
Lesser(a, b) == IF a < b THEN a ELSE b

\* An interview begins without a reminder only if for every minute that was left
\* of its window when it was set, but for the last, which a late clock can miss,
\* every process failed; and nobody is written to more than five times by each
\* process, which writes anew every minute.
RemindersMatchRuns ==
  /\ minutes = 0 /\ sent = 0 => lost >= Lesser(setAt - 1, Furthest) - Nearest
  /\ sent <= 5 * Cardinality(Server)
=============================================================================
