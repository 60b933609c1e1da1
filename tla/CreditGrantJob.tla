--------------------------- MODULE CreditGrantJob ---------------------------
(***************************************************************************)
(* The IssueQualHonorarium job pays IRIS interviews a day after they took  *)
(* place.  A run reads the payable slots from the read-only replica, then  *)
(* handles the rows one by one, with a statement of its own for the        *)
(* credit, the credit_grant and the slot's honorarium_paid mark: no        *)
(* transaction joins them and no run excludes another (the scheduler       *)
(* starts every tick in a goroutine, and so does every other server with   *)
(* jobs enabled).  Meanwhile a slot can be marked a no-show, which stops   *)
(* its payment.                                                            *)
(***************************************************************************)
EXTENDS Naturals

CONSTANTS
  Run,         \* executions of the job
  Slot,        \* time slots with a promised honorarium
  Ineligible,  \* those not to be credited: no responder, no rewards, amount 0
  Copies,      \* how many rows the query's joins return for each slot
  NoCredit,    \* the credit_id 0
  Overlap,     \* runs may overlap
  Lag,         \* the replica may be behind the primary
  Faults       \* what may fail: "query", "insert", "mark", "crash"

ASSUME IneligibleAssumption == Ineligible \subseteq Slot
ASSUME CopiesAssumption == Copies \in [Slot -> Nat \ {0}]
ASSUME SwitchesAssumption == Overlap \in BOOLEAN /\ Lag \in BOOLEAN
ASSUME JobFaultsAssumption == Faults \subseteq {"query", "insert", "mark", "crash"}

Row == UNION {{s} \X (1 .. Copies[s]) : s \in Slot}
Credit == Run \X Row
ASSUME NoCreditAssumption == NoCredit \notin Credit

VARIABLES
  due,      \* slots that started more than a day ago
  paid,     \* honorarium_paid = 1 on the primary
  stopped,  \* stop_payment = 1 on the primary
  status,   \* status_id of each slot
  creditId, \* credit_id of each slot
  replica,  \* the slots the replica shows as paid or stopped
  credits,  \* rows of credit, each inserted by a run for a row it read
  grants,   \* credits that have their credit_grant
  pc,       \* where each run is
  todo,     \* the rows it has still to handle
  row,      \* the row it is handling
  again,    \* history: slots listed, or left, by a run so that they are credited again
  failed    \* history: slots of which a statement, or the run, failed

tables == <<paid, stopped, status, creditId, credits, grants>>
runVars == <<pc, todo, row>>
jobHistory == <<again, failed>>
vars == <<due, tables, replica, runVars, jobHistory>>

Running(r) == pc[r] \notin {"idle", "done"}
SlotOf(rw) == rw[1]

\* The rows a run has taken up or has still to handle.
Held(r) == todo[r] \cup IF pc[r] \in {"credit", "grant", "mark", "markIneligible"} THEN {row[r]} ELSE {}
SlotsOf(rows) == {SlotOf(rw) : rw \in rows}

Init ==
  /\ due = {} /\ paid = {} /\ stopped = {} /\ replica = {}
  /\ status = [s \in Slot |-> "scheduled"]
  /\ creditId = [s \in Slot |-> NoCredit]
  /\ credits = {} /\ grants = {}
  /\ pc = [r \in Run |-> "idle"]
  /\ todo = [r \in Run |-> {}]
  /\ \E rw \in Row : row = [r \in Run |-> rw]
  /\ again = {} /\ failed = {}

\* A day has passed since the interview.
BecomesDue(s) ==
  /\ s \notin due
  /\ due' = due \cup {s}
  /\ UNCHANGED <<tables, replica, runVars, jobHistory>>

\* The replica catches up with the slot.
Replicate(s) ==
  /\ s \in (paid \cup stopped) \ replica
  /\ replica' = replica \cup {s}
  /\ UNCHANGED <<due, tables, runVars, jobHistory>>

\* PUT /selfservice/project/:pid/timeslot/:tid marks a no-show.
MarkNoShow(s) ==
  /\ s \notin stopped
  /\ stopped' = stopped \cup {s}
  /\ status' = [status EXCEPT ![s] = "noShow"]
  /\ UNCHANGED <<due, paid, creditId, credits, grants, replica, runVars, jobHistory>>

-----------------------------------------------------------------------------
Hidden == IF Lag THEN replica ELSE paid \cup stopped
Listed == {rw \in Row : SlotOf(rw) \in due \ Hidden}

\* A tick starts a run, which reads the payable slots.
Start(r) ==
  /\ pc[r] = "idle"
  /\ Overlap \/ \A q \in Run : ~Running(q)
  /\ todo' = [todo EXCEPT ![r] = Listed]
  /\ pc' = [pc EXCEPT ![r] = "next"]
  /\ again' = again \cup {s \in SlotsOf(Listed) :
                 s \in paid \/ Copies[s] > 1 \/ \E q \in Run : Running(q) /\ s \in SlotsOf(Held(q))}
  /\ UNCHANGED <<due, tables, replica, row, failed>>

StartFails(r) ==
  /\ "query" \in Faults
  /\ pc[r] = "idle"
  /\ Overlap \/ \A q \in Run : ~Running(q)
  /\ pc' = [pc EXCEPT ![r] = "done"]
  /\ failed' = failed \cup due
  /\ UNCHANGED <<due, tables, replica, todo, row, again>>

\* An ineligible slot is only marked; the others are credited first.
TakeRow(r, rw) ==
  /\ pc[r] = "next" /\ rw \in todo[r]
  /\ row' = [row EXCEPT ![r] = rw]
  /\ todo' = [todo EXCEPT ![r] = @ \ {rw}]
  /\ pc' = [pc EXCEPT ![r] = IF SlotOf(rw) \in Ineligible THEN "markIneligible" ELSE "credit"]
  /\ UNCHANGED <<due, tables, replica, jobHistory>>

InsertCredit(r) ==
  /\ pc[r] = "credit"
  /\ credits' = credits \cup {<<r, row[r]>>}
  /\ pc' = [pc EXCEPT ![r] = "grant"]
  /\ UNCHANGED <<due, paid, stopped, status, creditId, grants, replica, todo, row, jobHistory>>

InsertCreditGrant(r) ==
  /\ pc[r] = "grant"
  /\ grants' = grants \cup {<<r, row[r]>>}
  /\ pc' = [pc EXCEPT ![r] = "mark"]
  /\ UNCHANGED <<due, paid, stopped, status, creditId, credits, replica, todo, row, jobHistory>>

\* Mutant: the update has lost its "honorarium_paid = 1".
MarkHonorariumPaid_NotPaid(r) ==
  /\ pc[r] \in {"mark", "markIneligible"}
  /\ LET s == SlotOf(row[r]) IN
       /\ status' = [status EXCEPT ![s] = "completed"]
       /\ creditId' = [creditId EXCEPT ![s] =
                         IF pc[r] = "mark" THEN <<r, row[r]>> ELSE NoCredit]
  /\ pc' = [pc EXCEPT ![r] = "next"]
  /\ UNCHANGED <<due, paid, stopped, credits, grants, replica, todo, row, jobHistory>>

\* The update is unconditional: it makes the slot paid and completed whatever
\* has become of it.
MarkHonorariumPaid(r) ==
  /\ pc[r] \in {"mark", "markIneligible"}
  /\ LET s == SlotOf(row[r]) IN
       /\ paid' = paid \cup {s}
       /\ status' = [status EXCEPT ![s] = "completed"]
       /\ creditId' = [creditId EXCEPT ![s] =
                         IF pc[r] = "mark" THEN <<r, row[r]>> ELSE NoCredit]
  /\ pc' = [pc EXCEPT ![r] = "next"]
  /\ UNCHANGED <<due, stopped, credits, grants, replica, todo, row, jobHistory>>

\* Mutant: the error of GrantCredit is logged, and the slot marked all the same.
RowFails_Ignored(r) ==
  /\ "insert" \in Faults /\ pc[r] \in {"credit", "grant"}
  /\ pc' = [pc EXCEPT ![r] = "mark"]
  /\ UNCHANGED <<due, tables, replica, todo, row, jobHistory>>

\* What a run that stops here leaves credited and not marked paid.
Unmarked(r) == IF pc[r] \in {"grant", "mark"} THEN {SlotOf(row[r])} ELSE {}

\* A statement fails: the error is logged and the run goes on with the next
\* row; what has been inserted stays.
RowFails(r) ==
  /\ \/ "insert" \in Faults /\ pc[r] \in {"credit", "grant"}
     \/ "mark" \in Faults /\ pc[r] \in {"mark", "markIneligible"}
  /\ pc' = [pc EXCEPT ![r] = "next"]
  /\ again' = again \cup Unmarked(r)
  /\ failed' = failed \cup {SlotOf(row[r])}
  /\ UNCHANGED <<due, tables, replica, todo, row>>

\* Mutant: the run ends at any row.
Finish_Early(r) ==
  /\ pc[r] = "next"
  /\ pc' = [pc EXCEPT ![r] = "done"]
  /\ UNCHANGED <<due, tables, replica, todo, row, jobHistory>>

Finish(r) ==
  /\ pc[r] = "next" /\ todo[r] = {}
  /\ pc' = [pc EXCEPT ![r] = "done"]
  /\ UNCHANGED <<due, tables, replica, todo, row, jobHistory>>

\* The server stops in the middle of a run: nothing waits for the jobs.
Crash(r) ==
  /\ "crash" \in Faults
  /\ Running(r)
  /\ pc' = [pc EXCEPT ![r] = "done"]
  /\ todo' = [todo EXCEPT ![r] = {}]
  /\ again' = again \cup Unmarked(r)
  /\ failed' = failed \cup SlotsOf(Held(r))
  /\ UNCHANGED <<due, tables, replica, row>>

RunStep(r) ==
  \/ Start(r)
  \/ \E rw \in Row : TakeRow(r, rw)
  \/ InsertCredit(r) \/ InsertCreditGrant(r) \/ MarkHonorariumPaid(r)
  \/ Finish(r)

RunFault(r) == StartFails(r) \/ RowFails(r) \/ Crash(r)

\* Every run of the model has ended and the tables are at rest.
Quiet ==
  /\ \A r \in Run : pc[r] = "done"
  /\ due = Slot /\ stopped = Slot /\ replica = Slot
  /\ UNCHANGED vars

Next ==
  \/ \E r \in Run : RunStep(r) \/ RunFault(r)
  \/ \E s \in Slot : BecomesDue(s) \/ Replicate(s) \/ MarkNoShow(s)
  \/ Quiet

Spec == Init /\ [][Next]_vars

\* The scheduler starts every run at its tick, and a run goes on.
FairSpec == Spec /\ \A r \in Run : WF_vars(RunStep(r))

-----------------------------------------------------------------------------
(* Properties *)

TypeOK ==
  /\ due \subseteq Slot /\ paid \subseteq Slot /\ stopped \subseteq Slot
  /\ replica \subseteq paid \cup stopped
  /\ status \in [Slot -> {"scheduled", "noShow", "completed"}]
  /\ creditId \in [Slot -> Credit \cup {NoCredit}]
  /\ credits \subseteq Credit /\ grants \subseteq credits
  /\ pc \in [Run -> {"idle", "next", "credit", "grant", "mark", "markIneligible", "done"}]
  /\ todo \in [Run -> SUBSET Row]
  /\ row \in [Run -> Row]
  /\ again \subseteq Slot /\ failed \subseteq Slot

\* A slot that is marked paid names a credit that was granted for it, unless
\* it was not to be credited: whatever fails, and however runs overlap, no
\* participant is recorded as paid without the money.
PaidNamesItsCredit ==
  \A s \in paid :
    IF s \in Ineligible THEN creditId[s] = NoCredit
    ELSE creditId[s] \in grants /\ SlotOf(creditId[s][2]) = s

\* A slot is credited twice only if a run listed it that the replica still
\* showed as unpaid, or that another run was about to handle, or that the query
\* returned twice; or a run credited it and failed, or ended, before its mark.
CreditedTwiceHasCause ==
  \A c, d \in credits : SlotOf(c[2]) = SlotOf(d[2]) => c = d \/ SlotOf(c[2]) \in again

\* A slot that is due when a run is still to come is paid, or has its payment
\* stopped, unless a statement of its own or its run fails: no slot starves
\* behind the failures of the others.
PaidByNextRun ==
  \A s \in Slot, r \in Run :
    s \in due /\ pc[r] = "idle" ~> s \in paid \cup stopped \cup failed
=============================================================================
