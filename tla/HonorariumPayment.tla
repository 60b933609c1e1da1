-------------------------- MODULE HonorariumPayment --------------------------
(***************************************************************************)
(* The payment of QS interviews: POST /time-slot-payments inserts PENDING  *)
(* rows into time_slot_payment_history and processes them in a transaction *)
(* that calls the Credit-Rewards Lambda before it commits; concurrently    *)
(* POST /interview/invalidate marks an interview invalid unless its        *)
(* payment is COMPLETED, and a project manager changes the honorarium.     *)
(*                                                                         *)
(* A request inserts at most one row per slot, so a row is named by the    *)
(* request and the slot it belongs to.  The rows a transaction changes are *)
(* visible to others when it commits; the locks of SELECT ... FOR UPDATE   *)
(* (InnoDB next-key locks under the default isolation level) keep the rows *)
(* of the slots it named, and inserts of further ones, waiting until then. *)
(***************************************************************************)
CONSTANTS
  Request,          \* calls of POST /time-slot-payments
  Invalidation,     \* calls of POST /interview/invalidate
  Slot,             \* time slots
  Amount,           \* honorarium amounts
  NoRequest,        \* no request: the slot's rows are not locked
  LambdaConfigured, \* the Lambda client is configured
  Faults            \* what may go wrong around the handlers

FaultKinds == {"insert", "tx", "refused", "lostReply", "functionError",
               "commit", "commitReply", "cancel", "crash", "query"}

ASSUME NoRequestAssumption == NoRequest \notin Request
ASSUME LambdaAssumption == LambdaConfigured \in BOOLEAN
ASSUME FaultsAssumption == Faults \subseteq FaultKinds

VARIABLES
  history,    \* committed payment_status of each row, "none" if there is none
  lock,       \* the request whose transaction has the slot's rows locked
  honorarium, \* the amount a slot is to be paid (custom, else default)
  pc,         \* where each payment request is
  slots,      \* its slots, those of the rows it inserts
  todo,       \* the slots it has still to insert a row for
  amount,     \* the amounts it read, which it inserts and sends to the Lambda
  winner,     \* in its transaction: the request whose row each slot completes
  chosen,     \* in its transaction: the slots it marks COMPLETED and credits
  credited,   \* <<request, slot>> for which the Lambda has sent money
  lost,       \* requests that called the Lambda and did not learn the outcome
  inflight,   \* those whose Lambda may still be running
  invalid,    \* slots with is_invalidated_interview = 1
  ipc,        \* where each invalidation is
  islot,      \* the slot it is about
  project     \* status of the slots' project

payVars == <<pc, slots, todo, amount, winner, chosen>>
invVars == <<invalid, ipc, islot, project>>
vars == <<history, lock, honorarium, payVars, credited, lost, inflight, invVars>>

Status == {"none", "PENDING", "COMPLETED", "CANCELED", "FAILED"}
PayPC == {"idle", "insert", "select", "lambda", "commit", "rollback", "fail",
          "paid", "failed", "ended", "crashed"}
InvalidationPC == {"idle", "loaded", "checked", "updated", "refused", "failed", "invalidated"}
ProjectStatus == {"InProgress", "Completed"}

\* The steps of a payment request during which it is in a transaction that
\* holds locks.
InTx(r) == pc[r] \in {"lambda", "commit", "rollback"}
Ended(r) == pc[r] \in {"paid", "failed", "ended", "crashed"}

RowsWith(st, s) == {q \in Request : history[q][s] = st}
HasCompletedPayment(s) == \E q \in Request : history[q][s] = "COMPLETED"

Init ==
  /\ history = [r \in Request |-> [s \in Slot |-> "none"]]
  /\ lock = [s \in Slot |-> NoRequest]
  /\ honorarium \in [Slot -> Amount]
  /\ pc = [r \in Request |-> "idle"]
  /\ slots = [r \in Request |-> {}]
  /\ todo = [r \in Request |-> {}]
  /\ amount = [r \in Request |-> honorarium]
  /\ winner = [r \in Request |-> [s \in Slot |-> r]]
  /\ chosen = [r \in Request |-> {}]
  /\ credited = {}
  /\ lost = {} /\ inflight = {}
  /\ invalid = {}
  /\ ipc = [i \in Invalidation |-> "idle"]
  /\ islot \in [Invalidation -> Slot]
  /\ project \in ProjectStatus

-----------------------------------------------------------------------------
\* A request for the slots S reads what they are to be paid; a slot without an
\* amount is dropped, so S stands for those that have one.
ReadPaymentInfo(r, S) ==
  /\ pc[r] = "idle" /\ S # {}
  /\ pc' = [pc EXCEPT ![r] = "insert"]
  /\ slots' = [slots EXCEPT ![r] = S]
  /\ todo' = [todo EXCEPT ![r] = S]
  /\ amount' = [amount EXCEPT ![r] = honorarium]
  /\ UNCHANGED <<history, lock, honorarium, winner, chosen,
                 credited, lost, inflight, invVars>>

\* The rows are inserted one by one, each in a statement of its own, which
\* waits for a transaction that has the slot locked.
InsertPending(r, s) ==
  /\ pc[r] = "insert" /\ s \in todo[r] /\ lock[s] = NoRequest
  /\ history' = [history EXCEPT ![r][s] = "PENDING"]
  /\ todo' = [todo EXCEPT ![r] = @ \ {s}]
  /\ pc' = [pc EXCEPT ![r] = IF todo[r] # {s} THEN "insert"
                             ELSE IF LambdaConfigured THEN "select" ELSE "ended"]
  /\ UNCHANGED <<lock, honorarium, slots, amount, winner, chosen,
                 credited, lost, inflight, invVars>>

\* An insert fails: the handler answers 500 and leaves the rows it inserted.
InsertFails(r) ==
  /\ "insert" \in Faults
  /\ pc[r] = "insert"
  /\ pc' = [pc EXCEPT ![r] = "ended"]
  /\ UNCHANGED <<history, lock, honorarium, slots, todo, amount, winner, chosen,
                 credited, lost, inflight, invVars>>

\* Mutant: the query has lost its NOT EXISTS.
Payable_NoNotExists(r) == {s \in slots[r] : RowsWith("PENDING", s) # {}}

\* The slots of r that have a PENDING row and no COMPLETED one.
Payable(r) == {s \in slots[r] : RowsWith("PENDING", s) # {} /\ ~HasCompletedPayment(s)}

\* Mutant: the query has lost its FOR UPDATE.
SelectPending_NoForUpdate(r) ==
  /\ pc[r] = "select" /\ Payable(r) # {}
  /\ chosen' = [chosen EXCEPT ![r] = Payable(r)]
  /\ \E w \in [Payable(r) -> Request] :
       /\ \A s \in Payable(r) : w[s] \in RowsWith("PENDING", s)
       /\ winner' = [winner EXCEPT ![r] =
                      [s \in Slot |-> IF s \in Payable(r) THEN w[s] ELSE r]]
  /\ pc' = [pc EXCEPT ![r] = "lambda"]
  /\ UNCHANGED <<history, lock, honorarium, slots, todo, amount, credited, lost,
                 inflight, invVars>>

\* SELECT ... FOR UPDATE, once no other transaction has a slot of r locked.
\* One PENDING row of each slot wins (the query orders them by slot only) and
\* is marked COMPLETED, the others CANCELED, both inside the transaction.
SelectPending(r) ==
  /\ pc[r] = "select" /\ \A s \in slots[r] : lock[s] = NoRequest
  /\ Payable(r) # {}
  /\ lock' = [s \in Slot |-> IF s \in slots[r] THEN r ELSE lock[s]]
  /\ chosen' = [chosen EXCEPT ![r] = Payable(r)]
  /\ \E w \in [Payable(r) -> Request] :
       /\ \A s \in Payable(r) : w[s] \in RowsWith("PENDING", s)
       /\ winner' = [winner EXCEPT ![r] =
                      [s \in Slot |-> IF s \in Payable(r) THEN w[s] ELSE r]]
  /\ pc' = [pc EXCEPT ![r] = "lambda"]
  /\ UNCHANGED <<history, honorarium, slots, todo, amount,
                 credited, lost, inflight, invVars>>

\* No PENDING row is left to pay: the transaction ends with nothing done.
NothingPending(r) ==
  /\ pc[r] = "select" /\ \A s \in slots[r] : lock[s] = NoRequest
  /\ Payable(r) = {}
  /\ pc' = [pc EXCEPT ![r] = "ended"]
  /\ UNCHANGED <<history, lock, honorarium, slots, todo, amount, winner, chosen,
                 credited, lost, inflight, invVars>>

\* BEGIN or the SELECT fails (a lock wait times out, say): the handler returns
\* and leaves its rows as they are.
SelectFails(r) ==
  /\ "tx" \in Faults
  /\ pc[r] = "select"
  /\ pc' = [pc EXCEPT ![r] = "failed"]
  /\ UNCHANGED <<history, lock, honorarium, slots, todo, amount, winner, chosen,
                 credited, lost, inflight, invVars>>

-----------------------------------------------------------------------------
\* The Lambda credits every chosen slot and answers 200.
LambdaCredits(r) ==
  /\ pc[r] = "lambda"
  /\ credited' = credited \cup ({r} \X chosen[r])
  /\ pc' = [pc EXCEPT ![r] = "commit"]
  /\ UNCHANGED <<history, lock, honorarium, slots, todo, amount, winner, chosen,
                 lost, inflight, invVars>>

\* The function fails after crediting some of the slots: the invocation still
\* answers 200, the only thing Invoke's caller looks at.
LambdaFunctionError(r, S) ==
  /\ "functionError" \in Faults
  /\ pc[r] = "lambda" /\ S # chosen[r]
  /\ credited' = credited \cup ({r} \X S)
  /\ pc' = [pc EXCEPT ![r] = "commit"]
  /\ UNCHANGED <<history, lock, honorarium, slots, todo, amount, winner, chosen,
                 lost, inflight, invVars>>

\* An update of the transaction, or the invocation, fails with no money sent.
LambdaRefuses(r) ==
  /\ "refused" \in Faults
  /\ pc[r] = "lambda"
  /\ pc' = [pc EXCEPT ![r] = "rollback"]
  /\ UNCHANGED <<history, lock, honorarium, slots, todo, amount, winner, chosen,
                 credited, lost, inflight, invVars>>

\* The request gives up on the Lambda: its context is cancelled, or the answer
\* does not arrive.
LambdaReplyLost(r) ==
  /\ "lostReply" \in Faults
  /\ pc[r] = "lambda"
  /\ lost' = lost \cup {r}
  /\ inflight' = inflight \cup {r}
  /\ pc' = [pc EXCEPT ![r] = "rollback"]
  /\ UNCHANGED <<history, lock, honorarium, slots, todo, amount, winner, chosen,
                 credited, invVars>>

\* The Lambda it gave up on sends money all the same, for some of the slots,
\* before the transaction has been rolled back or long after.
LateCredit(r, S) ==
  /\ r \in inflight
  /\ credited' = credited \cup ({r} \X S)
  /\ inflight' = inflight \ {r}
  /\ UNCHANGED <<history, lock, honorarium, payVars, lost, invVars>>

\* Mutants: the COMPLETED update has lost its "id IN", the CANCELED update its
\* "payment_status = 'PENDING'".
Committed_AnyId(r) ==
  [q \in Request |-> [s \in Slot |->
     IF s \in chosen[r] /\ history[q][s] = "PENDING" THEN "COMPLETED" ELSE history[q][s]]]
Committed_AnyStatus(r) ==
  [q \in Request |-> [s \in Slot |->
     IF s \notin chosen[r] THEN history[q][s]
     ELSE IF q = winner[r][s] THEN "COMPLETED"
     ELSE IF history[q][s] # "none" THEN "CANCELED"
     ELSE "none"]]

\* The rows of the slots r locked, once its transaction has committed.
Committed(r) ==
  [q \in Request |-> [s \in Slot |->
     IF s \notin chosen[r] THEN history[q][s]
     ELSE IF q = winner[r][s] THEN "COMPLETED"
     ELSE IF history[q][s] = "PENDING" THEN "CANCELED"
     ELSE history[q][s]]]

Unlock(r) == [s \in Slot |-> IF lock[s] = r THEN NoRequest ELSE lock[s]]

Commit(r) ==
  /\ pc[r] = "commit"
  /\ history' = Committed(r)
  /\ lock' = Unlock(r)
  /\ pc' = [pc EXCEPT ![r] = "paid"]
  /\ UNCHANGED <<honorarium, slots, todo, amount, winner, chosen,
                 credited, lost, inflight, invVars>>

\* COMMIT fails, the connection being gone: the server has rolled back
\* ("commit") or has committed and could not say so ("commitReply").
CommitFails(r) ==
  /\ pc[r] = "commit"
  /\ \/ "commit" \in Faults /\ UNCHANGED history
     \/ "commitReply" \in Faults /\ history' = Committed(r)
  /\ lock' = Unlock(r)
  /\ lost' = lost \cup {r}
  /\ pc' = [pc EXCEPT ![r] = "fail"]
  /\ UNCHANGED <<honorarium, slots, todo, amount, winner, chosen,
                 credited, inflight, invVars>>

\* Mutant: an error path returns without ending the transaction.
Rollback_Forgotten(r) ==
  /\ pc[r] = "rollback"
  /\ pc' = [pc EXCEPT ![r] = "fail"]
  /\ UNCHANGED <<history, lock, honorarium, slots, todo, amount, winner, chosen,
                 credited, lost, inflight, invVars>>

Rollback(r) ==
  /\ pc[r] = "rollback"
  /\ lock' = Unlock(r)
  /\ pc' = [pc EXCEPT ![r] = "fail"]
  /\ UNCHANGED <<history, honorarium, slots, todo, amount, winner, chosen,
                 credited, lost, inflight, invVars>>

\* After a rollback, outside any transaction: every PENDING row of the slots,
\* whichever request inserted it, becomes FAILED.
MarkFailed(r) ==
  /\ pc[r] = "fail" /\ \A s \in slots[r] : lock[s] = NoRequest
  /\ history' = [q \in Request |-> [s \in Slot |->
                   IF s \in slots[r] /\ history[q][s] = "PENDING"
                   THEN "FAILED" ELSE history[q][s]]]
  /\ pc' = [pc EXCEPT ![r] = "failed"]
  /\ UNCHANGED <<lock, honorarium, slots, todo, amount, winner, chosen,
                 credited, lost, inflight, invVars>>

\* The request's context is cancelled (its client is gone), or the database
\* is: the update that should mark the rows FAILED fails, and is not retried.
MarkFailedFails(r) ==
  /\ "cancel" \in Faults
  /\ pc[r] = "fail"
  /\ pc' = [pc EXCEPT ![r] = "failed"]
  /\ UNCHANGED <<history, lock, honorarium, slots, todo, amount, winner, chosen,
                 credited, lost, inflight, invVars>>

\* The process is killed: the server rolls an open transaction back, and a
\* Lambda that has been called goes on.
Crash(r) ==
  /\ "crash" \in Faults
  /\ pc[r] # "idle" /\ ~Ended(r)
  /\ lock' = Unlock(r)
  /\ lost' = IF pc[r] \in {"lambda", "commit"} THEN lost \cup {r} ELSE lost
  /\ inflight' = IF pc[r] = "lambda" THEN inflight \cup {r} ELSE inflight
  /\ pc' = [pc EXCEPT ![r] = "crashed"]
  /\ UNCHANGED <<history, honorarium, slots, todo, amount, winner, chosen,
                 credited, invVars>>

-----------------------------------------------------------------------------
\* POST /time-slot-custom-hono changes what a slot is paid; so can a row that
\* POST /add-honorarium-amount adds, when the slot has no amount of its own.
SetHonorarium(s, a) ==
  /\ honorarium[s] # a
  /\ honorarium' = [honorarium EXCEPT ![s] = a]
  /\ UNCHANGED <<history, lock, payVars, credited, lost, inflight, invVars>>

\* POST /interview/invalidate reads the time slot; an invalidated one is
\* answered 409.
LoadTimeSlot(i) ==
  /\ ipc[i] = "idle"
  /\ ipc' = [ipc EXCEPT ![i] = IF islot[i] \in invalid THEN "refused" ELSE "loaded"]
  /\ UNCHANGED <<history, lock, honorarium, payVars,
                 credited, lost, inflight, invalid, islot, project>>

\* It then looks for a COMPLETED payment, which is answered 409 as well: a
\* plain read, which sees what is committed and waits for no lock.
CheckPayment(i) ==
  /\ ipc[i] = "loaded"
  /\ ipc' = [ipc EXCEPT ![i] =
               IF HasCompletedPayment(islot[i]) THEN "refused" ELSE "checked"]
  /\ UNCHANGED <<history, lock, honorarium, payVars,
                 credited, lost, inflight, invalid, islot, project>>

\* And updates the row, whatever has happened since.
Invalidate(i) ==
  /\ ipc[i] = "checked"
  /\ invalid' = invalid \cup {islot[i]}
  /\ ipc' = [ipc EXCEPT ![i] = "updated"]
  /\ UNCHANGED <<history, lock, honorarium, payVars,
                 credited, lost, inflight, islot, project>>

\* And reopens the project; a failure of this update is ignored.
ResumeProject(i) ==
  /\ ipc[i] = "updated"
  /\ \/ project' = "InProgress"
     \/ "query" \in Faults /\ UNCHANGED project
  /\ ipc' = [ipc EXCEPT ![i] = "invalidated"]
  /\ UNCHANGED <<history, lock, honorarium, payVars,
                 credited, lost, inflight, invalid, islot>>

\* A query of the handler fails before the slot is updated: it answers 500.
InvalidationFails(i) ==
  /\ "query" \in Faults
  /\ ipc[i] \in {"idle", "loaded", "checked"}
  /\ ipc' = [ipc EXCEPT ![i] = "failed"]
  /\ UNCHANGED <<history, lock, honorarium, payVars,
                 credited, lost, inflight, invalid, islot, project>>

-----------------------------------------------------------------------------
PaymentStep(r) ==
  \/ \E S \in SUBSET Slot : ReadPaymentInfo(r, S)
  \/ \E s \in Slot : InsertPending(r, s)
  \/ SelectPending(r) \/ NothingPending(r)
  \/ LambdaCredits(r) \/ Commit(r) \/ Rollback(r) \/ MarkFailed(r)

PaymentFault(r) ==
  \/ InsertFails(r) \/ SelectFails(r) \/ LambdaRefuses(r) \/ LambdaReplyLost(r)
  \/ \E S \in SUBSET chosen[r] : LambdaFunctionError(r, S) \/ LateCredit(r, S)
  \/ CommitFails(r) \/ MarkFailedFails(r) \/ Crash(r)

InvalidationStep(i) ==
  \/ LoadTimeSlot(i) \/ CheckPayment(i) \/ Invalidate(i) \/ ResumeProject(i)
  \/ InvalidationFails(i)

\* Every call has been answered: nothing is left to do.
Finished ==
  /\ \A r \in Request : Ended(r)
  /\ \A i \in Invalidation : ipc[i] \in {"refused", "failed", "invalidated"}
  /\ UNCHANGED vars

Next ==
  \/ \E r \in Request : PaymentStep(r) \/ PaymentFault(r)
  \/ \E i \in Invalidation : InvalidationStep(i)
  \/ \E s \in Slot, a \in Amount : SetHonorarium(s, a)
  \/ Finished

Spec == Init /\ [][Next]_vars

\* The server runs a handler it has started; clients need not call, and
\* nothing has to go wrong.
HandlerStep(r) == pc[r] # "idle" /\ PaymentStep(r)
FairSpec == Spec /\ \A r \in Request : WF_vars(HandlerStep(r))

-----------------------------------------------------------------------------
(* Properties *)

\* Every variable has its type; a slot's rows are locked for a request only
\* while that request is in its transaction.
TypeOK ==
  /\ history \in [Request -> [Slot -> Status]]
  /\ lock \in [Slot -> Request \cup {NoRequest}]
  /\ honorarium \in [Slot -> Amount]
  /\ pc \in [Request -> PayPC]
  /\ slots \in [Request -> SUBSET Slot]
  /\ todo \in [Request -> SUBSET Slot]
  /\ amount \in [Request -> [Slot -> Amount]]
  /\ winner \in [Request -> [Slot -> Request]]
  /\ chosen \in [Request -> SUBSET Slot]
  /\ credited \in SUBSET (Request \X Slot)
  /\ lost \in SUBSET Request /\ inflight \in SUBSET Request
  /\ invalid \in SUBSET Slot
  /\ ipc \in [Invalidation -> InvalidationPC]
  /\ islot \in [Invalidation -> Slot]
  /\ project \in ProjectStatus

\* A time slot is settled by at most one payment row, however many requests
\* insert rows for it and process them at the same time (the NOT EXISTS and
\* FOR UPDATE of GetPendingPaymentsMRA, the CANCELED update).
AtMostOneCompleted ==
  \A s \in Slot, p, q \in Request :
    history[p][s] = "COMPLETED" /\ history[q][s] = "COMPLETED" => p = q

\* Money is sent twice for a slot only after a request whose own credit had an
\* outcome it did not learn (an answer or a COMMIT lost, a crash before it):
\* retries and concurrent requests alone never pay an interview twice.
CreditedOnceUnlessLost ==
  \A s \in Slot, p, q \in Request :
    <<p, s>> \in credited /\ <<q, s>> \in credited => p = q \/ p \in lost \/ q \in lost

\* A row that has been settled, cancelled or failed keeps its status: a late
\* rollback of one request does not fail the payment another one completed.
FinalStatusIsKept ==
  [][\A r \in Request, s \in Slot :
       history[r][s] \in {"COMPLETED", "CANCELED", "FAILED"}
         => history'[r][s] = history[r][s]]_vars

\* The flow implements the ledger: money is sent only for slots that are not
\* settled at that moment, unless by a Lambda its request has given up on, and
\* a settled slot stays settled.
Ledger == INSTANCE PaymentLedger WITH
            settled <- {s \in Slot : HasCompletedPayment(s)}, adrift <- lost
ImplementsLedger == Ledger!LedgerSpec

\* A row that has been inserted does not wait for its payment forever: it gets
\* a final status, or another request's row has settled the slot.
PendingIsResolved ==
  \A r \in Request, s \in Slot :
    history[r][s] = "PENDING" ~> history[r][s] # "PENDING" \/ HasCompletedPayment(s)

\* What steps 5 and 6 of the comment on processPendingPaymentsForTimeslotIdsMRA
\* say ("On failure: rollback + mark FAILED"): a payment is COMPLETED only if the
\* Lambda has credited it, a failure of the Lambda being rolled back.
CompletedIsCredited ==
  \A s \in Slot : HasCompletedPayment(s) => \E r \in Request : <<r, s>> \in credited

-----------------------------------------------------------------------------
(* Why at most one row is settled, and at most one credit sent: the invariant *)
(* the proofs rest on.                                                         *)

\* A row a request has still to insert does not exist.
RowsAppearOnInsert ==
  \A r \in Request, s \in Slot :
    pc[r] = "idle" \/ (pc[r] = "insert" /\ s \in todo[r]) => history[r][s] = "none"

\* A transaction has all of its slots locked, and a slot is locked by nobody
\* else: no path out of a handler leaves a lock behind.
LocksAreHeld ==
  /\ \A r \in Request, s \in Slot : InTx(r) /\ s \in slots[r] => lock[s] = r
  /\ \A s \in Slot : lock[s] # NoRequest => InTx(lock[s]) /\ s \in slots[lock[s]]

\* What a transaction has read stays true until it ends: its slots have no
\* COMPLETED row, and the rows it is completing are PENDING.
ReadsStayTrue ==
  \A r \in Request : InTx(r) =>
    /\ chosen[r] \subseteq slots[r]
    /\ \A s \in chosen[r] : ~HasCompletedPayment(s) /\ history[winner[r][s]][s] = "PENDING"

\* Money that has been sent belongs to a request that is about to commit, that
\* has committed, or that did not learn the outcome, and that can no longer pay.
CreditsAreAccounted ==
  /\ \A r \in Request, s \in Slot : <<r, s>> \in credited =>
       r \in lost \/ (s \in chosen[r] /\ (pc[r] = "commit" \/ HasCompletedPayment(s)))
  /\ \A r \in Request, s \in Slot : <<r, s>> \in credited =>
       pc[r] \notin {"idle", "insert", "select", "lambda"}
  /\ inflight \subseteq lost
  /\ \A r \in lost : pc[r] \in {"rollback", "fail", "failed", "crashed"}

\* The invariant, which every step preserves.
PaymentInv ==
  /\ TypeOK
  /\ RowsAppearOnInsert
  /\ LocksAreHeld
  /\ ReadsStayTrue
  /\ CreditsAreAccounted
  /\ AtMostOneCompleted
  /\ CreditedOnceUnlessLost
=============================================================================
