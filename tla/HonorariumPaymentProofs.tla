----------------------- MODULE HonorariumPaymentProofs -----------------------
(***************************************************************************)
(* PaymentInv is an invariant of the payment flow, for any number of       *)
(* requests, slots and invalidations, and whatever goes wrong; from it, a  *)
(* slot is settled once, credited once unless an outcome is lost, and the  *)
(* flow implements the ledger.                                             *)
(***************************************************************************)
EXTENDS HonorariumPayment, TLAPS

\* The state the server starts in satisfies the invariant.
LEMMA InitInv == Init => PaymentInv
  <1> SUFFICES ASSUME Init PROVE PaymentInv
    OBVIOUS
  <1>1. TypeOK
    BY DEF Init, TypeOK, Status, PayPC, InvalidationPC
  <1>2. RowsAppearOnInsert /\ LocksAreHeld /\ ReadsStayTrue
    BY DEF Init, RowsAppearOnInsert, LocksAreHeld, ReadsStayTrue, InTx
  <1>3. CreditsAreAccounted /\ AtMostOneCompleted /\ CreditedOnceUnlessLost
    BY DEF Init, CreditsAreAccounted, AtMostOneCompleted, CreditedOnceUnlessLost
  <1>4. QED
    BY <1>1, <1>2, <1>3 DEF PaymentInv

\* Every step keeps every variable in its type.
LEMMA TypeStep == TypeOK /\ [Next]_vars => TypeOK'
  <1> SUFFICES ASSUME TypeOK, [Next]_vars PROVE TypeOK'
    OBVIOUS
  <1> USE DEF TypeOK, PayPC, payVars, invVars
  <1>1. CASE UNCHANGED vars
    BY <1>1 DEF vars
  <1>2. ASSUME NEW r \in Request, PaymentStep(r) PROVE TypeOK'
    <2>1. ASSUME NEW S \in SUBSET Slot, ReadPaymentInfo(r, S) PROVE TypeOK'
      BY <2>1 DEF ReadPaymentInfo
    <2>2. ASSUME NEW s \in Slot, InsertPending(r, s) PROVE TypeOK'
      BY <2>2 DEF InsertPending, Status
    <2>3. CASE SelectPending(r)
      BY <2>3 DEF SelectPending, Payable, RowsWith
    <2>4. CASE NothingPending(r)
      BY <2>4 DEF NothingPending
    <2>5. CASE LambdaCredits(r)
      BY <2>5 DEF LambdaCredits
    <2>6. CASE Commit(r)
      BY <2>6 DEF Commit, Committed, Unlock, Status
    <2>7. CASE Rollback(r)
      BY <2>7 DEF Rollback, Unlock
    <2>8. CASE MarkFailed(r)
      BY <2>8 DEF MarkFailed, Status
    <2>9. QED
      BY <1>2, <2>1, <2>2, <2>3, <2>4, <2>5, <2>6, <2>7, <2>8 DEF PaymentStep
  <1>3. ASSUME NEW r \in Request, PaymentFault(r) PROVE TypeOK'
    <2>1. CASE InsertFails(r)
      BY <2>1 DEF InsertFails
    <2>2. CASE SelectFails(r)
      BY <2>2 DEF SelectFails
    <2>3. CASE LambdaRefuses(r)
      BY <2>3 DEF LambdaRefuses
    <2>4. CASE LambdaReplyLost(r)
      BY <2>4 DEF LambdaReplyLost
    <2>5. ASSUME NEW S \in SUBSET chosen[r], LambdaFunctionError(r, S) PROVE TypeOK'
      BY <2>5 DEF LambdaFunctionError
    <2>6. ASSUME NEW S \in SUBSET chosen[r], LateCredit(r, S) PROVE TypeOK'
      BY <2>6 DEF LateCredit
    <2>7. CASE CommitFails(r)
      <3>1. history' \in [Request -> [Slot -> Status]]
        <4>1. CASE history' = history
          BY <4>1
        <4>2. CASE history' = Committed(r)
          BY <4>2 DEF Committed, Status
        <4>3. QED
          BY <2>7, <4>1, <4>2 DEF CommitFails
      <3>2. QED
        BY <2>7, <3>1 DEF CommitFails, Unlock
    <2>8. CASE MarkFailedFails(r)
      BY <2>8 DEF MarkFailedFails
    <2>9. CASE Crash(r)
      BY <2>9 DEF Crash, Unlock
    <2>10. QED
      BY <1>3, <2>1, <2>2, <2>3, <2>4, <2>5, <2>6, <2>7, <2>8, <2>9
         DEF PaymentFault
  <1>4. ASSUME NEW i \in Invalidation, InvalidationStep(i) PROVE TypeOK'
    <2>1. CASE LoadTimeSlot(i)
      BY <2>1 DEF LoadTimeSlot, InvalidationPC
    <2>2. CASE CheckPayment(i)
      BY <2>2 DEF CheckPayment, InvalidationPC
    <2>3. CASE Invalidate(i)
      BY <2>3 DEF Invalidate, InvalidationPC
    <2>4. CASE ResumeProject(i)
      BY <2>4 DEF ResumeProject, InvalidationPC, ProjectStatus
    <2>5. CASE InvalidationFails(i)
      BY <2>5 DEF InvalidationFails, InvalidationPC
    <2>6. QED
      BY <1>4, <2>1, <2>2, <2>3, <2>4, <2>5 DEF InvalidationStep
  <1>5. ASSUME NEW s \in Slot, NEW a \in Amount, SetHonorarium(s, a) PROVE TypeOK'
    BY <1>5 DEF SetHonorarium
  <1>6. CASE Finished
    BY <1>6 DEF Finished, vars
  <1>7. QED
    BY <1>1, <1>2, <1>3, <1>4, <1>5, <1>6 DEF Next

-----------------------------------------------------------------------------
(* What the steps have in common, stated once.                             *)

\* r sends money for S and its call's outcome is lost for the requests L.
LambdaEffect(r, S, L, st) ==
  /\ pc[r] = "lambda" /\ S \subseteq chosen[r]
  /\ pc' = [pc EXCEPT ![r] = st]
  /\ credited' = credited \cup ({r} \X S)
  /\ lost' = lost \cup L
  /\ inflight' = inflight \cup L
  /\ UNCHANGED <<history, lock, slots, todo, winner, chosen>>

\* r's transaction commits in the database.
CommitEffect(r, L, st) ==
  /\ pc[r] = "commit"
  /\ pc' = [pc EXCEPT ![r] = st]
  /\ history' = Committed(r)
  /\ lock' = Unlock(r)
  /\ lost' = lost \cup L
  /\ UNCHANGED <<slots, todo, winner, chosen, credited, inflight>>

\* r's transaction, if it is in one, ends with nothing written.
UnlockEffect(r, st) ==
  /\ pc[r] \notin {"idle", "paid", "failed", "ended", "crashed"}
  /\ pc' = [pc EXCEPT ![r] = st]
  /\ lock' = Unlock(r)
  /\ lost' = IF pc[r] \in {"lambda", "commit"} THEN lost \cup {r} ELSE lost
  /\ inflight' = IF pc[r] = "lambda" THEN inflight \cup {r} ELSE inflight
  /\ UNCHANGED <<history, slots, todo, winner, chosen, credited>>

\* A step that moves r on outside its transaction, and nothing else.
LEMMA QuietStep ==
  ASSUME PaymentInv, TypeOK', NEW r \in Request, NEW st \in {"ended", "failed"},
         pc[r] \in {"insert", "select"} \/ (pc[r] = "fail" /\ st = "failed"),
         pc' = [pc EXCEPT ![r] = st],
         UNCHANGED <<history, lock, slots, todo, winner, chosen, credited, lost, inflight>>
  PROVE  PaymentInv'
  <1>0. TypeOK
    BY DEF PaymentInv
  <1>1. pc'[r] = st /\ \A q \in Request \ {r} : pc'[q] = pc[q]
    BY <1>0 DEF TypeOK
  <1>2. \A q \in Request : InTx(q)' <=> InTx(q)
    BY <1>1 DEF InTx
  <1>3. \A s \in Slot : lock[s] # NoRequest => lock[s] \in Request
    BY <1>0 DEF TypeOK
  <1>4. RowsAppearOnInsert' /\ CreditsAreAccounted'
    <2>1. RowsAppearOnInsert'
      BY <1>1 DEF PaymentInv, RowsAppearOnInsert
    <2>2. lost \subseteq Request
      BY <1>0 DEF TypeOK
    <2>3. CreditsAreAccounted'
      BY <1>1, <2>2 DEF PaymentInv, CreditsAreAccounted, HasCompletedPayment
    <2>4. QED
      BY <2>1, <2>3
  <1>5. LocksAreHeld' /\ ReadsStayTrue'
    BY <1>2, <1>3 DEF PaymentInv, LocksAreHeld, ReadsStayTrue, HasCompletedPayment
  <1>6. AtMostOneCompleted' /\ CreditedOnceUnlessLost'
    BY DEF PaymentInv, AtMostOneCompleted, CreditedOnceUnlessLost
  <1>7. QED
    BY <1>4, <1>5, <1>6 DEF PaymentInv

\* Money is sent only for slots that nobody has been credited for, lost
\* outcomes apart: the slots are locked and have no COMPLETED row.
LEMMA LambdaStep ==
  ASSUME PaymentInv, TypeOK', NEW r \in Request, NEW S, NEW L, NEW st,
         LambdaEffect(r, S, L, st),
         (L = {} /\ st = "commit") \/ (S = {} /\ L \subseteq {r} /\ st = "rollback")
  PROVE  PaymentInv'
  <1>0. TypeOK
    BY DEF PaymentInv
  <1>1. /\ pc'[r] = st /\ \A q \in Request \ {r} : pc'[q] = pc[q]
        /\ \A q \in Request : InTx(q) => chosen[q] \subseteq slots[q]
        /\ \A q \in Request : slots[q] \subseteq Slot
    BY <1>0 DEF LambdaEffect, TypeOK, PaymentInv, ReadsStayTrue
  <1>2. \A q \in Request : InTx(q)' <=> InTx(q)
    BY <1>1 DEF InTx, LambdaEffect
  <1>3. \A s \in Slot : lock[s] # NoRequest => lock[s] \in Request
    BY <1>0 DEF TypeOK
  <1>4. \A q \in Request, s \in Slot :
          <<q, s>> \in credited' <=> <<q, s>> \in credited \/ (q = r /\ s \in S)
    BY DEF LambdaEffect
  <1>5. \A s \in S : s \in Slot /\ ~HasCompletedPayment(s) /\ lock[s] = r
    BY <1>1 DEF LambdaEffect, PaymentInv, ReadsStayTrue, LocksAreHeld, InTx
  <1>6. RowsAppearOnInsert'
    BY <1>1 DEF PaymentInv, RowsAppearOnInsert, LambdaEffect
  <1>7. LocksAreHeld' /\ ReadsStayTrue'
    BY <1>2, <1>3 DEF PaymentInv, LocksAreHeld, ReadsStayTrue, HasCompletedPayment, LambdaEffect
  <1>8. CreditsAreAccounted'
    <2>1. lost \subseteq Request
      BY <1>0 DEF TypeOK
    <2>2. QED
      BY <1>1, <1>4, <2>1 DEF PaymentInv, CreditsAreAccounted, HasCompletedPayment, LambdaEffect
  <1>9. CreditedOnceUnlessLost'
    <2>1. \A q \in Request, s \in S : <<q, s>> \in credited => q \in lost
      BY <1>1, <1>5, NoRequestAssumption
         DEF PaymentInv, CreditsAreAccounted, LocksAreHeld, ReadsStayTrue, InTx, LambdaEffect
    <2>2. QED
      BY <1>4, <2>1 DEF PaymentInv, CreditedOnceUnlessLost, LambdaEffect
  <1>10. AtMostOneCompleted'
    BY DEF PaymentInv, AtMostOneCompleted, LambdaEffect
  <1>11. QED
    BY <1>6, <1>7, <1>8, <1>9, <1>10 DEF PaymentInv

\* A commit completes one row of each chosen slot, which had none.
LEMMA CommitStep ==
  ASSUME PaymentInv, TypeOK', NEW r \in Request, NEW L, NEW st,
         (L = {} /\ st = "paid") \/ (L = {r} /\ st = "fail"), CommitEffect(r, L, st)
  PROVE  PaymentInv'
  <1>0. TypeOK
    BY DEF PaymentInv
  <1>1. /\ pc[r] = "commit" /\ pc'[r] = st /\ \A q \in Request \ {r} : pc'[q] = pc[q]
        /\ \A q \in Request, s \in Slot :
             history'[q][s] = IF s \notin chosen[r] THEN history[q][s]
                              ELSE IF q = winner[r][s] THEN "COMPLETED"
                              ELSE IF history[q][s] = "PENDING" THEN "CANCELED"
                              ELSE history[q][s]
        /\ \A s \in Slot : lock'[s] = IF lock[s] = r THEN NoRequest ELSE lock[s]
        /\ UNCHANGED <<slots, todo, winner, chosen, credited>>
    BY <1>0 DEF CommitEffect, Committed, Unlock, TypeOK
  <1>2. /\ \A s \in chosen[r] : /\ s \in Slot /\ s \in slots[r] /\ lock[s] = r
                                /\ ~HasCompletedPayment(s)
                                /\ winner[r][s] \in Request
                                /\ history[winner[r][s]][s] = "PENDING"
        /\ \A q \in Request : slots[q] \subseteq Slot
        /\ \A q \in Request, s \in Slot : winner[q][s] \in Request
        /\ \A s \in Slot : lock[s] # NoRequest => lock[s] \in Request
    BY <1>0, <1>1 DEF PaymentInv, TypeOK, ReadsStayTrue, LocksAreHeld, InTx
  <1>3. \A q \in Request : InTx(q)' <=> InTx(q) /\ q # r
    BY <1>1 DEF InTx
  <1>4. \A s \in Slot : HasCompletedPayment(s)' <=> s \in chosen[r] \/ HasCompletedPayment(s)
    BY <1>1, <1>2 DEF HasCompletedPayment
  <1>5. RowsAppearOnInsert'
    BY <1>1, <1>2 DEF PaymentInv, RowsAppearOnInsert
  <1>6. LocksAreHeld'
    BY <1>1, <1>2, <1>3, NoRequestAssumption DEF PaymentInv, LocksAreHeld
  <1>7. ReadsStayTrue'
    <2>1. \A q \in Request, s \in Slot :
            q # r /\ InTx(q) /\ s \in chosen[q] => s \notin chosen[r]
      BY <1>2 DEF PaymentInv, LocksAreHeld, ReadsStayTrue
    <2>2. QED
      BY <1>1, <1>2, <1>3, <1>4, <2>1 DEF PaymentInv, ReadsStayTrue
  <1>8. CreditsAreAccounted'
    <2>1. lost \subseteq Request
      BY <1>0 DEF TypeOK
    <2>2. QED
      BY <1>1, <1>4, <2>1 DEF PaymentInv, CreditsAreAccounted, CommitEffect
  <1>9. AtMostOneCompleted'
    BY <1>1, <1>2 DEF PaymentInv, AtMostOneCompleted, HasCompletedPayment
  <1>10. CreditedOnceUnlessLost'
    BY DEF PaymentInv, CreditedOnceUnlessLost, CommitEffect
  <1>11. QED
    BY <1>5, <1>6, <1>7, <1>8, <1>9, <1>10 DEF PaymentInv

\* A transaction that ends with nothing written gives its locks back.
LEMMA UnlockStep ==
  ASSUME PaymentInv, TypeOK', NEW r \in Request, NEW st \in {"fail", "crashed"},
         UnlockEffect(r, st)
  PROVE  PaymentInv'
  <1>0. TypeOK
    BY DEF PaymentInv
  <1>1. /\ pc'[r] = st /\ \A q \in Request \ {r} : pc'[q] = pc[q]
        /\ \A s \in Slot : lock'[s] = IF lock[s] = r THEN NoRequest ELSE lock[s]
        /\ \A s \in Slot : lock[s] # NoRequest => lock[s] \in Request
        /\ \A q \in Request : slots[q] \subseteq Slot
    BY <1>0 DEF UnlockEffect, Unlock, TypeOK
  <1>2. \A q \in Request : InTx(q)' <=> InTx(q) /\ q # r
    BY <1>1 DEF InTx
  <1>3. RowsAppearOnInsert' /\ AtMostOneCompleted' /\ CreditedOnceUnlessLost'
    BY <1>1 DEF PaymentInv, RowsAppearOnInsert, AtMostOneCompleted, CreditedOnceUnlessLost,
       UnlockEffect
  <1>4. LocksAreHeld'
    BY <1>1, <1>2, NoRequestAssumption DEF PaymentInv, LocksAreHeld, UnlockEffect
  <1>5. ReadsStayTrue'
    BY <1>1, <1>2 DEF PaymentInv, ReadsStayTrue, HasCompletedPayment, UnlockEffect
  <1>6. CreditsAreAccounted'
    <2>1. lost \subseteq Request
      BY <1>0 DEF TypeOK
    <2>2. QED
      BY <1>1, <2>1 DEF PaymentInv, CreditsAreAccounted, HasCompletedPayment, UnlockEffect
  <1>7. QED
    BY <1>3, <1>4, <1>5, <1>6 DEF PaymentInv

\* Every step preserves the invariant.
LEMMA InvStep == PaymentInv /\ [Next]_vars => PaymentInv'
  <1> SUFFICES ASSUME PaymentInv, [Next]_vars PROVE PaymentInv'
    OBVIOUS
  <1>0. TypeOK /\ TypeOK'
    BY TypeStep DEF PaymentInv
  <1> USE NoRequestAssumption DEF PaymentInv, payVars, invVars
  <1>2. ASSUME NEW r \in Request, PaymentStep(r) PROVE PaymentInv'
    <2>1. ASSUME NEW S \in SUBSET Slot, ReadPaymentInfo(r, S) PROVE PaymentInv'
      <3>1. /\ pc[r] = "idle" /\ pc'[r] = "insert" /\ todo'[r] = S
            /\ \A q \in Request \ {r} : pc'[q] = pc[q] /\ slots'[q] = slots[q] /\ todo'[q] = todo[q]
            /\ UNCHANGED <<history, lock, winner, chosen, credited, lost, inflight>>
        BY <1>0, <2>1 DEF ReadPaymentInfo, TypeOK
      <3>2. \A q \in Request : (InTx(q)' <=> InTx(q)) /\ (InTx(q) => slots'[q] = slots[q])
        BY <3>1 DEF InTx
      <3>3. RowsAppearOnInsert'
        BY <3>1 DEF RowsAppearOnInsert
      <3>4. LocksAreHeld'
        <4>1. \A s \in Slot : lock[s] # NoRequest => lock[s] \in Request
          BY <1>0 DEF TypeOK
        <4>2. QED
          BY <3>1, <3>2, <4>1 DEF LocksAreHeld
      <3>5. ReadsStayTrue'
        BY <3>1, <3>2 DEF ReadsStayTrue, HasCompletedPayment
      <3>6. CreditsAreAccounted'
        <4>1. lost \subseteq Request
          BY <1>0 DEF TypeOK
        <4>2. QED
          BY <3>1, <4>1 DEF CreditsAreAccounted, HasCompletedPayment
      <3>7. AtMostOneCompleted' /\ CreditedOnceUnlessLost'
        BY <3>1 DEF AtMostOneCompleted, CreditedOnceUnlessLost
      <3>8. QED
        BY <1>0, <3>3, <3>4, <3>5, <3>6, <3>7
    <2>2. ASSUME NEW s \in Slot, InsertPending(r, s) PROVE PaymentInv'
      <3>1. /\ pc[r] = "insert" /\ pc'[r] \in {"insert", "select", "ended"}
            /\ pc'[r] = "insert" => todo'[r] = todo[r] \ {s}
            /\ s \in todo[r] /\ lock[s] = NoRequest /\ history'[r][s] = "PENDING"
            /\ \A q \in Request \ {r} : pc'[q] = pc[q] /\ todo'[q] = todo[q]
            /\ \A q \in Request, u \in Slot : q # r \/ u # s => history'[q][u] = history[q][u]
            /\ UNCHANGED <<lock, slots, winner, chosen, credited, lost, inflight>>
        BY <1>0, <2>2 DEF InsertPending, TypeOK
      <3>2. \A q \in Request : InTx(q)' <=> InTx(q)
        BY <3>1 DEF InTx
      <3>3. \A u \in Slot : HasCompletedPayment(u)' <=> HasCompletedPayment(u)
        BY <3>1 DEF RowsAppearOnInsert, HasCompletedPayment
      <3>4. RowsAppearOnInsert'
        BY <3>1 DEF RowsAppearOnInsert
      <3>5. LocksAreHeld'
        <4>1. \A u \in Slot : lock[u] # NoRequest => lock[u] \in Request
          BY <1>0 DEF TypeOK
        <4>2. QED
          BY <3>1, <3>2, <4>1 DEF LocksAreHeld
      <3>6. ReadsStayTrue'
        <4>1. \A q \in Request, u \in Slot :
                InTx(q) /\ u \in chosen[q] => u # s /\ winner[q][u] \in Request
          BY <1>0, <3>1 DEF TypeOK, ReadsStayTrue, LocksAreHeld
        <4>2. \A q \in Request : chosen[q] \subseteq Slot
          BY <1>0 DEF TypeOK
        <4>3. QED
          BY <3>1, <3>2, <3>3, <4>1, <4>2 DEF ReadsStayTrue
      <3>7. CreditsAreAccounted'
        <4>1. lost \subseteq Request
          BY <1>0 DEF TypeOK
        <4>2. QED
          BY <3>1, <3>3, <4>1 DEF CreditsAreAccounted
      <3>8. AtMostOneCompleted' /\ CreditedOnceUnlessLost'
        BY <3>1 DEF AtMostOneCompleted, CreditedOnceUnlessLost
      <3>9. QED
        BY <1>0, <3>4, <3>5, <3>6, <3>7, <3>8
    <2>3. CASE SelectPending(r)
      <3>1. /\ pc[r] = "select" /\ pc'[r] = "lambda" /\ chosen'[r] = Payable(r)
            /\ \A s \in slots[r] : lock[s] = NoRequest
            /\ \A s \in Slot : lock'[s] = IF s \in slots[r] THEN r ELSE lock[s]
            /\ \A s \in Payable(r) : winner'[r][s] \in RowsWith("PENDING", s)
            /\ \A q \in Request \ {r} :
                 pc'[q] = pc[q] /\ chosen'[q] = chosen[q] /\ winner'[q] = winner[q]
            /\ UNCHANGED <<history, slots, todo, credited, lost, inflight>>
        <4>1. Payable(r) \subseteq Slot
          BY <1>0 DEF TypeOK, Payable
        <4>2. QED
          BY <1>0, <2>3, <4>1 DEF SelectPending, TypeOK
      <3>2. \A q \in Request : InTx(q)' <=> q = r \/ InTx(q)
        BY <3>1 DEF InTx
      <3>3. RowsAppearOnInsert'
        BY <3>1 DEF RowsAppearOnInsert
      <3>4. LocksAreHeld'
        <4>1. \A s \in Slot : lock[s] # NoRequest => lock[s] \in Request
          BY <1>0 DEF TypeOK
        <4>2. QED
          BY <3>1, <3>2, <4>1 DEF LocksAreHeld
      <3>5. ReadsStayTrue'
        BY <3>1, <3>2 DEF ReadsStayTrue, HasCompletedPayment, Payable, RowsWith
      <3>6. CreditsAreAccounted'
        <4>1. lost \subseteq Request
          BY <1>0 DEF TypeOK
        <4>2. QED
          BY <3>1, <4>1 DEF CreditsAreAccounted, HasCompletedPayment
      <3>7. AtMostOneCompleted' /\ CreditedOnceUnlessLost'
        BY <3>1 DEF AtMostOneCompleted, CreditedOnceUnlessLost
      <3>8. QED
        BY <1>0, <3>3, <3>4, <3>5, <3>6, <3>7
    <2>4. CASE NothingPending(r)
      <3>1. /\ pc[r] = "select" /\ pc' = [pc EXCEPT ![r] = "ended"]
            /\ UNCHANGED <<history, lock, slots, todo, winner, chosen, credited, lost, inflight>>
        BY <2>4 DEF NothingPending
      <3>2. QED
        BY <1>0, <3>1, QuietStep
    <2>5. CASE LambdaCredits(r)
      <3>1. LambdaEffect(r, chosen[r], {}, "commit")
        BY <2>5 DEF LambdaCredits, LambdaEffect
      <3>2. QED
        BY <1>0, <3>1, LambdaStep
    <2>6. CASE Commit(r)
      <3>1. CommitEffect(r, {}, "paid")
        BY <2>6 DEF Commit, CommitEffect
      <3>2. QED
        BY <1>0, <3>1, CommitStep
    <2>7. CASE Rollback(r)
      <3>1. UnlockEffect(r, "fail")
        BY <2>7 DEF Rollback, UnlockEffect
      <3>2. QED
        BY <1>0, <3>1, UnlockStep
    <2>8. CASE MarkFailed(r)
      <3>1. /\ pc[r] = "fail" /\ pc'[r] = "failed"
            /\ \A s \in slots[r] : lock[s] = NoRequest
            /\ \A q \in Request, s \in Slot :
                 history'[q][s] = IF s \in slots[r] /\ history[q][s] = "PENDING"
                                  THEN "FAILED" ELSE history[q][s]
            /\ \A q \in Request \ {r} : pc'[q] = pc[q]
            /\ UNCHANGED <<lock, slots, todo, winner, chosen, credited, lost, inflight>>
        BY <1>0, <2>8 DEF MarkFailed, TypeOK
      <3>2. /\ \A q \in Request : InTx(q)' <=> InTx(q)
            /\ \A s \in Slot : HasCompletedPayment(s)' <=> HasCompletedPayment(s)
        BY <3>1 DEF InTx, HasCompletedPayment
      <3>3. RowsAppearOnInsert'
        BY <3>1 DEF RowsAppearOnInsert
      <3>4. LocksAreHeld'
        <4>1. \A s \in Slot : lock[s] # NoRequest => lock[s] \in Request
          BY <1>0 DEF TypeOK
        <4>2. QED
          BY <3>1, <3>2, <4>1 DEF LocksAreHeld
      <3>5. ReadsStayTrue'
        <4>1. \A q \in Request, s \in Slot :
                InTx(q) /\ s \in chosen[q] => s \notin slots[r] /\ winner[q][s] \in Request
          BY <1>0, <3>1 DEF TypeOK, ReadsStayTrue, LocksAreHeld
        <4>2. \A q \in Request : chosen[q] \subseteq Slot
          BY <1>0 DEF TypeOK
        <4>3. QED
          BY <3>1, <3>2, <4>1, <4>2 DEF ReadsStayTrue
      <3>6. CreditsAreAccounted'
        <4>1. lost \subseteq Request
          BY <1>0 DEF TypeOK
        <4>2. QED
          BY <3>1, <3>2, <4>1 DEF CreditsAreAccounted
      <3>7. AtMostOneCompleted' /\ CreditedOnceUnlessLost'
        BY <3>1 DEF AtMostOneCompleted, CreditedOnceUnlessLost
      <3>8. QED
        BY <1>0, <3>3, <3>4, <3>5, <3>6, <3>7
    <2>9. QED
      BY <1>2, <2>1, <2>2, <2>3, <2>4, <2>5, <2>6, <2>7, <2>8 DEF PaymentStep
  <1>3. ASSUME NEW r \in Request, PaymentFault(r) PROVE PaymentInv'
    <2>1. CASE InsertFails(r)
      <3>1. /\ pc[r] = "insert" /\ pc' = [pc EXCEPT ![r] = "ended"]
            /\ UNCHANGED <<history, lock, slots, todo, winner, chosen, credited, lost, inflight>>
        BY <2>1 DEF InsertFails
      <3>2. QED
        BY <1>0, <3>1, QuietStep
    <2>2. CASE SelectFails(r)
      <3>1. /\ pc[r] = "select" /\ pc' = [pc EXCEPT ![r] = "failed"]
            /\ UNCHANGED <<history, lock, slots, todo, winner, chosen, credited, lost, inflight>>
        BY <2>2 DEF SelectFails
      <3>2. QED
        BY <1>0, <3>1, QuietStep
    <2>3. CASE LambdaRefuses(r)
      <3>1. LambdaEffect(r, {}, {}, "rollback")
        BY <2>3 DEF LambdaRefuses, LambdaEffect
      <3>2. QED
        BY <1>0, <3>1, LambdaStep
    <2>4. CASE LambdaReplyLost(r)
      <3>1. LambdaEffect(r, {}, {r}, "rollback")
        BY <2>4 DEF LambdaReplyLost, LambdaEffect
      <3>2. QED
        BY <1>0, <3>1, LambdaStep
    <2>5. ASSUME NEW S \in SUBSET chosen[r], LambdaFunctionError(r, S) PROVE PaymentInv'
      <3>1. LambdaEffect(r, S, {}, "commit")
        BY <2>5 DEF LambdaFunctionError, LambdaEffect
      <3>2. QED
        BY <1>0, <3>1, LambdaStep
    <2>6. ASSUME NEW S \in SUBSET chosen[r], LateCredit(r, S) PROVE PaymentInv'
      <3>1. /\ r \in inflight /\ r \in lost
            /\ pc[r] \in {"rollback", "fail", "failed", "crashed"}
            /\ inflight' = inflight \ {r}
            /\ UNCHANGED <<history, lock, pc, slots, todo, winner, chosen, lost>>
            /\ \A q \in Request, s \in Slot :
                 <<q, s>> \in credited' => <<q, s>> \in credited \/ q = r
        BY <2>6 DEF LateCredit, CreditsAreAccounted
      <3>2. RowsAppearOnInsert' /\ LocksAreHeld' /\ ReadsStayTrue'
        BY <3>1 DEF RowsAppearOnInsert, LocksAreHeld, ReadsStayTrue, InTx, HasCompletedPayment
      <3>3. CreditsAreAccounted'
        BY <3>1 DEF CreditsAreAccounted, HasCompletedPayment
      <3>4. AtMostOneCompleted' /\ CreditedOnceUnlessLost'
        BY <3>1 DEF AtMostOneCompleted, CreditedOnceUnlessLost
      <3>5. QED
        BY <1>0, <3>2, <3>3, <3>4
    <2>7. CASE CommitFails(r)
      <3>1. CASE history' = Committed(r)
        <4>1. CommitEffect(r, {r}, "fail")
          BY <2>7, <3>1 DEF CommitFails, CommitEffect
        <4>2. QED
          BY <1>0, <4>1, CommitStep
      <3>2. CASE UNCHANGED history
        <4>1. UnlockEffect(r, "fail")
          BY <2>7, <3>2 DEF CommitFails, UnlockEffect
        <4>2. QED
          BY <1>0, <4>1, UnlockStep
      <3>3. QED
        BY <2>7, <3>1, <3>2 DEF CommitFails
    <2>8. CASE MarkFailedFails(r)
      <3>1. /\ pc[r] = "fail" /\ pc' = [pc EXCEPT ![r] = "failed"]
            /\ UNCHANGED <<history, lock, slots, todo, winner, chosen, credited, lost, inflight>>
        BY <2>8 DEF MarkFailedFails
      <3>2. QED
        BY <1>0, <3>1, QuietStep
    <2>9. CASE Crash(r)
      <3>1. UnlockEffect(r, "crashed")
        BY <2>9 DEF Crash, UnlockEffect, Ended
      <3>2. QED
        BY <1>0, <3>1, UnlockStep
    <2>10. QED
      BY <1>3, <2>1, <2>2, <2>3, <2>4, <2>5, <2>6, <2>7, <2>8, <2>9
         DEF PaymentFault
  <1>4. ASSUME UNCHANGED <<history, lock, payVars, credited, lost, inflight>> PROVE PaymentInv'
    BY <1>0, <1>4 DEF RowsAppearOnInsert, LocksAreHeld, ReadsStayTrue, InTx,
       HasCompletedPayment, CreditsAreAccounted, AtMostOneCompleted, CreditedOnceUnlessLost
  <1>5. ASSUME NEW i \in Invalidation, InvalidationStep(i) PROVE PaymentInv'
    BY <1>4, <1>5 DEF InvalidationStep, LoadTimeSlot, CheckPayment, Invalidate,
       ResumeProject, InvalidationFails
  <1>6. ASSUME NEW s \in Slot, NEW a \in Amount, SetHonorarium(s, a) PROVE PaymentInv'
    BY <1>4, <1>6 DEF SetHonorarium
  <1>7. CASE UNCHANGED vars \/ Finished
    BY <1>4, <1>7 DEF Finished, vars
  <1>8. QED
    BY <1>2, <1>3, <1>5, <1>6, <1>7 DEF Next

-----------------------------------------------------------------------------
(* Safety *)

\* PaymentInv holds in every reachable state.
THEOREM Invariance == Spec => []PaymentInv
  BY InitInv, InvStep, PTL DEF Spec

\* Every variable keeps its type.
THEOREM TypeCorrect == Spec => []TypeOK
  BY Invariance, PTL DEF PaymentInv

\* A slot is settled by at most one row, whatever requests run concurrently,
\* fail or crash.
THEOREM OneSettlement == Spec => []AtMostOneCompleted
  BY Invariance, PTL DEF PaymentInv

\* A slot is credited by two requests only if one did not learn its outcome.
THEOREM OneCredit == Spec => []CreditedOnceUnlessLost
  BY Invariance, PTL DEF PaymentInv

\* No step changes the status of a row that has a final one.
LEMMA FinalStatusStep ==
  ASSUME PaymentInv, [Next]_vars, NEW r \in Request, NEW s \in Slot,
         history[r][s] \in {"COMPLETED", "CANCELED", "FAILED"}
  PROVE  history'[r][s] = history[r][s]
  <1> USE DEF PaymentInv, TypeOK
  <1>1. ASSUME NEW q \in Request, NEW u \in Slot, InsertPending(q, u)
        PROVE  history'[r][s] = history[r][s]
    BY <1>1 DEF InsertPending, RowsAppearOnInsert
  <1>2. ASSUME NEW q \in Request, pc[q] = "commit", history' = Committed(q)
        PROVE  history'[r][s] = history[r][s]
    <2>1. s \in chosen[q] => ~HasCompletedPayment(s) /\ history[winner[q][s]][s] = "PENDING"
      BY <1>2 DEF ReadsStayTrue, InTx
    <2>2. QED
      BY <1>2, <2>1 DEF Committed
  <1>3. ASSUME NEW q \in Request, MarkFailed(q) PROVE history'[r][s] = history[r][s]
    BY <1>3 DEF MarkFailed
  <1>4. CASE UNCHANGED history
    BY <1>4
  <1>5. \/ \E q \in Request, u \in Slot : InsertPending(q, u)
        \/ \E q \in Request : pc[q] = "commit" /\ history' = Committed(q)
        \/ \E q \in Request : MarkFailed(q)
        \/ UNCHANGED history
    <2>1. ASSUME NEW q \in Request, PaymentStep(q)
          PROVE \/ \E u \in Slot : InsertPending(q, u)
                \/ pc[q] = "commit" /\ history' = Committed(q)
                \/ MarkFailed(q)
                \/ UNCHANGED history
      BY <2>1 DEF PaymentStep, ReadPaymentInfo, SelectPending, NothingPending, LambdaCredits,
         Commit, Rollback
    <2>2. ASSUME NEW q \in Request, PaymentFault(q)
          PROVE  (pc[q] = "commit" /\ history' = Committed(q)) \/ UNCHANGED history
      BY <2>2 DEF PaymentFault, InsertFails, SelectFails, LambdaRefuses, LambdaReplyLost,
         LambdaFunctionError, LateCredit, CommitFails, MarkFailedFails, Crash
    <2>3. ASSUME NEW i \in Invalidation, InvalidationStep(i) PROVE UNCHANGED history
      BY <2>3 DEF InvalidationStep, LoadTimeSlot, CheckPayment, Invalidate,
       ResumeProject, InvalidationFails
    <2>4. ASSUME NEW u \in Slot, NEW a \in Amount, SetHonorarium(u, a) PROVE UNCHANGED history
      BY <2>4 DEF SetHonorarium
    <2>5. QED
      BY <2>1, <2>2, <2>3, <2>4 DEF Next, Finished, vars
  <1>6. QED
    BY <1>1, <1>2, <1>3, <1>4, <1>5

\* A COMPLETED, CANCELED or FAILED row keeps its status for ever.
THEOREM StatusIsFinal == Spec => FinalStatusIsKept
  <1>1. PaymentInv /\ [Next]_vars
          => [\A r \in Request, s \in Slot :
                history[r][s] \in {"COMPLETED", "CANCELED", "FAILED"}
                  => history'[r][s] = history[r][s]]_vars
    BY FinalStatusStep
  <1>2. QED
    BY <1>1, Invariance, PTL DEF Spec, FinalStatusIsKept

-----------------------------------------------------------------------------
(* Refinement of the ledger *)

settledSlots == {s \in Slot : HasCompletedPayment(s)}

\* A step by which a request gives up changes nothing else in the ledger.
LEMMA GivingUpIsConclude ==
  ASSUME NEW A \in SUBSET Request, lost' = lost \cup A, UNCHANGED <<history, credited>>
  PROVE  Ledger!LedgerNext
  <1>1. settledSlots' = settledSlots
    BY DEF settledSlots, HasCompletedPayment
  <1>2. Ledger!Conclude({}, A)
    BY <1>1 DEF Ledger!Conclude, settledSlots
  <1>3. QED
    BY <1>2 DEF Ledger!LedgerNext

\* A step of a transaction that sends money is a Credit of the ledger.
LEMMA LambdaIsCredit ==
  ASSUME PaymentInv, NEW r \in Request, NEW S, NEW st, LambdaEffect(r, S, {}, st)
  PROVE  Ledger!LedgerNext
  <1>1. S \subseteq Slot /\ \A s \in S : ~HasCompletedPayment(s)
    BY DEF PaymentInv, TypeOK, ReadsStayTrue, InTx, LambdaEffect
  <1>2. settledSlots' = settledSlots
    BY DEF settledSlots, HasCompletedPayment, LambdaEffect
  <1>3. Ledger!Credit(r, S)
    BY <1>1, <1>2 DEF Ledger!Credit, settledSlots, LambdaEffect
  <1>4. S \in SUBSET Slot
    BY <1>1
  <1>5. QED
    BY <1>3, <1>4 DEF Ledger!LedgerNext

\* So is the step of a Lambda whose request has given up on it.
LEMMA LateCreditIsCredit ==
  ASSUME PaymentInv, NEW r \in Request, NEW S \in SUBSET chosen[r], LateCredit(r, S)
  PROVE  Ledger!LedgerNext
  <1>1. S \in SUBSET Slot /\ r \in lost
    BY DEF PaymentInv, TypeOK, CreditsAreAccounted, LateCredit
  <1>2. settledSlots' = settledSlots
    BY DEF settledSlots, HasCompletedPayment, LateCredit
  <1>3. Ledger!Credit(r, S)
    BY <1>1, <1>2 DEF Ledger!Credit, settledSlots, LateCredit
  <1>4. QED
    BY <1>1, <1>3 DEF Ledger!LedgerNext

\* A step that commits is a Conclude of the ledger.
LEMMA CommitIsConclude ==
  ASSUME PaymentInv, NEW r \in Request, NEW L \in SUBSET Request, NEW st,
         CommitEffect(r, L, st)
  PROVE  Ledger!LedgerNext
  <1>1. /\ chosen[r] \subseteq Slot
        /\ \A s \in chosen[r] : ~HasCompletedPayment(s) /\ winner[r][s] \in Request
    BY DEF PaymentInv, TypeOK, ReadsStayTrue, InTx, CommitEffect
  <1>2. \A q \in Request, s \in Slot :
          history'[q][s] = IF s \notin chosen[r] THEN history[q][s]
                           ELSE IF q = winner[r][s] THEN "COMPLETED"
                           ELSE IF history[q][s] = "PENDING" THEN "CANCELED"
                           ELSE history[q][s]
    BY DEF CommitEffect, Committed
  <1>3. \A s \in Slot : HasCompletedPayment(s)' <=> s \in chosen[r] \/ HasCompletedPayment(s)
    BY <1>1, <1>2 DEF HasCompletedPayment
  <1>4. settledSlots' = settledSlots \cup chosen[r]
    BY <1>1, <1>3 DEF settledSlots
  <1>5. Ledger!Conclude(chosen[r], L)
    BY <1>1, <1>4 DEF Ledger!Conclude, settledSlots, CommitEffect
  <1>6. chosen[r] \in SUBSET Slot
    BY <1>1
  <1>7. QED
    BY <1>5, <1>6 DEF Ledger!LedgerNext

\* A step that changes no COMPLETED row and sends no money stutters.
LEMMA OtherIsStutter ==
  ASSUME UNCHANGED <<credited, lost>>,
         \A s \in Slot : HasCompletedPayment(s)' <=> HasCompletedPayment(s)
  PROVE  UNCHANGED Ledger!ledgerVars
  <1>1. settledSlots' = settledSlots
    BY DEF settledSlots
  <1>2. QED
    BY <1>1 DEF Ledger!ledgerVars, settledSlots

\* Every step is a step of the ledger or stutters.
LEMMA LedgerStep == PaymentInv /\ [Next]_vars => [Ledger!LedgerNext]_Ledger!ledgerVars
  <1> SUFFICES ASSUME PaymentInv, [Next]_vars PROVE [Ledger!LedgerNext]_Ledger!ledgerVars
    OBVIOUS
  <1>1. ASSUME UNCHANGED <<history, credited, lost>>
        PROVE  UNCHANGED Ledger!ledgerVars
    BY <1>1, OtherIsStutter DEF HasCompletedPayment
  <1>2. ASSUME NEW r \in Request, PaymentStep(r) PROVE [Ledger!LedgerNext]_Ledger!ledgerVars
    <2>1. ASSUME NEW S \in SUBSET Slot, ReadPaymentInfo(r, S)
          PROVE UNCHANGED <<history, credited, lost>>
      BY <2>1 DEF ReadPaymentInfo
    <2>2. ASSUME NEW s \in Slot, InsertPending(r, s) PROVE UNCHANGED Ledger!ledgerVars
      <3>1. \A u \in Slot : HasCompletedPayment(u)' <=> HasCompletedPayment(u)
        BY <2>2 DEF InsertPending, HasCompletedPayment, PaymentInv, TypeOK, RowsAppearOnInsert
      <3>2. QED
        BY <2>2, <3>1, OtherIsStutter DEF InsertPending
    <2>3. CASE SelectPending(r) \/ NothingPending(r) \/ Rollback(r)
      BY <1>1, <2>3 DEF SelectPending, NothingPending, Rollback
    <2>4. CASE LambdaCredits(r)
      <3>1. LambdaEffect(r, chosen[r], {}, "commit")
        BY <2>4 DEF LambdaCredits, LambdaEffect, payVars
      <3>2. QED
        BY <3>1, LambdaIsCredit
    <2>5. CASE Commit(r)
      <3>1. CommitEffect(r, {}, "paid")
        BY <2>5 DEF Commit, CommitEffect
      <3>2. QED
        BY <3>1, CommitIsConclude
    <2>6. CASE MarkFailed(r)
      <3>1. \A u \in Slot : HasCompletedPayment(u)' <=> HasCompletedPayment(u)
        BY <2>6 DEF MarkFailed, HasCompletedPayment, PaymentInv, TypeOK
      <3>2. QED
        BY <2>6, <3>1, OtherIsStutter DEF MarkFailed
    <2>7. QED
      BY <1>1, <1>2, <2>1, <2>2, <2>3, <2>4, <2>5, <2>6 DEF PaymentStep
  <1>3. ASSUME NEW r \in Request, PaymentFault(r) PROVE [Ledger!LedgerNext]_Ledger!ledgerVars
    <2>1. CASE \/ InsertFails(r) \/ SelectFails(r) \/ LambdaRefuses(r) \/ MarkFailedFails(r)
      BY <1>1, <2>1 DEF InsertFails, SelectFails, LambdaRefuses, MarkFailedFails
    <2>2. CASE LambdaReplyLost(r)
      BY <2>2, GivingUpIsConclude DEF LambdaReplyLost
    <2>3. CASE Crash(r)
      <3>1. UNCHANGED <<history, credited>> /\ (lost' = lost \cup {r} \/ lost' = lost)
        BY <2>3 DEF Crash
      <3>2. QED
        BY <1>1, <3>1, GivingUpIsConclude
    <2>4. ASSUME NEW S \in SUBSET chosen[r], LateCredit(r, S) PROVE Ledger!LedgerNext
      BY <2>4, LateCreditIsCredit
    <2>5. ASSUME NEW S \in SUBSET chosen[r], LambdaFunctionError(r, S)
          PROVE  Ledger!LedgerNext
      <3>1. LambdaEffect(r, S, {}, "commit")
        BY <2>5 DEF LambdaFunctionError, LambdaEffect
      <3>2. QED
        BY <3>1, LambdaIsCredit
    <2>6. CASE CommitFails(r)
      <3>1. CASE history' = Committed(r)
        <4>1. CommitEffect(r, {r}, "fail")
          BY <2>6, <3>1 DEF CommitFails, CommitEffect
        <4>2. QED
          BY <4>1, CommitIsConclude
      <3>2. CASE UNCHANGED history
        BY <2>6, <3>2, GivingUpIsConclude DEF CommitFails
      <3>3. QED
        BY <2>6, <3>1, <3>2 DEF CommitFails
    <2>7. QED
      BY <1>3, <2>1, <2>2, <2>3, <2>4, <2>5, <2>6 DEF PaymentFault
  <1>4. ASSUME NEW i \in Invalidation, InvalidationStep(i)
        PROVE  UNCHANGED <<history, credited, lost>>
    BY <1>4 DEF InvalidationStep, LoadTimeSlot, CheckPayment, Invalidate,
       ResumeProject, InvalidationFails
  <1>5. ASSUME NEW s \in Slot, NEW a \in Amount, SetHonorarium(s, a)
        PROVE  UNCHANGED <<history, credited, lost>>
    BY <1>5 DEF SetHonorarium
  <1>6. CASE UNCHANGED vars \/ Finished
    BY <1>1, <1>6 DEF Finished, vars
  <1>7. QED
    BY <1>1, <1>2, <1>3, <1>4, <1>5, <1>6 DEF Next

\* The payment flow implements the ledger: money is sent only for slots that
\* are not settled at that moment, and settlement is final.
THEOREM Refinement == Spec => ImplementsLedger
  <1>1. Init => Ledger!LedgerInit
    BY DEF Init, Ledger!LedgerInit, HasCompletedPayment
  <1>2. QED
    BY <1>1, LedgerStep, Invariance, PTL DEF Spec, ImplementsLedger, Ledger!LedgerSpec
=============================================================================
