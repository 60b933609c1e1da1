------------------------ MODULE InterviewSlotsProofs ------------------------
(***************************************************************************)
(* The properties of InterviewSlots, for any number of calls, slots and    *)
(* moderators.  Of a call under way they say what it still knows if nobody *)
(* has written since it read; SlotInv joins them.                          *)
(***************************************************************************)
EXTENDS InterviewSlots, FiniteSetTheorems, TLAPS

\* A call that is about to change the size, and has not been overtaken.
RoomLeft ==
  \A c \in Call : At(c, "resize") /\ ~stale[c] =>
    /\ Scheduled + Interviewed <= call[c].size
    /\ call[c].status = Completed => Scheduled = 0 /\ Interviewed = call[c].size

\* One that is about to cancel or reschedule.
StillLive == \A c \in Call : At(c, "act") /\ ~stale[c] => slot[call[c].slot].status \notin Actioned

\* One that is past its look for a payment.
LookedFor ==
  /\ \A c \in Call : At(c, "invalidate") => call[c].slot \notin paid \/ call[c].slot \in crossed
  /\ PaidInvalidationHasCause

SlotInv == SlotsTypeOK /\ RoomLeft /\ StillLive /\ LookedFor /\ FinishedKeepsModerators /\ CompletedIsFull

-----------------------------------------------------------------------------
(* Types *)

LEMMA CallTypes ==
  ASSUME NEW k \in Calls
  PROVE  /\ k.at \in {"idle", "assign", "deleteRow", "checkPaid", "invalidate", "resume", "act", "resize"}
         /\ k.at \in {"assign", "deleteRow", "checkPaid", "invalidate", "resume", "act"} => k.slot \in Slot
         /\ k.at = "assign" => k.moderator \in Moderator
         /\ k.at = "act" => k.status \in Actioned
         /\ k.at = "resize" => k.size \in Nat /\ k.status \in {Kept, InProgress, Completed}
         /\ k.at = "checkPaid" => [k EXCEPT !.at = "invalidate"] \in [at : {"invalidate"}, slot : Slot]
         /\ k.at = "invalidate" => [k EXCEPT !.at = "resume"] \in [at : {"resume"}, slot : Slot]
  BY DEF Calls, Idle

LEMMA RowTypes ==
  ASSUME NEW row \in SlotRow
  PROVE  /\ \A st \in SlotStatus : [row EXCEPT !.status = st] \in SlotRow
         /\ [row EXCEPT !.invalidated = TRUE] \in SlotRow
         /\ [row EXCEPT !.over = TRUE] \in SlotRow
         /\ \A st \in SlotStatus, over \in BOOLEAN : [row EXCEPT !.status = st, !.over = over] \in SlotRow
         /\ \A st \in SlotStatus, i, over \in BOOLEAN :
              [row EXCEPT !.status = st, !.invalid = i, !.over = over] \in SlotRow
         /\ NoRow \in SlotRow /\ [NoRow EXCEPT !.status = Deleted] \in SlotRow
  BY DEF SlotRow, SlotStatus, NoRow, Deleted, NotYet

\* Writing a row keeps every type.
LEMMA UpdateTypes ==
  ASSUME SlotsTypeOK, NEW s \in Slot, NEW row \in SlotRow, UpdateSlot(s, row)
  PROVE  slot' \in [Slot -> SlotRow] /\ host' \in [Slot -> SUBSET Moderator] /\ full' \in BOOLEAN
  BY DEF UpdateSlot, SlotsTypeOK

LEMMA StatusTypes ==
  /\ Open \in SlotStatus /\ Pending \in SlotStatus /\ {3, 5, 11, 12} \subseteq SlotStatus
  /\ Actioned \subseteq SlotStatus /\ Finished \subseteq SlotStatus
  BY DEF Open, Pending, SlotStatus, Actioned, Finished

LEMMA StaleTypes ==
  ASSUME SlotsTypeOK, NEW c \in Call, Wrote(c) \/ WroteNothing(c)
  PROVE  stale' \in [Call -> BOOLEAN]
  BY DEF SlotsTypeOK, Wrote, WroteNothing

\* A step of one call: what it becomes is a call again.
LEMMA CallStep ==
  ASSUME SlotsTypeOK, NEW c \in Call, NEW k \in Calls, Goto(c, k)
  PROVE  call' \in [Call -> Calls]
  BY DEF SlotsTypeOK, Goto

LEMMA TypesOfSchedule ==
  ASSUME SlotsTypeOK, NEW c \in Call, NEW s \in Slot, ScheduleStep(c, s)
  PROVE  SlotsTypeOK'
  <1> USE DEF rowVars, projectVars, slotHistory
  <1>0. slot[s] \in SlotRow /\ Idle \in Calls
    BY DEF SlotsTypeOK, Calls
  <1>1. ASSUME NEW m \in Moderator \cup {NoModerator}, ScheduleInterview(c, s, m) PROVE SlotsTypeOK'
    <2>1. slot' \in [Slot -> SlotRow] /\ host' \in [Slot -> SUBSET Moderator] /\ full' \in BOOLEAN
      BY <1>0, <1>1, UpdateTypes, RowTypes, StatusTypes DEF ScheduleInterview
    <2>2. call' \in [Call -> Calls]
      BY <1>0, <1>1, CallStep DEF ScheduleInterview, Assigning, Calls
    <2>3. QED
      BY <1>1, <2>1, <2>2, StaleTypes DEF ScheduleInterview, SlotsTypeOK
  <1>2. ASSUME NEW m \in Moderator \cup {NoModerator}, NEW over \in BOOLEAN, CreateTimeslot(c, s, m, over)
        PROVE SlotsTypeOK'
    <2>1. slot' \in [Slot -> SlotRow]
      BY <1>2, StatusTypes DEF CreateTimeslot, SlotsTypeOK, SlotRow
    <2>2. call' \in [Call -> Calls]
      BY <1>0, <1>2, CallStep DEF CreateTimeslot, Assigning, Calls
    <2>3. QED
      BY <1>2, <2>1, <2>2, StaleTypes DEF CreateTimeslot, SlotsTypeOK
  <1>3. ASSUME NEW row \in SlotRow, UpdateSlot(s, row), Wrote(c),
               UNCHANGED <<mods, projectVars, paid, call, crossed, stripped>>
        PROVE SlotsTypeOK'
    BY <1>3, UpdateTypes, StaleTypes DEF SlotsTypeOK
  <1>4. ASSUME NEW isModerator \in BOOLEAN, CancelInterview(c, s, isModerator) PROVE SlotsTypeOK'
    BY <1>0, <1>3, <1>4, RowTypes, StatusTypes DEF CancelInterview
  <1>5. ASSUME NEW isModerator \in BOOLEAN, NEW over \in BOOLEAN, RescheduleInterview(c, s, isModerator, over)
        PROVE SlotsTypeOK'
    BY <1>0, <1>3, <1>5, RowTypes, StatusTypes DEF RescheduleInterview
  <1>6. ASSUME NEW e \in Edits, NEW over \in BOOLEAN, UpdateTimeslot(c, s, e, over) PROVE SlotsTypeOK'
    <2>1. e.status \in SlotStatus /\ e.invalid \in BOOLEAN
      BY InputsAssumption
    <2>2. [slot[s] EXCEPT !.status = e.status, !.invalid = e.invalid, !.over = over] \in SlotRow
      BY <1>0, <2>1, RowTypes
    <2>3. QED
      BY <1>3, <1>6, <2>2 DEF UpdateTimeslot
  <1>7. CASE DeleteTimeslot(c, s)
    <2>1. call' \in [Call -> Calls]
      BY <1>7, CallStep DEF DeleteTimeslot, Calls
    <2>2. QED
      BY <1>7, <2>1, StaleTypes DEF DeleteTimeslot, SlotsTypeOK
  <1>8. ASSUME NEW action \in Actions, CancelRescheduleAction(c, s, action) PROVE SlotsTypeOK'
    <2>1. StatusOf[action] \in Actioned
      BY ActionsAssumption DEF StatusOf, Actioned
    <2>2. call' \in [Call -> Calls]
      BY <1>8, <2>1, CallStep DEF CancelRescheduleAction, Calls
    <2>3. QED
      BY <1>8, <2>2 DEF CancelRescheduleAction, SlotsTypeOK
  <1>9. CASE LoadTimeSlot(c, s)
    <2>1. call' \in [Call -> Calls]
      BY <1>9, CallStep DEF LoadTimeSlot, Calls
    <2>2. QED
      BY <1>9, <2>1 DEF LoadTimeSlot, SlotsTypeOK
  <1>10. QED
    BY <1>1, <1>2, <1>4, <1>5, <1>6, <1>7, <1>8, <1>9 DEF ScheduleStep

LEMMA TypesOfProject ==
  ASSUME SlotsTypeOK, NEW c \in Call, ProjectStep(c)
  PROVE  SlotsTypeOK'
  <1> USE DEF rowVars, projectVars, slotHistory
  <1>1. ASSUME NEW n \in Sizes, UpdateSampleSize(c, n) PROVE SlotsTypeOK'
    <2>1. n \in Nat /\ StatusFor(n) \in {Kept, InProgress, Completed}
      BY SizesAssumption DEF StatusFor
    <2>2. call' \in [Call -> Calls]
      BY <1>1, <2>1, CallStep DEF UpdateSampleSize, Calls
    <2>3. QED
      BY <1>1, <2>2 DEF UpdateSampleSize, SlotsTypeOK
  <1>2. ASSUME NEW e \in HandEdits, UpdateProject(c, e) PROVE SlotsTypeOK'
    <2>1. e.status \in {Defining, InProgress, Completed, Canceled} /\ e.size \in Nat
      BY InputsAssumption
    <2>2. QED
      BY <1>2, <2>1, StaleTypes DEF UpdateProject, SlotsTypeOK
  <1>3. CASE DeleteProject(c)
    BY <1>3, StaleTypes DEF DeleteProject, SlotsTypeOK
  <1>4. CASE ResetProjectModerators(c)
    BY <1>4, StaleTypes DEF ResetProjectModerators, SlotsTypeOK
  <1>5. QED
    BY <1>1, <1>2, <1>3, <1>4 DEF ProjectStep

LEMMA TypesOfContinue ==
  ASSUME SlotsTypeOK, NEW c \in Call, Continue(c)
  PROVE  SlotsTypeOK'
  <1> USE DEF rowVars, projectVars, slotHistory
  <1>0. call[c] \in Calls /\ Idle \in Calls
    BY DEF SlotsTypeOK, Calls
  <1>1. ASSUME Goto(c, Idle) PROVE call' \in [Call -> Calls]
    BY <1>0, <1>1, CallStep
  <1>2. CASE AssignModerator(c)
    <2>1. call[c].slot \in Slot /\ call[c].moderator \in Moderator
      BY <1>0, <1>2, CallTypes DEF AssignModerator, At
    <2>2. QED
      BY <1>1, <1>2, <2>1, StaleTypes DEF AssignModerator, SlotsTypeOK
  <1>3. CASE AssignFails(c) \/ DeleteRowFails(c) \/ ResumeFails(c) \/ CallFails(c)
    BY <1>1, <1>3, StaleTypes DEF AssignFails, DeleteRowFails, ResumeFails, CallFails, SlotsTypeOK
  <1>4. CASE DeleteRow(c)
    <2>1. call[c].slot \in Slot
      BY <1>0, <1>4, CallTypes DEF DeleteRow, At
    <2>2. slot' \in [Slot -> SlotRow]
      BY <1>4, <2>1, slot[call[c].slot] \in SlotRow, RowTypes DEF DeleteRow, SlotsTypeOK
    <2>3. QED
      BY <1>1, <1>4, <2>2, StaleTypes DEF DeleteRow, SlotsTypeOK
  <1>5. CASE Act(c)
    <2>1. call[c].slot \in Slot /\ call[c].status \in SlotStatus
      BY <1>0, <1>5, CallTypes, StatusTypes DEF Act, At
    <2>2. [slot[call[c].slot] EXCEPT !.status = call[c].status] \in SlotRow
      BY <2>1, RowTypes DEF SlotsTypeOK
    <2>3. slot' \in [Slot -> SlotRow] /\ host' \in [Slot -> SUBSET Moderator] /\ full' \in BOOLEAN
      BY <1>5, <2>1, <2>2, UpdateTypes DEF Act
    <2>4. QED
      BY <1>1, <1>5, <2>3, StaleTypes DEF Act, SlotsTypeOK
  <1>6. CASE CheckPaid(c)
    <2>1. [call[c] EXCEPT !.at = "invalidate"] \in Calls
      BY <1>0, <1>6, CallTypes DEF CheckPaid, At, Calls
    <2>2. call' \in [Call -> Calls]
      BY <1>1, <1>6, <2>1, CallStep DEF CheckPaid
    <2>3. stale' \in [Call -> BOOLEAN]
      BY <1>6, StaleTypes DEF CheckPaid, SlotsTypeOK
    <2>4. QED
      BY <1>6, <2>2, <2>3 DEF CheckPaid, SlotsTypeOK
  <1>7. CASE Invalidate(c)
    <2>1. call[c].slot \in Slot /\ [call[c] EXCEPT !.at = "resume"] \in Calls
      BY <1>0, <1>7, CallTypes DEF Invalidate, At, Calls
    <2>2. slot' \in [Slot -> SlotRow]
      BY <1>7, <2>1, slot[call[c].slot] \in SlotRow, RowTypes DEF Invalidate, SlotsTypeOK
    <2>3. call' \in [Call -> Calls]
      BY <1>7, <2>1, CallStep DEF Invalidate
    <2>4. QED
      BY <1>7, <2>2, <2>3, StaleTypes DEF Invalidate, SlotsTypeOK
  <1>8. CASE ResumeProject(c)
    BY <1>1, <1>8, StaleTypes DEF ResumeProject, SlotsTypeOK
  <1>9. CASE Resize(c)
    <2>1. call[c].size \in Nat /\ call[c].status \in {Kept, InProgress, Completed}
      BY <1>0, <1>9, CallTypes DEF Resize, At
    <2>2. QED
      BY <1>1, <1>9, <2>1, StaleTypes DEF Resize, SlotsTypeOK
  <1>10. QED
    BY <1>2, <1>3, <1>4, <1>5, <1>6, <1>7, <1>8, <1>9 DEF Continue

-----------------------------------------------------------------------------
(* What a call still knows *)

\* Nobody who has not been overtaken knows of anything when a call writes.
LEMMA WriteKeeps ==
  ASSUME SlotsTypeOK, NEW c \in Call, Wrote(c), \A d \in Call \ {c} : call'[d] = call[d],
         call'[c].at \notin {"resize", "act"}
  PROVE  RoomLeft' /\ StillLive'
  BY DEF SlotsTypeOK, Wrote, At, RoomLeft, StillLive

LEMMA ReadKeeps ==
  ASSUME SlotsTypeOK, RoomLeft, StillLive, NEW c \in Call, UNCHANGED slot,
         \A d \in Call \ {c} : call'[d] = call[d] /\ stale'[d] = stale[d],
         call'[c].at \notin {"resize", "act"}
  PROVE  RoomLeft' /\ StillLive'
  BY DEF RoomLeft, StillLive, At, Scheduled, Interviewed

\* A call that starts or goes on alone.
LEMMA OneCall ==
  ASSUME SlotsTypeOK, NEW c \in Call, NEW k, Goto(c, k)
  PROVE  call'[c] = k /\ \A d \in Call \ {c} : call'[d] = call[d]
  BY DEF SlotsTypeOK, Goto

LEMMA CountTypes == Scheduled \in Nat /\ Interviewed \in Nat
  <1>1. \A S \in SUBSET Slot : IsFiniteSet(S) /\ Cardinality(S) \in Nat
    BY SlotAssumption, FS_Subset, FS_CardinalityType
  <1>2. QED
    BY <1>1 DEF Scheduled, Interviewed

\* The end of an interview takes one from those to come at most.
LEMMA EndingCounts ==
  ASSUME SlotsTypeOK, NEW s \in Slot, InterviewEnds(s)
  PROVE  Scheduled' <= Scheduled /\ Interviewed' = Interviewed /\ Scheduled' \in Nat
  <1>1. \A S \in SUBSET Slot : IsFiniteSet(S) /\ Cardinality(S) \in Nat
    BY SlotAssumption, FS_Subset, FS_CardinalityType
  <1> DEFINE come == {t \in Slot : slot[t].status = Pending /\ ~slot[t].invalid /\ ~slot[t].over}
             come2 == {t \in Slot : slot'[t].status = Pending /\ ~slot'[t].invalid /\ ~slot'[t].over}
  <1>2. \A t \in Slot : /\ slot'[t].status = slot[t].status /\ slot'[t].invalid = slot[t].invalid
                        /\ slot'[t].invalidated = slot[t].invalidated
                        /\ slot[t].over => slot'[t].over
    BY DEF InterviewEnds, SlotsTypeOK, SlotRow
  <1>3. come2 \subseteq come
    BY <1>2
  <1>4. Cardinality(come2) <= Cardinality(come)
    BY <1>1, <1>3, FS_Subset
  <1>5. {t \in Slot : slot'[t].status = 9 /\ ~slot'[t].invalid /\ ~slot'[t].invalidated}
          = {t \in Slot : slot[t].status = 9 /\ ~slot[t].invalid /\ ~slot[t].invalidated}
    BY <1>2
  <1>6. QED
    BY <1>1, <1>4, <1>5 DEF Scheduled, Interviewed

\* The handlers that set a slot's status, in one form.
Overwrites(c, s) ==
  /\ \E row \in SlotRow : UpdateSlot(s, row) /\ row.invalidated = slot[s].invalidated
  /\ Wrote(c)
  /\ \A d \in Call \ {c} : call'[d] = call[d]
  /\ call'[c].at \in {"idle", "assign"}
  /\ UNCHANGED <<mods, projectVars, paid, crossed, stripped>>

LEMMA StatusSetters ==
  ASSUME SlotsTypeOK, NEW c \in Call, NEW s \in Slot,
         \/ \E m \in Moderator \cup {NoModerator} : ScheduleInterview(c, s, m)
         \/ \E isModerator \in BOOLEAN : CancelInterview(c, s, isModerator)
         \/ \E isModerator, over \in BOOLEAN : RescheduleInterview(c, s, isModerator, over)
         \/ \E e \in Edits, over \in BOOLEAN : UpdateTimeslot(c, s, e, over)
         \/ Act(c) /\ s = call[c].slot
  PROVE  Overwrites(c, s)
  <1>0. slot[s] \in SlotRow /\ call[c] \in Calls
    BY DEF SlotsTypeOK
  <1> DEFINE same(row) == row.invalidated = slot[s].invalidated
  <1>1. ASSUME NEW m \in Moderator \cup {NoModerator}, ScheduleInterview(c, s, m) PROVE Overwrites(c, s)
    <2> DEFINE row == [slot[s] EXCEPT !.status = Pending]
    <2>1. row \in SlotRow /\ same(row)
      BY <1>0, RowTypes, StatusTypes DEF SlotRow
    <2>2. call'[c].at \in {"idle", "assign"} /\ \A d \in Call \ {c} : call'[d] = call[d]
      BY <1>1, OneCall DEF ScheduleInterview, Assigning, Idle
    <2>3. QED
      BY <1>1, <2>1, <2>2 DEF ScheduleInterview, Overwrites
  <1>2. ASSUME NEW isModerator \in BOOLEAN, CancelInterview(c, s, isModerator) PROVE Overwrites(c, s)
    <2> DEFINE row == [slot[s] EXCEPT !.status = IF isModerator THEN 5 ELSE 12]
    <2>1. row \in SlotRow /\ same(row)
      BY <1>0, RowTypes, StatusTypes DEF SlotRow
    <2>2. QED
      BY <1>2, <2>1 DEF CancelInterview, Overwrites, At
  <1>3. ASSUME NEW isModerator \in BOOLEAN, NEW over \in BOOLEAN, RescheduleInterview(c, s, isModerator, over)
        PROVE Overwrites(c, s)
    <2> DEFINE row == [slot[s] EXCEPT !.status = IF isModerator THEN 3 ELSE 11, !.over = over]
    <2>0. (IF isModerator THEN 3 ELSE 11) \in SlotStatus
      BY StatusTypes
    <2>1. row \in SlotRow
      BY <1>0, <2>0, RowTypes
    <2>11. same(row)
      BY <1>0 DEF SlotRow
    <2>2. QED
      BY <1>3, <2>1, <2>11 DEF RescheduleInterview, Overwrites, At
  <1>4. ASSUME NEW e \in Edits, NEW over \in BOOLEAN, UpdateTimeslot(c, s, e, over) PROVE Overwrites(c, s)
    <2> DEFINE row == [slot[s] EXCEPT !.status = e.status, !.invalid = e.invalid, !.over = over]
    <2>1. e.status \in SlotStatus /\ e.invalid \in BOOLEAN
      BY InputsAssumption
    <2>2. row \in SlotRow /\ same(row)
      BY <1>0, <2>1, RowTypes DEF SlotRow
    <2>3. QED
      BY <1>4, <2>2 DEF UpdateTimeslot, Overwrites, At
  <1>5. CASE Act(c) /\ s = call[c].slot
    <2> DEFINE row == [slot[s] EXCEPT !.status = call[c].status]
    <2>0. call[c].status \in SlotStatus
      BY <1>0, <1>5, CallTypes, StatusTypes DEF Act, At
    <2>1. row \in SlotRow
      BY <1>0, <2>0, RowTypes
    <2>11. same(row)
      BY <1>0 DEF SlotRow
    <2>2. call'[c].at = "idle" /\ \A d \in Call \ {c} : call'[d] = call[d]
      BY <1>5, OneCall DEF Act, Idle
    <2>3. QED
      BY <1>5, <2>1, <2>11, <2>2 DEF Act, Overwrites
  <1>6. QED
    BY <1>1, <1>2, <1>3, <1>4, <1>5

-----------------------------------------------------------------------------
(* What a step leaves alone *)

LEMMA LookedForFrame ==
  ASSUME LookedFor, NEW c \in Call, \A d \in Call \ {c} : call'[d] = call[d],
         call'[c].at # "invalidate", UNCHANGED <<paid, crossed>>,
         \A t \in Slot : slot'[t].invalidated => slot[t].invalidated, paid \subseteq Slot
  PROVE  LookedFor'
  BY DEF LookedFor, At, PaidInvalidationHasCause

LEMMA FinishedFrame ==
  ASSUME FinishedKeepsModerators, UNCHANGED <<host, stripped>>,
         \A t \in Slot : slot'[t].status \in Finished => slot[t].status \in Finished,
         \A t \in Slot : slot[t].status \in Finished => mods[t] \subseteq mods'[t]
  PROVE  FinishedKeepsModerators'
  BY DEF FinishedKeepsModerators

LEMMA FullFrame ==
  ASSUME CompletedIsFull, UNCHANGED <<slot, project, sample, full>>,
         \A d \in Call : At(d, "resume") => At(d, "resume")'
  PROVE  CompletedIsFull'
  BY DEF CompletedIsFull, Scheduled, Interviewed

LEMMA NotFull == full' = FALSE => CompletedIsFull'
  BY DEF CompletedIsFull

LEMMA OverwriteStep ==
  ASSUME SlotInv, NEW c \in Call, NEW s \in Slot, Overwrites(c, s)
  PROVE  RoomLeft' /\ StillLive' /\ LookedFor' /\ FinishedKeepsModerators' /\ CompletedIsFull'
  <1>1. PICK row \in SlotRow : UpdateSlot(s, row) /\ row.invalidated = slot[s].invalidated
    BY DEF Overwrites
  <1>2. RoomLeft' /\ StillLive'
    BY WriteKeeps DEF Overwrites, SlotInv
  <1>3. \A t \in Slot : slot'[t].invalidated = slot[t].invalidated
    BY <1>1 DEF UpdateSlot, SlotInv, SlotsTypeOK
  <1>4. LookedFor'
    BY <1>3, LookedForFrame DEF Overwrites, SlotInv, SlotsTypeOK
  <1>5. CompletedIsFull'
    BY <1>1, NotFull DEF UpdateSlot
  <1>6. CASE Exists(s)
    <2>1. \A t \in Slot \ {s} : slot'[t] = slot[t] /\ host'[t] = host[t]
      BY <1>1 DEF UpdateSlot, SlotInv, SlotsTypeOK
    <2>2. slot'[s] = row /\ host'[s] = IF row.status \in Finished THEN mods[s] ELSE {}
      BY <1>1, <1>6 DEF UpdateSlot, SlotInv, SlotsTypeOK
    <2>3. QED
      BY <1>2, <1>4, <1>5, <2>1, <2>2 DEF FinishedKeepsModerators, Overwrites, SlotInv
  <1>7. CASE ~Exists(s)
    <2>1. slot' = slot /\ \A t \in Slot : host'[t] = {} \/ host'[t] = host[t]
      BY <1>1, <1>7 DEF UpdateSlot, SlotInv, SlotsTypeOK
    <2>2. QED
      BY <1>2, <1>4, <1>5, <2>1 DEF FinishedKeepsModerators, Overwrites, SlotInv
  <1>8. QED
    BY <1>6, <1>7

-----------------------------------------------------------------------------
(* The invariant *)

LEMMA SlotInit == Init => SlotInv
  <1> SUFFICES ASSUME Init PROVE SlotInv
    OBVIOUS
  <1>1. \A f \in InitialSlots, s \in Slot : f[s] \in SlotRow /\ f[s].invalidated = FALSE
    BY InputsAssumption DEF SlotRow, SlotStatus, NotYet, Deleted
  <1>2. SlotsTypeOK
    <2>1. slot \in [Slot -> SlotRow]
      BY <1>1, InputsAssumption DEF Init
    <2>2. QED
      BY <2>1, SizesAssumption DEF Init, SlotsTypeOK, Calls
  <1>3. \A c \in Call : At(c, "idle")
    BY DEF Init, At, Idle
  <1>4. RoomLeft /\ StillLive /\ CompletedIsFull
    BY <1>3 DEF RoomLeft, StillLive, CompletedIsFull, At, Init
  <1>5. LookedFor /\ FinishedKeepsModerators
    BY <1>3 DEF LookedFor, PaidInvalidationHasCause, FinishedKeepsModerators, At, Init
  <1>6. QED
    BY <1>2, <1>4, <1>5 DEF SlotInv

\* All parts of the invariant but the types.
Rest == RoomLeft /\ StillLive /\ LookedFor /\ FinishedKeepsModerators /\ CompletedIsFull

LEMMA RestOfSchedule ==
  ASSUME SlotInv, NEW c \in Call, NEW s \in Slot, ScheduleStep(c, s)
  PROVE  Rest'
  <1> USE DEF rowVars, projectVars, slotHistory
  <1>1. CASE \/ \E m \in Moderator \cup {NoModerator} : ScheduleInterview(c, s, m)
             \/ \E isModerator \in BOOLEAN : CancelInterview(c, s, isModerator)
             \/ \E isModerator, over \in BOOLEAN : RescheduleInterview(c, s, isModerator, over)
             \/ \E e \in Edits, over \in BOOLEAN : UpdateTimeslot(c, s, e, over)
    <2>1. Overwrites(c, s)
      BY <1>1, StatusSetters DEF SlotInv
    <2>2. QED
      BY <2>1, OverwriteStep DEF Rest
  <1>2. ASSUME NEW m \in Moderator \cup {NoModerator}, NEW over \in BOOLEAN, CreateTimeslot(c, s, m, over)
        PROVE Rest'
    <2>1. call'[c].at \in {"idle", "assign"} /\ \A d \in Call \ {c} : call'[d] = call[d]
      BY <1>2, OneCall DEF CreateTimeslot, Assigning, Idle, SlotInv
    <2>2. \A t \in Slot : /\ slot'[t].invalidated => slot[t].invalidated
                          /\ slot'[t].status \in Finished => slot[t].status \in Finished
      BY <1>2 DEF CreateTimeslot, SlotInv, SlotsTypeOK, Finished, Open
    <2>3. RoomLeft' /\ StillLive'
      BY <1>2, <2>1, WriteKeeps DEF CreateTimeslot, SlotInv
    <2>4. LookedFor'
      BY <1>2, <2>1, <2>2, LookedForFrame DEF CreateTimeslot, SlotInv, SlotsTypeOK
    <2>5. FinishedKeepsModerators' /\ CompletedIsFull'
      BY <1>2, <2>2, FinishedFrame, NotFull DEF CreateTimeslot, SlotInv
    <2>6. QED
      BY <2>3, <2>4, <2>5 DEF Rest
  <1>3. CASE DeleteTimeslot(c, s)
    <2>1. call'[c].at = "deleteRow" /\ \A d \in Call \ {c} : call'[d] = call[d]
      BY <1>3, OneCall DEF DeleteTimeslot, SlotInv
    <2>2. RoomLeft' /\ StillLive'
      BY <1>3, <2>1, WriteKeeps DEF DeleteTimeslot, SlotInv
    <2>3. LookedFor'
      BY <1>3, <2>1, LookedForFrame DEF DeleteTimeslot, SlotInv, SlotsTypeOK
    <2>4. FinishedKeepsModerators'
      BY <1>3 DEF DeleteTimeslot, FinishedKeepsModerators, SlotInv, SlotsTypeOK
    <2>5. CompletedIsFull'
      BY <1>3, <2>1, FullFrame DEF DeleteTimeslot, SlotInv, At
    <2>6. QED
      BY <2>2, <2>3, <2>4, <2>5 DEF Rest
  <1>4. ASSUME NEW action \in Actions, CancelRescheduleAction(c, s, action) PROVE Rest'
    <2>1. /\ call'[c] = [at |-> "act", slot |-> s, status |-> StatusOf[action]]
          /\ \A d \in Call \ {c} : call'[d] = call[d]
      BY <1>4, OneCall DEF CancelRescheduleAction, SlotInv
    <2>2. RoomLeft' /\ StillLive'
      BY <1>4, <2>1 DEF CancelRescheduleAction, SlotInv, RoomLeft, StillLive, At, Scheduled, Interviewed
    <2>3. LookedFor'
      BY <1>4, <2>1, LookedForFrame DEF CancelRescheduleAction, SlotInv, SlotsTypeOK
    <2>4. FinishedKeepsModerators'
      BY <1>4, FinishedFrame DEF CancelRescheduleAction, SlotInv
    <2>5. CompletedIsFull'
      BY <1>4, <2>1, FullFrame DEF CancelRescheduleAction, SlotInv, At
    <2>6. QED
      BY <2>2, <2>3, <2>4, <2>5 DEF Rest
  <1>5. CASE LoadTimeSlot(c, s)
    <2>1. call'[c].at = "checkPaid" /\ \A d \in Call \ {c} : call'[d] = call[d]
      BY <1>5, OneCall DEF LoadTimeSlot, SlotInv
    <2>2. RoomLeft' /\ StillLive'
      BY <1>5, <2>1, ReadKeeps DEF LoadTimeSlot, SlotInv
    <2>3. LookedFor'
      BY <1>5, <2>1, LookedForFrame DEF LoadTimeSlot, SlotInv, SlotsTypeOK
    <2>4. FinishedKeepsModerators'
      BY <1>5, FinishedFrame DEF LoadTimeSlot, SlotInv
    <2>5. CompletedIsFull'
      BY <1>5, <2>1, FullFrame DEF LoadTimeSlot, SlotInv, At
    <2>6. QED
      BY <2>2, <2>3, <2>4, <2>5 DEF Rest
  <1>6. QED
    BY <1>1, <1>2, <1>3, <1>4, <1>5 DEF ScheduleStep

LEMMA RestOfProject ==
  ASSUME SlotInv, NEW c \in Call, ProjectStep(c)
  PROVE  Rest'
  <1> USE DEF rowVars, projectVars, slotHistory
  <1>1. ASSUME NEW n \in Sizes, UpdateSampleSize(c, n) PROVE Rest'
    <2>1. /\ call'[c] = [at |-> "resize", size |-> n, status |-> StatusFor(n)]
          /\ \A d \in Call \ {c} : call'[d] = call[d]
      BY <1>1, OneCall DEF UpdateSampleSize, SlotInv
    <2>2. StatusFor(n) = Completed => Scheduled = 0 /\ Interviewed = n
      BY DEF StatusFor, Completed, InProgress, Kept
    <2>3. Scheduled' = Scheduled /\ Interviewed' = Interviewed
      BY <1>1 DEF UpdateSampleSize, Scheduled, Interviewed
    <2>4. RoomLeft' /\ StillLive'
      BY <1>1, <2>1, <2>2, <2>3, SizesAssumption, CountTypes
         DEF UpdateSampleSize, SlotInv, RoomLeft, StillLive, At
    <2>5. LookedFor'
      BY <1>1, <2>1, LookedForFrame DEF UpdateSampleSize, SlotInv, SlotsTypeOK
    <2>6. FinishedKeepsModerators'
      BY <1>1, FinishedFrame DEF UpdateSampleSize, SlotInv
    <2>7. CompletedIsFull'
      BY <1>1, <2>1, FullFrame DEF UpdateSampleSize, SlotInv, At
    <2>8. QED
      BY <2>4, <2>5, <2>6, <2>7 DEF Rest
  <1>2. CASE (\E e \in HandEdits : UpdateProject(c, e)) \/ DeleteProject(c)
    <2>1. /\ At(c, "idle") /\ UNCHANGED <<rowVars, paid, call, crossed, stripped, host>>
          /\ full' = FALSE /\ Wrote(c)
      BY <1>2 DEF UpdateProject, DeleteProject
    <2>2. RoomLeft' /\ StillLive'
      BY <2>1, WriteKeeps DEF SlotInv, At
    <2>3. LookedFor'
      BY <2>1, LookedForFrame DEF SlotInv, SlotsTypeOK, At
    <2>4. FinishedKeepsModerators' /\ CompletedIsFull'
      BY <2>1, FinishedFrame, NotFull DEF SlotInv
    <2>5. QED
      BY <2>2, <2>3, <2>4 DEF Rest
  <1>3. CASE ResetProjectModerators(c)
    <2>1. RoomLeft' /\ StillLive'
      BY <1>3, WriteKeeps DEF ResetProjectModerators, SlotInv, At
    <2>2. LookedFor'
      BY <1>3, LookedForFrame DEF ResetProjectModerators, SlotInv, SlotsTypeOK, At
    <2>3. \A t \in Slot : slot[t].status \in Finished => mods'[t] = mods[t]
      BY <1>3 DEF ResetProjectModerators, Finished, Open, Pending
    <2>4. FinishedKeepsModerators'
      BY <1>3, <2>3, FinishedFrame DEF ResetProjectModerators, SlotInv
    <2>5. CompletedIsFull'
      BY <1>3, FullFrame DEF ResetProjectModerators, SlotInv, At
    <2>6. QED
      BY <2>1, <2>2, <2>4, <2>5 DEF Rest
  <1>4. QED
    BY <1>1, <1>2, <1>3 DEF ProjectStep

LEMMA RestOfContinue ==
  ASSUME SlotInv, NEW c \in Call, Continue(c)
  PROVE  Rest'
  <1> USE DEF rowVars, projectVars, slotHistory
  <1>0. call[c] \in Calls /\ Idle.at = "idle"
    BY DEF SlotInv, SlotsTypeOK, Idle
  <1>1. ASSUME Goto(c, Idle) PROVE call'[c].at = "idle" /\ \A d \in Call \ {c} : call'[d] = call[d]
    BY <1>0, <1>1, OneCall DEF SlotInv
  <1>2. CASE AssignModerator(c)
    <2>0. call'[c].at = "idle" /\ (\A d \in Call \ {c} : call'[d] = call[d]) /\ At(c, "assign")
      BY <1>1, <1>2 DEF AssignModerator
    <2>1. RoomLeft' /\ StillLive'
      BY <1>2, <2>0, WriteKeeps DEF AssignModerator, SlotInv
    <2>2. LookedFor'
      BY <1>2, <2>0, LookedForFrame DEF AssignModerator, SlotInv, SlotsTypeOK
    <2>3. \A t \in Slot : mods[t] \subseteq mods'[t]
      BY <1>2 DEF AssignModerator, SlotInv, SlotsTypeOK
    <2>4. FinishedKeepsModerators'
      BY <1>2, <2>3, FinishedFrame DEF AssignModerator, SlotInv
    <2>5. CompletedIsFull'
      BY <1>2, <2>0, FullFrame DEF AssignModerator, SlotInv, At
    <2>6. QED
      BY <2>1, <2>2, <2>4, <2>5 DEF Rest
  <1>3. CASE AssignFails(c) \/ DeleteRowFails(c) \/ ResumeFails(c) \/ CallFails(c)
    <2>0. /\ UNCHANGED <<rowVars, projectVars, paid, crossed, stripped, host>>
          /\ WroteNothing(c) /\ Goto(c, Idle)
          /\ full' = FALSE \/ (full' = full /\ ~At(c, "resume"))
      BY <1>3 DEF AssignFails, DeleteRowFails, ResumeFails, CallFails, At
    <2>1. call'[c].at = "idle" /\ \A d \in Call \ {c} : call'[d] = call[d]
      BY <1>1, <2>0
    <2>2. \A d \in Call \ {c} : stale'[d] = stale[d]
      BY <2>0 DEF WroteNothing, SlotInv, SlotsTypeOK
    <2>3. RoomLeft' /\ StillLive'
      BY <2>0, <2>1, <2>2, ReadKeeps DEF SlotInv
    <2>4. LookedFor'
      BY <2>0, <2>1, LookedForFrame DEF SlotInv, SlotsTypeOK
    <2>5. FinishedKeepsModerators'
      BY <2>0, FinishedFrame DEF SlotInv
    <2>6. CompletedIsFull'
      BY <2>0, <2>1, FullFrame, NotFull DEF SlotInv, At
    <2>7. QED
      BY <2>3, <2>4, <2>5, <2>6 DEF Rest
  <1>4. CASE DeleteRow(c)
    <2>0. call'[c].at = "idle" /\ (\A d \in Call \ {c} : call'[d] = call[d])
      BY <1>1, <1>4 DEF DeleteRow
    <2>1. RoomLeft' /\ StillLive'
      BY <1>4, <2>0, WriteKeeps DEF DeleteRow, SlotInv
    <2>2. \A t \in Slot : /\ slot'[t].invalidated => slot[t].invalidated
                          /\ slot'[t].status \in Finished => slot[t].status \in Finished
      BY <1>4 DEF DeleteRow, SlotInv, SlotsTypeOK, Finished, NoRow, Deleted
    <2>3. LookedFor'
      BY <1>4, <2>0, <2>2, LookedForFrame DEF DeleteRow, SlotInv, SlotsTypeOK
    <2>4. FinishedKeepsModerators' /\ CompletedIsFull'
      BY <1>4, <2>2, FinishedFrame, NotFull DEF DeleteRow, SlotInv
    <2>5. QED
      BY <2>1, <2>3, <2>4 DEF Rest
  <1>5. CASE Act(c)
    <2>1. call[c].slot \in Slot
      BY <1>0, <1>5, CallTypes DEF Act, At
    <2>2. QED
      BY <1>5, <2>1, StatusSetters, OverwriteStep DEF SlotInv, Rest
  <1>6. CASE CheckPaid(c)
    <2>0. /\ \A d \in Call \ {c} : call'[d] = call[d] /\ stale'[d] = stale[d]
          /\ \/ call'[c].at = "idle"
             \/ call'[c].at = "invalidate" /\ call'[c].slot \notin paid
      <3>1. CASE call[c].slot \in paid
        BY <1>1, <1>6, <3>1 DEF CheckPaid, WroteNothing, SlotInv, SlotsTypeOK
      <3>2. CASE call[c].slot \notin paid
        <4>1. call'[c] = [call[c] EXCEPT !.at = "invalidate"] /\ \A d \in Call \ {c} : call'[d] = call[d]
          BY <1>6, <3>2, OneCall DEF CheckPaid, SlotInv
        <4>2. [call[c] EXCEPT !.at = "invalidate"].slot = call[c].slot
              /\ [call[c] EXCEPT !.at = "invalidate"].at = "invalidate"
          BY <1>0, <1>6 DEF CheckPaid, At, Calls, Idle
        <4>3. QED
          BY <1>6, <3>2, <4>1, <4>2 DEF CheckPaid
      <3>3. QED
        BY <3>1, <3>2
    <2>1. RoomLeft' /\ StillLive'
      BY <1>6, <2>0, ReadKeeps DEF CheckPaid, SlotInv
    <2>2. LookedFor'
      BY <1>6, <2>0 DEF CheckPaid, SlotInv, LookedFor, PaidInvalidationHasCause, At
    <2>3. FinishedKeepsModerators'
      BY <1>6, FinishedFrame DEF CheckPaid, SlotInv
    <2>4. CompletedIsFull'
      BY <1>6, <2>0, FullFrame DEF CheckPaid, SlotInv, At
    <2>5. QED
      BY <2>1, <2>2, <2>3, <2>4 DEF Rest
  <1>7. CASE Invalidate(c)
    <2>0. call[c].slot \in Slot /\ [call[c] EXCEPT !.at = "resume"].at = "resume"
      BY <1>0, <1>7, CallTypes DEF Invalidate, At, Calls, Idle
    <2>1. call'[c].at = "resume" /\ \A d \in Call \ {c} : call'[d] = call[d]
      BY <1>7, <2>0, OneCall DEF Invalidate, SlotInv
    <2>2. RoomLeft' /\ StillLive'
      BY <1>7, <2>1, WriteKeeps DEF Invalidate, SlotInv
    <2>3. \A t \in Slot : /\ slot'[t].invalidated => slot[t].invalidated \/ t = call[c].slot
                          /\ slot'[t].status = slot[t].status
      BY <1>7, <2>0 DEF Invalidate, SlotInv, SlotsTypeOK, SlotRow
    <2>4. LookedFor'
      BY <1>7, <2>1, <2>3 DEF Invalidate, SlotInv, LookedFor, PaidInvalidationHasCause, At, SlotsTypeOK
    <2>5. FinishedKeepsModerators'
      BY <1>7, <2>3, FinishedFrame DEF Invalidate, SlotInv
    <2>6. CompletedIsFull'
      BY <2>1 DEF CompletedIsFull, At
    <2>7. QED
      BY <2>2, <2>4, <2>5, <2>6 DEF Rest
  <1>8. CASE ResumeProject(c)
    <2>0. call'[c].at = "idle" /\ (\A d \in Call \ {c} : call'[d] = call[d])
      BY <1>1, <1>8 DEF ResumeProject
    <2>1. RoomLeft' /\ StillLive'
      BY <1>8, <2>0, WriteKeeps DEF ResumeProject, SlotInv
    <2>2. LookedFor'
      BY <1>8, <2>0, LookedForFrame DEF ResumeProject, SlotInv, SlotsTypeOK
    <2>3. FinishedKeepsModerators'
      BY <1>8, FinishedFrame DEF ResumeProject, SlotInv
    <2>4. CompletedIsFull'
      BY <1>8 DEF ResumeProject, CompletedIsFull, InProgress, Completed
    <2>5. QED
      BY <2>1, <2>2, <2>3, <2>4 DEF Rest
  <1>9. CASE Resize(c)
    <2>0. call'[c].at = "idle" /\ (\A d \in Call \ {c} : call'[d] = call[d])
      BY <1>1, <1>9 DEF Resize
    <2>1. RoomLeft' /\ StillLive'
      BY <1>9, <2>0, WriteKeeps DEF Resize, SlotInv
    <2>2. LookedFor'
      BY <1>9, <2>0, LookedForFrame DEF Resize, SlotInv, SlotsTypeOK
    <2>3. FinishedKeepsModerators'
      BY <1>9, FinishedFrame DEF Resize, SlotInv
    <2>4. full' => Scheduled = 0 /\ Interviewed = call[c].size
      BY <1>9 DEF Resize, RoomLeft, SlotInv
    <2>5. CompletedIsFull'
      BY <1>9, <2>4 DEF Resize, CompletedIsFull, Scheduled, Interviewed
    <2>6. QED
      BY <2>1, <2>2, <2>3, <2>5 DEF Rest
  <1>10. QED
    BY <1>2, <1>3, <1>4, <1>5, <1>6, <1>7, <1>8, <1>9 DEF Continue

LEMMA RestOfSurroundings ==
  ASSUME SlotInv, NEW s \in Slot, InterviewEnds(s) \/ PaymentCommits(s)
  PROVE  SlotsTypeOK' /\ Rest'
  <1> USE DEF rowVars, projectVars, slotHistory
  <1>1. CASE InterviewEnds(s)
    <2>1. Scheduled' <= Scheduled /\ Interviewed' = Interviewed /\ Scheduled' \in Nat
      BY <1>1, EndingCounts DEF SlotInv
    <2>2. \A t \in Slot : slot'[t].status = slot[t].status /\ slot'[t].invalidated = slot[t].invalidated
      BY <1>1 DEF InterviewEnds, SlotInv, SlotsTypeOK, SlotRow
    <2>3. SlotsTypeOK'
      BY <1>1, slot[s] \in SlotRow, RowTypes DEF InterviewEnds, SlotInv, SlotsTypeOK
    <2>4. RoomLeft'
      <3>1. \A c \in Call : At(c, "resize") => call[c].size \in Nat
        BY CallTypes DEF SlotInv, SlotsTypeOK, At
      <3>2. QED
        BY <1>1, <2>1, <3>1, CountTypes DEF InterviewEnds, RoomLeft, SlotInv, At
    <2>5. StillLive'
      <3>1. \A c \in Call : At(c, "act") => call[c].slot \in Slot
        BY CallTypes DEF SlotInv, SlotsTypeOK, At
      <3>2. QED
        BY <1>1, <2>2, <3>1 DEF InterviewEnds, StillLive, SlotInv, At
    <2>6. LookedFor' /\ FinishedKeepsModerators'
      BY <1>1, <2>2 DEF InterviewEnds, LookedFor, PaidInvalidationHasCause, FinishedKeepsModerators, SlotInv,
                        SlotsTypeOK, At
    <2>7. CompletedIsFull'
      BY <1>1, <2>1, CountTypes DEF InterviewEnds, CompletedIsFull, SlotInv, At
    <2>8. QED
      BY <2>3, <2>4, <2>5, <2>6, <2>7 DEF Rest
  <1>2. CASE PaymentCommits(s)
    <2>1. SlotsTypeOK'
      BY <1>2 DEF PaymentCommits, SlotInv, SlotsTypeOK
    <2>2. RoomLeft' /\ StillLive' /\ CompletedIsFull' /\ FinishedKeepsModerators'
      BY <1>2 DEF PaymentCommits, RoomLeft, StillLive, CompletedIsFull, FinishedKeepsModerators, SlotInv, At,
                  Scheduled, Interviewed
    <2>3. LookedFor'
      BY <1>2 DEF PaymentCommits, LookedFor, PaidInvalidationHasCause, SlotInv, At
    <2>4. QED
      BY <2>1, <2>2, <2>3 DEF Rest
  <1>3. QED
    BY <1>1, <1>2

LEMMA SlotStep == SlotInv /\ [Next]_vars => SlotInv'
  <1> SUFFICES ASSUME SlotInv, [Next]_vars PROVE SlotInv'
    OBVIOUS
  <1>0. SlotsTypeOK
    BY DEF SlotInv
  <1>1. ASSUME NEW c \in Call, ProjectStep(c) PROVE SlotInv'
    BY <1>0, <1>1, TypesOfProject, RestOfProject DEF SlotInv, Rest
  <1>2. ASSUME NEW c \in Call, Continue(c) PROVE SlotInv'
    BY <1>0, <1>2, TypesOfContinue, RestOfContinue DEF SlotInv, Rest
  <1>3. ASSUME NEW c \in Call, NEW s \in Target, ScheduleStep(c, s) PROVE SlotInv'
    <2>1. s \in Slot
      BY TargetAssumption
    <2>2. QED
      BY <1>0, <1>3, <2>1, TypesOfSchedule, RestOfSchedule DEF SlotInv, Rest
  <1>4. ASSUME NEW s \in Slot, InterviewEnds(s) \/ PaymentCommits(s) PROVE SlotInv'
    BY <1>4, RestOfSurroundings DEF SlotInv, Rest
  <1>5. CASE UNCHANGED vars
    BY <1>5 DEF SlotInv, SlotsTypeOK, RoomLeft, StillLive, LookedFor, PaidInvalidationHasCause,
                FinishedKeepsModerators, CompletedIsFull, At, Scheduled, Interviewed,
                vars, rowVars, projectVars, slotHistory
  <1>6. QED
    BY <1>1, <1>2, <1>3, <1>4, <1>5 DEF Next

LEMMA SlotInvariance == Spec => []SlotInv
  BY SlotInit, SlotStep, PTL DEF Spec

-----------------------------------------------------------------------------
(* Theorems *)

\* Rows, assignments, calls and the project's fields have their types, whatever
\* the calls do to each other.
THEOREM SlotTypes == Spec => []SlotsTypeOK
  BY SlotInvariance, PTL DEF SlotInv

\* An interview is paid and invalidated only if the payment was completed with an
\* invalidation past its look for one.
THEOREM PaidInvalidations == Spec => []PaidInvalidationHasCause
  BY SlotInvariance, PTL DEF SlotInv, LookedFor

\* The moderators a finished interview was held with stay assigned to it, through
\* every reset of the project's moderators.
THEOREM FinishedKeep == Spec => []FinishedKeepsModerators
  BY SlotInvariance, PTL DEF SlotInv

\* A project completed by its size has its interviews until something is edited.
THEOREM CompletedFull == Spec => []CompletedIsFull
  BY SlotInvariance, PTL DEF SlotInv

\* A call under way goes on only by its own steps.
LEMMA WhoMoved ==
  ASSUME SlotsTypeOK, [Next]_vars, NEW c \in Call, ~At(c, "idle"), call'[c] # call[c]
  PROVE  Continue(c)
  <1> USE DEF rowVars, projectVars, slotHistory
  <1>1. ASSUME NEW d \in Call, ProjectStep(d) PROVE d = c => FALSE
    BY <1>1 DEF ProjectStep, UpdateSampleSize, UpdateProject, DeleteProject, ResetProjectModerators
  <1>2. ASSUME NEW d \in Call, ProjectStep(d) PROVE d # c => call'[c] = call[c]
    BY <1>2, OneCall DEF ProjectStep, UpdateSampleSize, UpdateProject, DeleteProject, ResetProjectModerators
  <1>3. ASSUME NEW d \in Call, NEW s \in Target, ScheduleStep(d, s) PROVE d = c => FALSE
    BY <1>3 DEF ScheduleStep, ScheduleInterview, CreateTimeslot, CancelInterview, RescheduleInterview,
                UpdateTimeslot, DeleteTimeslot, CancelRescheduleAction, LoadTimeSlot
  <1>4. ASSUME NEW d \in Call, NEW s \in Target, ScheduleStep(d, s) PROVE d # c => call'[c] = call[c]
    BY <1>4 DEF ScheduleStep, ScheduleInterview, CreateTimeslot, CancelInterview, RescheduleInterview,
                UpdateTimeslot, DeleteTimeslot, CancelRescheduleAction, LoadTimeSlot, Assigning, Goto, SlotsTypeOK
  <1>5. ASSUME NEW d \in Call, Continue(d) PROVE d # c => call'[c] = call[c]
    BY <1>5 DEF Continue, AssignModerator, AssignFails, DeleteRow, DeleteRowFails, Act, CheckPaid, Invalidate,
                ResumeProject, ResumeFails, Resize, CallFails, Goto, SlotsTypeOK
  <1>6. ASSUME NEW s \in Slot, InterviewEnds(s) \/ PaymentCommits(s) PROVE call' = call
    BY <1>6 DEF InterviewEnds, PaymentCommits
  <1>7. CASE UNCHANGED vars
    BY <1>7 DEF vars
  <1>8. QED
    BY <1>1, <1>2, <1>3, <1>4, <1>5, <1>6, <1>7 DEF Next

\* A size that the request's own look at the interviews allowed never falls
\* below them, unless another call wrote between that look and the update.
THEOREM SizeCovers == Spec => SizeCoversInterviews
  <1> DEFINE Claim == \A c \in Call :
        At(c, "resize") /\ ~stale[c] /\ call'[c] = Idle /\ sample' # sample =>
          Scheduled + Interviewed <= sample'
  <1>1. SlotInv /\ [Next]_vars => Claim
    <2> SUFFICES ASSUME SlotInv, [Next]_vars, NEW c \in Call, At(c, "resize"), ~stale[c],
                        call'[c] = Idle, sample' # sample
                 PROVE  Scheduled + Interviewed <= sample'
      OBVIOUS
    <2>1. call'[c] # call[c] /\ ~At(c, "idle")
      BY DEF At, Idle
    <2>2. Continue(c)
      BY <2>1, WhoMoved DEF SlotInv
    <2>3. Resize(c) \/ CallFails(c)
      BY <2>2 DEF Continue, At, AssignModerator, AssignFails, DeleteRow, DeleteRowFails, Act, CheckPaid,
                  Invalidate, ResumeProject, ResumeFails
    <2>4. sample' = call[c].size
      BY <2>3 DEF Resize, CallFails, projectVars
    <2>5. QED
      BY <2>4 DEF SlotInv, RoomLeft
  <1>2. QED
    BY <1>1, SlotInvariance, PTL DEF SizeCoversInterviews, Spec

\* An action never replaces the status of an interview that was cancelled or
\* rescheduled before the action read it.
THEOREM ActionedKept == Spec => ActionedIsKept
  <1> DEFINE Claim == \A c \in Call, s \in Slot :
        /\ At(c, "act") /\ ~stale[c] /\ call'[c] = Idle
        /\ slot[s].status \in Actioned
        => slot'[s].status = slot[s].status
  <1>1. SlotInv /\ [Next]_vars => Claim
    <2> SUFFICES ASSUME SlotInv, [Next]_vars, NEW c \in Call, NEW s \in Slot, At(c, "act"), ~stale[c],
                        call'[c] = Idle, slot[s].status \in Actioned
                 PROVE  slot'[s].status = slot[s].status
      OBVIOUS
    <2>1. call'[c] # call[c] /\ ~At(c, "idle")
      BY DEF At, Idle
    <2>2. Continue(c)
      BY <2>1, WhoMoved DEF SlotInv
    <2>3. Act(c) \/ CallFails(c)
      BY <2>2 DEF Continue, At, AssignModerator, AssignFails, DeleteRow, DeleteRowFails, Resize, CheckPaid,
                  Invalidate, ResumeProject, ResumeFails
    <2>4. s # call[c].slot
      BY DEF SlotInv, StillLive
    <2>5. QED
      BY <2>3, <2>4 DEF Act, UpdateSlot, CallFails, rowVars, SlotInv, SlotsTypeOK
  <1>2. QED
    BY <1>1, SlotInvariance, PTL DEF ActionedIsKept, Spec
=============================================================================
