--------------------------- MODULE InterviewSlots ---------------------------
(***************************************************************************)
(* The time slots of one QS project, the moderators assigned to them, and  *)
(* the project's status and sample size: what the handlers of interviews,  *)
(* bookings and projects do to them.  No handler uses a transaction; one   *)
(* that reads before it writes can be overtaken by others, and one of      *)
(* several statements can stop between them.                               *)
(*                                                                         *)
(* Respondents are linked to slots by the external scheduler and are left  *)
(* out; payments (HonorariumPayment) are seen as the slots they complete.  *)
(* Calls that are refused and change nothing are left out.                 *)
(***************************************************************************)
EXTENDS Integers, FiniteSets

CONSTANTS
  Call,         \* handler calls
  Slot,         \* ids of time slots, never used twice
  Target,       \* the slots that requests name
  Moderator, NoModerator,
  Sizes,        \* sample sizes that requests ask for
  Edits,        \* status and is_invalid of updates by hand
  HandEdits,    \* project status and sample size of updates by hand
  Actions,      \* actions that requests name
  InitialSlots, \* time slots to begin with
  Faults        \* "statement": a statement that follows another fails

ASSUME TargetAssumption == Target \subseteq Slot
ASSUME SizesAssumption == Sizes \subseteq Nat
ASSUME SlotAssumption == IsFiniteSet(Slot)

\* time_slot.status_id; before its insert and after its deletion a slot has none.
NotYet == 0
Open == 1
Pending == 2
Finished == {7, 8, 9}
Actioned == {3, 4, 5, 6, 11, 12}
Deleted == -1
SlotStatus == 1 .. 12

\* project.project_status_id
Defining == 1
InProgress == 2
Completed == 3
Canceled == 5
Kept == 0

ASSUME InputsAssumption ==
  /\ Edits \subseteq [status : SlotStatus, invalid : BOOLEAN]
  /\ InitialSlots \subseteq [Slot -> [status : {0} \cup 1 .. 12, invalid : BOOLEAN, invalidated : {FALSE}, over : BOOLEAN]]
  /\ HandEdits \subseteq [status : {Defining, InProgress, Completed, Canceled}, size : Nat]

VARIABLES
  slot,     \* the rows of time_slot
  mods,     \* the moderators assigned to each (moderator_time_slot)
  project,  \* the status of the project
  sample,   \* its sample size
  paid,     \* slots with a COMPLETED payment
  call,     \* where each call is, and what it knows
  stale,    \* history: another call has written since this one began
  crossed,  \* history: slots paid with an invalidation past its check, or done
  stripped, \* history: slots a deletion has taken the moderators of
  host,     \* history: the moderators of an interview when it was finished
  full      \* history: an undisturbed change of the size completed the project

rowVars == <<slot, mods>>
projectVars == <<project, sample>>
slotHistory == <<stale, crossed, stripped, host, full>>
vars == <<rowVars, projectVars, paid, call, slotHistory>>

SlotRow == [status : SlotStatus \cup {NotYet, Deleted}, invalid : BOOLEAN, invalidated : BOOLEAN, over : BOOLEAN]
NoRow == [status |-> NotYet, invalid |-> FALSE, invalidated |-> FALSE, over |-> FALSE]
Exists(s) == slot[s].status \in SlotStatus

Idle == [at |-> "idle"]
Calls ==
  {Idle}
  \cup [at : {"assign"}, slot : Slot, moderator : Moderator]
  \cup [at : {"deleteRow", "checkPaid", "invalidate", "resume"}, slot : Slot]
  \cup [at : {"act"}, slot : Slot, status : Actioned]
  \cup [at : {"resize"}, size : Nat, status : {Kept, InProgress, Completed}]

At(c, l) == call[c].at = l
Goto(c, k) == call' = [call EXCEPT ![c] = k]

\* Call c writes: the others under way have read what may no longer be so.
Wrote(c) == stale' = [d \in Call |-> d # c /\ (stale[d] \/ ~At(d, "idle"))]
WroteNothing(c) == stale' = [stale EXCEPT ![c] = FALSE]

Init ==
  /\ slot \in InitialSlots
  /\ mods = [s \in Slot |-> {}]
  /\ project \in {Defining, InProgress}
  /\ sample \in Sizes
  /\ paid = {}
  /\ call = [c \in Call |-> Idle]
  /\ stale = [c \in Call |-> FALSE]
  /\ crossed = {} /\ stripped = {} /\ full = FALSE
  /\ host = [s \in Slot |-> {}]

\* GetProjectDetailsMRA counts the interviews to come and those that count.
Scheduled == Cardinality({s \in Slot : slot[s].status = Pending /\ ~slot[s].invalid /\ ~slot[s].over})
Interviewed == Cardinality({s \in Slot : slot[s].status = 9 /\ ~slot[s].invalid /\ ~slot[s].invalidated})

\* An UPDATE of the slot, which may match no row.
UpdateSlot(s, row) ==
  /\ slot' = IF Exists(s) THEN [slot EXCEPT ![s] = row] ELSE slot
  /\ host' = [host EXCEPT ![s] = IF Exists(s) /\ row.status \in Finished THEN mods[s] ELSE {}]
  /\ full' = FALSE

-----------------------------------------------------------------------------
(* Scheduling (scheduler.go, interview.go, booking.go) *)

\* A request names a moderator or none.
Assigning(c, s, m) ==
  Goto(c, IF m = NoModerator THEN Idle ELSE [at |-> "assign", slot |-> s, moderator |-> m])

CreateTimeslot(c, s, m, over) ==
  /\ At(c, "idle") /\ slot[s].status = NotYet
  /\ slot' = [slot EXCEPT ![s] = [status |-> Open, invalid |-> FALSE, invalidated |-> FALSE, over |-> over]]
  /\ Assigning(c, s, m)
  /\ Wrote(c)
  /\ full' = FALSE
  /\ UNCHANGED <<mods, projectVars, paid, crossed, stripped, host>>

\* Whatever the slot's status, and whether or not there is one.
ScheduleInterview(c, s, m) ==
  /\ At(c, "idle")
  /\ UpdateSlot(s, [slot[s] EXCEPT !.status = Pending])
  /\ Assigning(c, s, m)
  /\ Wrote(c)
  /\ UNCHANGED <<mods, projectVars, paid, crossed, stripped>>

AssignModerator(c) ==
  /\ At(c, "assign") /\ Exists(call[c].slot)
  /\ mods' = [mods EXCEPT ![call[c].slot] = @ \cup {call[c].moderator}]
  /\ Goto(c, Idle) /\ Wrote(c)
  /\ UNCHANGED <<slot, projectVars, paid, crossed, stripped, host, full>>

\* An error, such as that of a slot no longer there, is only logged.
AssignFails(c) ==
  /\ At(c, "assign")
  /\ ~Exists(call[c].slot) \/ "statement" \in Faults
  /\ Goto(c, Idle) /\ WroteNothing(c)
  /\ UNCHANGED <<rowVars, projectVars, paid, crossed, stripped, host, full>>

CancelInterview(c, s, isModerator) ==
  /\ At(c, "idle")
  /\ UpdateSlot(s, [slot[s] EXCEPT !.status = IF isModerator THEN 5 ELSE 12])
  /\ Wrote(c)
  /\ UNCHANGED <<mods, projectVars, paid, call, crossed, stripped>>

RescheduleInterview(c, s, isModerator, over) ==
  /\ At(c, "idle")
  /\ UpdateSlot(s, [slot[s] EXCEPT !.status = IF isModerator THEN 3 ELSE 11, !.over = over])
  /\ Wrote(c)
  /\ UNCHANGED <<mods, projectVars, paid, call, crossed, stripped>>

\* PUT of a time slot or a booking: any status.
UpdateTimeslot(c, s, e, over) ==
  /\ At(c, "idle")
  /\ UpdateSlot(s, [slot[s] EXCEPT !.status = e.status, !.invalid = e.invalid, !.over = over])
  /\ Wrote(c)
  /\ UNCHANGED <<mods, projectVars, paid, call, crossed, stripped>>

\* The rows that refer to the slot go first; their errors are only logged.
DeleteTimeslot(c, s) ==
  /\ At(c, "idle") /\ Exists(s)
  /\ \/ mods' = [mods EXCEPT ![s] = {}] /\ stripped' = stripped \cup {s}
     \/ "statement" \in Faults /\ UNCHANGED <<mods, stripped>>
  /\ Goto(c, [at |-> "deleteRow", slot |-> s]) /\ Wrote(c)
  /\ UNCHANGED <<slot, projectVars, paid, crossed, host, full>>

DeleteRow(c) ==
  /\ At(c, "deleteRow")
  /\ slot' = [slot EXCEPT ![call[c].slot] = [NoRow EXCEPT !.status = Deleted]]
  /\ Goto(c, Idle) /\ Wrote(c)
  /\ full' = FALSE
  /\ UNCHANGED <<mods, projectVars, paid, crossed, stripped, host>>

DeleteRowFails(c) ==
  /\ "statement" \in Faults /\ At(c, "deleteRow")
  /\ Goto(c, Idle) /\ WroteNothing(c)
  /\ UNCHANGED <<rowVars, projectVars, paid, crossed, stripped, host, full>>

-----------------------------------------------------------------------------
(* CancelRescheduleAction *)

StatusOf == [cancel |-> 5, reschedule |-> 3, pmCancel |-> 12, pmReschedule |-> 11,
             respondentReschedule |-> 4, respondentCancel |-> 6]

ASSUME ActionsAssumption == Actions \subseteq DOMAIN StatusOf

\* Mutant: a slot that was cancelled before is cancelled again.
CancelRescheduleAction_Again(c, s, action) ==
  /\ At(c, "idle") /\ Exists(s)
  /\ Goto(c, [at |-> "act", slot |-> s, status |-> StatusOf[action]])
  /\ UNCHANGED <<rowVars, projectVars, paid, slotHistory>>

CancelRescheduleAction(c, s, action) ==
  /\ At(c, "idle") /\ Exists(s)
  /\ slot[s].status \notin Actioned
  /\ Goto(c, [at |-> "act", slot |-> s, status |-> StatusOf[action]])
  /\ UNCHANGED <<rowVars, projectVars, paid, slotHistory>>

Act(c) ==
  /\ At(c, "act")
  /\ LET s == call[c].slot IN UpdateSlot(s, [slot[s] EXCEPT !.status = call[c].status])
  /\ Goto(c, Idle) /\ Wrote(c)
  /\ UNCHANGED <<mods, projectVars, paid, crossed, stripped>>

-----------------------------------------------------------------------------
(* InvalidateInterviewMRA *)

LoadTimeSlot(c, s) ==
  /\ At(c, "idle") /\ Exists(s) /\ ~slot[s].invalidated
  /\ Goto(c, [at |-> "checkPaid", slot |-> s])
  /\ UNCHANGED <<rowVars, projectVars, paid, slotHistory>>

\* Mutant: the payment is not looked at.
CheckPaid_Not(c) ==
  /\ At(c, "checkPaid")
  /\ Goto(c, [call[c] EXCEPT !.at = "invalidate"])
  /\ UNCHANGED <<rowVars, projectVars, paid, slotHistory>>

CheckPaid(c) ==
  /\ At(c, "checkPaid")
  /\ IF call[c].slot \in paid
       THEN Goto(c, Idle) /\ WroteNothing(c)
       ELSE Goto(c, [call[c] EXCEPT !.at = "invalidate"]) /\ UNCHANGED stale
  /\ UNCHANGED <<rowVars, projectVars, paid, crossed, stripped, host, full>>

\* Mutant: the project is left as it is.
Invalidate_NoResume(c) ==
  /\ At(c, "invalidate")
  /\ LET s == call[c].slot IN
       slot' = IF Exists(s) THEN [slot EXCEPT ![s].invalidated = TRUE] ELSE slot
  /\ Goto(c, Idle) /\ Wrote(c)
  /\ UNCHANGED <<mods, projectVars, paid, crossed, stripped, host, full>>

Invalidate(c) ==
  /\ At(c, "invalidate")
  /\ LET s == call[c].slot IN
       slot' = IF Exists(s) THEN [slot EXCEPT ![s].invalidated = TRUE] ELSE slot
  /\ Goto(c, [call[c] EXCEPT !.at = "resume"]) /\ Wrote(c)
  /\ UNCHANGED <<mods, projectVars, paid, crossed, stripped, host, full>>

\* The project goes on, whatever its status was.
ResumeProject(c) ==
  /\ At(c, "resume")
  /\ project' = InProgress
  /\ Goto(c, Idle) /\ Wrote(c)
  /\ UNCHANGED <<rowVars, sample, paid, crossed, stripped, host, full>>

\* The error is dropped.
ResumeFails(c) ==
  /\ "statement" \in Faults /\ At(c, "resume")
  /\ Goto(c, Idle) /\ WroteNothing(c)
  /\ full' = FALSE
  /\ UNCHANGED <<rowVars, projectVars, paid, crossed, stripped, host>>

-----------------------------------------------------------------------------
(* UpdateSampleSizeMRA, and the project's other updates *)

\* A project whose interviews are all done is completed by the size that makes
\* it so, and one that was completed goes on.
StatusFor(n) ==
  IF project = InProgress /\ Scheduled = 0 /\ Interviewed = n THEN Completed
  ELSE IF project = Completed /\ Scheduled = 0 THEN InProgress
  ELSE Kept

\* Mutant: the interviews to come are not counted.
UpdateSampleSize_DoneOnly(c, n) ==
  /\ At(c, "idle")
  /\ n # sample /\ n # 0 /\ n >= Interviewed
  /\ Goto(c, [at |-> "resize", size |-> n, status |-> StatusFor(n)])
  /\ UNCHANGED <<rowVars, projectVars, paid, slotHistory>>

UpdateSampleSize(c, n) ==
  /\ At(c, "idle")
  /\ n # sample /\ n # 0 /\ n >= Scheduled + Interviewed
  /\ Goto(c, [at |-> "resize", size |-> n, status |-> StatusFor(n)])
  /\ UNCHANGED <<rowVars, projectVars, paid, slotHistory>>

Resize(c) ==
  /\ At(c, "resize")
  /\ sample' = call[c].size
  /\ project' = IF call[c].status = Kept THEN project ELSE call[c].status
  /\ full' = (call[c].status = Completed /\ ~stale[c])
  /\ Goto(c, Idle) /\ Wrote(c)
  /\ UNCHANGED <<rowVars, paid, crossed, stripped, host>>

\* PUT of a project, checked against nothing.
UpdateProject(c, e) ==
  /\ At(c, "idle")
  /\ project' = e.status /\ sample' = e.size /\ full' = FALSE
  /\ Wrote(c)
  /\ UNCHANGED <<rowVars, paid, call, crossed, stripped, host>>

DeleteProject(c) ==
  /\ At(c, "idle")
  /\ project' = Canceled /\ full' = FALSE
  /\ Wrote(c)
  /\ UNCHANGED <<rowVars, sample, paid, call, crossed, stripped, host>>

\* Mutant: every slot of the project loses its moderators.
ResetProjectModerators_AllSlots(c) ==
  /\ At(c, "idle")
  /\ mods' = [s \in Slot |-> {}]
  /\ Wrote(c)
  /\ UNCHANGED <<slot, projectVars, paid, call, crossed, stripped, host, full>>

ResetProjectModerators(c) ==
  /\ At(c, "idle")
  /\ mods' = [s \in Slot |-> IF slot[s].status \in {Open, Pending} THEN {} ELSE mods[s]]
  /\ Wrote(c)
  /\ UNCHANGED <<slot, projectVars, paid, call, crossed, stripped, host, full>>

-----------------------------------------------------------------------------
(* Surroundings: time, payments, failing updates *)

InterviewEnds(s) ==
  /\ Exists(s) /\ ~slot[s].over
  /\ slot' = [slot EXCEPT ![s].over = TRUE]
  /\ UNCHANGED <<mods, projectVars, paid, call, slotHistory>>

\* A payment for the slot commits; payments do not look at invalidations.
PaymentCommits(s) ==
  /\ Exists(s) /\ s \notin paid
  /\ paid' = paid \cup {s}
  /\ crossed' = IF slot[s].invalidated \/ \E c \in Call : At(c, "invalidate") /\ call[c].slot = s
                  THEN crossed \cup {s} ELSE crossed
  /\ UNCHANGED <<rowVars, projectVars, call, stale, stripped, host, full>>

\* The call's only write, or its check, fails and the call is answered 500.
CallFails(c) ==
  /\ "statement" \in Faults
  /\ At(c, "act") \/ At(c, "checkPaid") \/ At(c, "invalidate") \/ At(c, "resize")
  /\ Goto(c, Idle) /\ WroteNothing(c)
  /\ UNCHANGED <<rowVars, projectVars, paid, crossed, stripped, host, full>>

ScheduleStep(c, s) ==
  \/ \E m \in Moderator \cup {NoModerator} :
       ScheduleInterview(c, s, m) \/ \E over \in BOOLEAN : CreateTimeslot(c, s, m, over)
  \/ \E isModerator \in BOOLEAN :
       CancelInterview(c, s, isModerator) \/ \E over \in BOOLEAN : RescheduleInterview(c, s, isModerator, over)
  \/ \E e \in Edits, over \in BOOLEAN : UpdateTimeslot(c, s, e, over)
  \/ DeleteTimeslot(c, s)
  \/ \E action \in Actions : CancelRescheduleAction(c, s, action)
  \/ LoadTimeSlot(c, s)

ProjectStep(c) ==
  \/ \E n \in Sizes : UpdateSampleSize(c, n)
  \/ \E e \in HandEdits : UpdateProject(c, e)
  \/ DeleteProject(c) \/ ResetProjectModerators(c)

Continue(c) ==
  \/ AssignModerator(c) \/ AssignFails(c) \/ DeleteRow(c) \/ DeleteRowFails(c)
  \/ Act(c) \/ CheckPaid(c) \/ Invalidate(c) \/ ResumeProject(c) \/ ResumeFails(c)
  \/ Resize(c) \/ CallFails(c)

Next ==
  \/ \E c \in Call : ProjectStep(c) \/ Continue(c) \/ \E s \in Target : ScheduleStep(c, s)
  \/ \E s \in Slot : InterviewEnds(s) \/ PaymentCommits(s)

Spec == Init /\ [][Next]_vars

-----------------------------------------------------------------------------
(* Properties *)

SlotsTypeOK ==
  /\ slot \in [Slot -> SlotRow]
  /\ mods \in [Slot -> SUBSET Moderator] /\ host \in [Slot -> SUBSET Moderator]
  /\ project \in {Defining, InProgress, Completed, Canceled}
  /\ sample \in Nat
  /\ paid \subseteq Slot /\ crossed \subseteq Slot /\ stripped \subseteq Slot
  /\ call \in [Call -> Calls] /\ stale \in [Call -> BOOLEAN]
  /\ full \in BOOLEAN

\* A change of the sample size leaves room for the interviews that are scheduled
\* or done, unless another call wrote between its check and its update.
SizeCoversInterviews ==
  [][\A c \in Call :
       At(c, "resize") /\ ~stale[c] /\ call'[c] = Idle /\ sample' # sample =>
         Scheduled + Interviewed <= sample']_vars

\* A project that a change of the size completed has all its interviews: when
\* one is invalidated the project goes on, unless that update failed, an
\* interview or the project was edited since, or calls overtook each other.
CompletedIsFull ==
  full /\ project = Completed =>
    (Scheduled = 0 /\ Interviewed = sample) \/ \E c \in Call : At(c, "resume")

\* An action leaves an interview alone that was already cancelled or
\* rescheduled, by whichever endpoint, unless it was so only after the action
\* had read it.
ActionedIsKept ==
  [][\A c \in Call, s \in Slot :
       /\ At(c, "act") /\ ~stale[c] /\ call'[c] = Idle
       /\ slot[s].status \in Actioned
       => slot'[s].status = slot[s].status]_vars

\* An interview is both paid and invalidated only if the payment was completed
\* when an invalidation had already looked for it.
PaidInvalidationHasCause ==
  \A s \in paid : slot[s].invalidated => s \in crossed

\* An interview keeps the moderators it was finished with, however the project's
\* assignments are reset, unless somebody has begun to delete it.
FinishedKeepsModerators ==
  \A s \in Slot : slot[s].status \in Finished => host[s] \subseteq mods[s] \/ s \in stripped
=============================================================================
