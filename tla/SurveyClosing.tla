---------------------------- MODULE SurveyClosing ----------------------------
(***************************************************************************)
(* The closing of one IRIS survey: by hand, or by the job that every few   *)
(* hours lists the surveys whose fieldwork Salesforce says is over.  Each  *)
(* process of the server runs the job on a schedule of its own, lists from *)
(* a replica that lags, and writes by the status it has listed, whatever   *)
(* the status is by then.                                                  *)
(*                                                                         *)
(* Launches and reviews are the legacy application's, the end of fieldwork *)
(* is Salesforce's: external actions.                                      *)
(***************************************************************************)
EXTENDS Naturals

CONSTANTS
  Process,        \* processes that run the job
  LastStatusEdit, \* bound: edits of the status from outside
  ClosingFaults   \* "statement": a statement fails

\* survey.status, as the job names them
InReview == 7
ClosedByJob == 6
ClosedByHand == 5
\* Mutant: surveys in review are not listed.
Closable_NoReview == {1, 2, 8}
Closable == {1, 2, 7, 8}
Closed == {ClosedByHand, ClosedByJob}

VARIABLES
  state,        \* the primary's rows: status, whether the fieldwork is over
  copied,       \* the replica's
  needsReview,  \* needs_to_be_reviewed
  listed,       \* the status each process has listed the survey with, 0 for none
  statusEdits   \* edits made

closingVars == <<state, copied, needsReview, listed, statusEdits>>

ClosingInit ==
  /\ state = [status |-> 1, over |-> FALSE]
  /\ copied = state
  /\ needsReview \in BOOLEAN
  /\ listed = [p \in Process |-> 0]
  /\ statusEdits = 0

CopyCatchesUp ==
  /\ copied # state
  /\ copied' = state
  /\ UNCHANGED <<state, needsReview, listed, statusEdits>>

FieldworkEnds ==
  /\ state' = [state EXCEPT !.over = TRUE]
  /\ UNCHANGED <<copied, needsReview, listed, statusEdits>>

EditStatus(s) ==
  /\ statusEdits < LastStatusEdit
  /\ statusEdits' = statusEdits + 1
  /\ state' = [state EXCEPT !.status = s]
  /\ UNCHANGED <<copied, needsReview, listed>>

\* PUT /survey/{id}/close
CloseSurvey ==
  /\ state' = [state EXCEPT !.status = ClosedByHand]
  /\ UNCHANGED <<copied, needsReview, listed, statusEdits>>

\* GetSurveysToClose
ListToClose(p) ==
  /\ listed[p] = 0
  /\ copied.over
  /\ copied.status \in Closable
  /\ listed' = [listed EXCEPT ![p] = copied.status]
  /\ UNCHANGED <<state, copied, needsReview, statusEdits>>

\* processSurveyClose: a survey that needs a review and was not in it is put into
\* it, any other is closed.
ProcessClose(p) ==
  /\ listed[p] # 0
  /\ state' = [state EXCEPT !.status = IF needsReview /\ listed[p] # InReview THEN InReview ELSE ClosedByJob]
  /\ listed' = [listed EXCEPT ![p] = 0]
  /\ UNCHANGED <<copied, needsReview, statusEdits>>

\* The write fails, or the process ends: the next run lists again.
CloseFails(p) ==
  /\ "statement" \in ClosingFaults
  /\ listed[p] # 0
  /\ listed' = [listed EXCEPT ![p] = 0]
  /\ UNCHANGED <<state, copied, needsReview, statusEdits>>

ClosingNext ==
  \/ CopyCatchesUp \/ FieldworkEnds \/ CloseSurvey
  \/ \E s \in Closable : EditStatus(s)
  \/ \E p \in Process : ListToClose(p) \/ ProcessClose(p) \/ CloseFails(p)
\* The replica catches up, the job goes on being run, and a write that is tried
\* again and again succeeds in the end.
ClosingFairness ==
  /\ WF_closingVars(CopyCatchesUp)
  /\ \A p \in Process : WF_closingVars(ListToClose(p)) /\ SF_closingVars(ProcessClose(p))

ClosingSpec == ClosingInit /\ [][ClosingNext]_closingVars /\ ClosingFairness

-----------------------------------------------------------------------------
\* Once its fieldwork is over a survey is closed in the end, and stays so once it
\* is no longer edited: a review, or a process that puts a closed survey back into
\* review by what it had listed before, only delays it.
OverIsClosed == <>state.over => <>[](state.status \in Closed)
=============================================================================
