----------------------------- MODULE SoftLaunch -----------------------------
(***************************************************************************)
(* What the soft launch of one IRIS survey with crowd quotas needs.  The   *)
(* check whether a survey may go live works it out, a share for each crowd *)
(* and their total for the survey, unless the survey has a total.  Reads   *)
(* go to a replica that lags, and every write commits by itself.           *)
(*                                                                         *)
(* Quotas are edited by the legacy application.  The errors and warnings   *)
(* of the check change nothing and are left out.                           *)
(***************************************************************************)
EXTENDS Naturals, Functions

CONSTANTS
  Check,         \* requests to validate the survey
  Crowd,         \* its included crowds
  Quotas,        \* the answers that a quota may ask for
  Percent,       \* the share of them that the soft launch asks for
  LastEdit,      \* bound: edits of quotas
  LaunchFaults   \* "statement": a statement fails

VARIABLES
  survey,        \* the primary's rows: quotas, shares, total
  lagging,       \* the replica's
  check,         \* where each validation is, and what it has read
  edits,         \* edits made
  entangled      \* history: a calculation began beside another, or although there was a total

launchVars == <<survey, lagging, check, edits, entangled>>

LaunchInit ==
  /\ \E quota \in [Crowd -> Quotas] : survey = [quota |-> quota, share |-> [w \in Crowd |-> 0], needed |-> 0]
  /\ lagging = survey
  /\ check = [c \in Check |-> [at |-> "idle"]]
  /\ edits = 0
  /\ entangled = FALSE

CheckMoves(c, to) == check' = [check EXCEPT ![c] = to]
Calculating == {c \in Check : check[c].at \in {"read", "write"}}

\* A fraction of the quota, rounded up; floating point gives the same for any quota.
Share(quota) == (quota * Percent + 99) \div 100
Shares(quota) == [w \in Crowd |-> Share(quota[w])]

ReplicaFollows ==
  /\ lagging # survey
  /\ lagging' = survey
  /\ UNCHANGED <<survey, check, edits, entangled>>

EditQuota(w) ==
  /\ edits < LastEdit
  /\ edits' = edits + 1
  /\ \E q \in Quotas : survey' = [survey EXCEPT !.quota[w] = q]
  /\ UNCHANGED <<lagging, check, entangled>>

\* CalculateSLCompletions: the survey is read, and nothing done if it has a total;
ReadSurvey(c) ==
  /\ check[c].at = "idle"
  /\ IF lagging.needed # 0
     THEN CheckMoves(c, [at |-> "over"]) /\ UNCHANGED entangled
     ELSE /\ CheckMoves(c, [at |-> "read"])
          /\ entangled' = (entangled \/ Calculating # {} \/ survey.needed # 0)
  /\ UNCHANGED <<survey, lagging, edits>>

\* then its crowds are, by a second query;
ReadCrowds(c) ==
  /\ check[c].at = "read"
  /\ CheckMoves(c, [at |-> "write", quota |-> lagging.quota, left |-> Crowd])
  /\ UNCHANGED <<survey, lagging, edits, entangled>>

\* a share is written for each, one after the other,
WriteShare(c, w) ==
  /\ check[c].at = "write"
  /\ w \in check[c].left
  /\ survey' = [survey EXCEPT !.share[w] = Share(check[c].quota[w])]
  /\ CheckMoves(c, [check[c] EXCEPT !.left = @ \ {w}])
  /\ UNCHANGED <<lagging, edits, entangled>>

\* Mutant: the total is written without waiting for the shares.
WriteNeeded_First(c) ==
  /\ check[c].at = "write"
  /\ survey' = [survey EXCEPT !.needed = SumFunction(Shares(check[c].quota))]
  /\ CheckMoves(c, [at |-> "over"])
  /\ UNCHANGED <<lagging, edits, entangled>>

\* and last the total, which keeps later checks from doing it again.
WriteNeeded(c) ==
  /\ check[c].at = "write"
  /\ check[c].left = {}
  /\ survey' = [survey EXCEPT !.needed = SumFunction(Shares(check[c].quota))]
  /\ CheckMoves(c, [at |-> "over"])
  /\ UNCHANGED <<lagging, edits, entangled>>

\* A failure is logged, and the survey declared ready all the same.
CheckFails(c) ==
  /\ "statement" \in LaunchFaults
  /\ c \in Calculating
  /\ CheckMoves(c, [at |-> "over"])
  /\ UNCHANGED <<survey, lagging, edits, entangled>>

LaunchNext ==
  \/ ReplicaFollows
  \/ \E w \in Crowd : EditQuota(w)
  \/ \E c \in Check :
       \/ ReadSurvey(c) \/ ReadCrowds(c) \/ WriteNeeded(c) \/ CheckFails(c)
       \/ \E w \in Crowd : WriteShare(c, w)

LaunchSpec == LaunchInit /\ [][LaunchNext]_launchVars

-----------------------------------------------------------------------------
\* A total is the sum of the crowds' shares, whatever fails on the way and however
\* the quotas change meanwhile, unless two checks calculated at once or one that
\* the replica showed no total to calculated again.
TotalIsSumOfShares ==
  survey.needed = 0 \/ entangled \/ survey.needed = SumFunction(survey.share)
=============================================================================
