---------------------------- MODULE PaymentLedger ----------------------------
(***************************************************************************)
(* What the interview-payment flow promises, with no database, Lambda or   *)
(* handler in it: a ledger in which the payment of a time slot is settled  *)
(* once and for all, and in which money is sent only for slots that are    *)
(* not settled, unless the request that sends it is adrift, not knowing    *)
(* what has become of it.  A slot may be credited without being settled    *)
(* and settled without being credited (the Lambda can fail behind a 200):  *)
(* the ledger does not promise more than the code.                         *)
(***************************************************************************)
CONSTANTS Request, Slot

VARIABLES
  settled,  \* slots with a COMPLETED payment
  credited, \* pairs <<request, slot>>: money was sent for slot by request
  adrift    \* requests that do not know whether their money was sent

ledgerVars == <<settled, credited, adrift>>

LedgerInit == settled = {} /\ credited = {} /\ adrift = {}

\* Request r sends money for the slots S, none of which is settled unless the
\* request is adrift.
Credit(r, S) ==
  /\ S \cap settled = {} \/ r \in adrift
  /\ credited' = credited \cup ({r} \X S)
  /\ UNCHANGED <<settled, adrift>>

\* The payments of the slots S, none of which is settled, become final, and
\* the requests A go adrift.
Conclude(S, A) ==
  /\ S \cap settled = {}
  /\ settled' = settled \cup S
  /\ adrift' = adrift \cup A
  /\ UNCHANGED credited

LedgerNext ==
  \E S \in SUBSET Slot :
    \/ \E r \in Request : Credit(r, S)
    \/ \E A \in SUBSET Request : Conclude(S, A)

LedgerSpec == LedgerInit /\ [][LedgerNext]_ledgerVars
=============================================================================
