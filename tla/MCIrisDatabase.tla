--------------------------- MODULE MCIrisDatabase ---------------------------
(***************************************************************************)
(* What the server asks of the IRIS database: the job that credits         *)
(* participants, and the requests that share the read-only connections.    *)
(* They share no variable: a behaviour is one part's, while the other      *)
(* stays where it begins.                                                  *)
(***************************************************************************)
EXTENDS CreditGrantJob, ConnectionPool

CONSTANTS s1, s2, q1, q2

VARIABLE part

databaseVars == <<part, vars, poolVars>>

OneRowEach == [s \in Slot |-> 1]

AllFaults == {"query", "insert", "mark", "crash"}

DatabaseInit ==
  /\ part \in {"job", "pool"}
  /\ Init /\ PoolInit
  /\ query[q1].kind = "crowds" => query[q2].kind = "crowds"
  \* Connections are alike: the first ones.  The job's behaviours have one, with
  \* which nothing is promised to the requests.
  /\ IF part = "pool"
     THEN \E k \in {0, 2, 4, 5} : conns = 1 .. k
     ELSE conns = {1} /\ query[q2].kind = "types"

JobMoves == part = "job" /\ UNCHANGED <<part, poolVars>>
PoolMoves == part = "pool" /\ UNCHANGED <<part, vars>>

\* All requests have their answers, or their clients are gone.
PoolRests == (\A q \in Query : Answered(q)) /\ UNCHANGED poolVars

DatabaseNext ==
  \/ JobMoves /\ Next
  \/ PoolMoves /\ PoolNext
  \/ PoolMoves /\ PoolRests

\* The fairness of FairSpec and of PoolFairness, each of its part's behaviours.
DatabaseSpec ==
  /\ DatabaseInit /\ [][DatabaseNext]_databaseVars
  /\ \A r \in Run : WF_databaseVars(JobMoves /\ RunStep(r))
  /\ \A q \in Query : WF_databaseVars(PoolMoves /\ Answering(q))
=============================================================================
