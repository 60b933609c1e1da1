--------------------------- MODULE ConnectionPool ---------------------------
(***************************************************************************)
(* The read-only pool of IRIS connections under the two requests that put  *)
(* a query for each row of a query they have not finished reading.  A      *)
(* request holds the connections of its open queries while it waits for    *)
(* the next one; a pool hands out so many and then lets requests wait,     *)
(* with no limit of time: the context is the request's, and the server     *)
(* sets no time limits.                                                    *)
(***************************************************************************)
EXTENDS Naturals, FiniteSets

CONSTANTS
  Query,   \* the requests, one each
  Conn,    \* connections there may be
  Rows     \* rows that a query has

ASSUME PoolAssumption ==
  /\ IsFiniteSet(Query) /\ IsFiniteSet(Conn) /\ Rows \in Nat
  /\ Query \cap {"nobody", "none"} = {}

VARIABLES
  conns,  \* the pool's connections, as many as DB_MAX_POOL_SIZE; {} if the server could not connect at its start
  owner,  \* by connection: the request and the level of the query it is used for
  query,  \* by request: its kind, the queries it has open, the rows left of each
  broken  \* history: requests that lost a connection

poolVars == <<conns, owner, query, broken>>

Unused == [by |-> "nobody", level |-> 0]

\* Question types and their logic types; the crowds of an inquiry, the
\* attributes of a crowd and the choices of an attribute.
Kinds == {"types", "crowds"}
Depth == [types |-> 2, crowds |-> 3]

Levels == 1 .. 3
Free(c) == owner[c] = Unused
Deepest(q) == query[q].level = Depth[query[q].kind]

\* It needs a connection for its next query.
Waiting(q) == query[q].at = "waiting"
Answered(q) == query[q].at \in {"answered", "refused", "gone"}

-----------------------------------------------------------------------------
\* GET .../question-types and GET .../project/{pid}/inquiry.  Without a pool
\* there is no repository: no types, and no inquiry.
Begin(q) ==
  /\ query[q].at = "idle"
  /\ query' = [query EXCEPT ![q].at = IF conns = {}
                                      THEN IF query[q].kind = "types" THEN "answered" ELSE "refused"
                                      ELSE "waiting"]
  /\ UNCHANGED <<conns, owner, broken>>

\* QueryContext: any free connection.
Connect(q, c) ==
  /\ Waiting(q) /\ Free(c)
  /\ LET level == query[q].level + 1
     IN /\ owner' = [owner EXCEPT ![c] = [by |-> q, level |-> level]]
        /\ query' = [query EXCEPT ![q].at = "reading", ![q].level = level, ![q].left[level] = Rows]
  /\ UNCHANGED <<conns, broken>>

\* rows.Next: for a row of any but the deepest query another query is made, with
\* the rows open.
NextRow(q) ==
  /\ query[q].at = "reading" /\ query[q].left[query[q].level] > 0
  /\ query' = [query EXCEPT ![q].left[query[q].level] = @ - 1,
                            ![q].read = @ + 1,
                            ![q].at = IF Deepest(q) THEN "reading" ELSE "waiting"]
  /\ UNCHANGED <<conns, owner, broken>>

Released(q, level) ==
  owner' = [c \in Conn |-> IF owner[c] = [by |-> q, level |-> level] THEN Unused ELSE owner[c]]

\* The innermost query is over: its connection goes back.
Close(q, outcome) ==
  /\ Released(q, query[q].level)
  /\ query' = [query EXCEPT ![q].level = @ - 1, ![q].at = IF query[q].level = 1 THEN outcome ELSE "reading"]
  /\ UNCHANGED conns

\* rows.Next is false, the rows close themselves.
EndRows(q) ==
  /\ query[q].at = "reading" /\ query[q].left[query[q].level] = 0
  /\ Close(q, "answered")
  /\ UNCHANGED broken

\* Mutant: the query is put again before the rows that failed are closed.
LoseConnection_PutAgain(q) ==
  /\ query[q].at = "reading" /\ q \notin broken
  /\ query' = [query EXCEPT ![q].at = "waiting", ![q].level = @ - 1]
  /\ broken' = broken \cup {q}
  /\ UNCHANGED <<conns, owner>>

\* The connection fails while rows are read: the same to the loops, and only the
\* loop over question types asks for rows.Err().
LoseConnection(q) ==
  /\ query[q].at = "reading" /\ q \notin broken
  /\ Close(q, IF query[q].kind = "types" THEN "refused" ELSE "answered")
  /\ broken' = broken \cup {q}

\* A query that fails at once: errors of inner queries are ignored.
QueryFails(q) ==
  /\ Waiting(q) /\ q \notin broken /\ \E c \in conns : Free(c)
  /\ query' = [query EXCEPT ![q].at = IF query[q].level = 0
                                      THEN IF query[q].kind = "types" THEN "refused" ELSE "answered"
                                      ELSE "reading"]
  /\ broken' = broken \cup {q}
  /\ UNCHANGED <<conns, owner>>

\* Mutant: rows that are not closed when their loop is left.
GiveUp_Open(q) ==
  /\ query[q].at \in {"waiting", "reading"}
  /\ query' = [query EXCEPT ![q].at = "gone", ![q].level = 0]
  /\ UNCHANGED <<conns, owner, broken>>

\* The client goes away: the context ends all of the request.
GiveUp(q) ==
  /\ query[q].at \in {"waiting", "reading"}
  /\ owner' = [c \in Conn |-> IF owner[c].by = q THEN Unused ELSE owner[c]]
  /\ query' = [query EXCEPT ![q].at = "gone", ![q].level = 0]
  /\ UNCHANGED <<conns, broken>>

NewQuery(kind) == [kind |-> kind, at |-> "idle", level |-> 0, left |-> [l \in Levels |-> 0], read |-> 0]

PoolInit ==
  /\ conns \in SUBSET Conn
  /\ owner = [c \in Conn |-> IF c \in conns THEN Unused ELSE [by |-> "none", level |-> 0]]
  /\ query \in [Query -> {NewQuery(k) : k \in Kinds}]
  /\ broken = {}

Answering(q) ==
  \/ Begin(q) \/ NextRow(q) \/ EndRows(q)
  \/ \E c \in Conn : Connect(q, c)

PoolNext == \E q \in Query : Answering(q) \/ LoseConnection(q) \/ QueryFails(q) \/ GiveUp(q)

PoolSpec == PoolInit /\ [][PoolNext]_poolVars

\* Loops go on; a connection that is free goes to somebody who waits.
PoolFairness == \A q \in Query : WF_poolVars(Answering(q))

-----------------------------------------------------------------------------
(* Properties *)

\* Nobody can go on: all connections are of requests that wait for another one.
Stuck ==
  /\ conns # {}
  /\ \A c \in conns : owner[c].by \in Query /\ Waiting(owner[c].by)

\* The connections that requests which wait may hold: one for each query around
\* the innermost.
Holdable ==
  {p \in Query \X Levels : Waiting(p[1]) /\ p[2] < Depth[query[p[1]].kind]}

\* The pool is stuck only if it has no more connections than the requests that
\* wait have outer queries: with the 25 of the configuration, no fewer than
\* thirteen requests at once.
StuckHasCause == Stuck => Cardinality(conns) <= Cardinality(Holdable)

\* The number of rows of all levels.
Whole(kind) == LET n == Rows IN IF kind = "types" THEN n + n * n ELSE n + n * n + n * n * n

\* An answer that lacks rows though there is a pool and no connection was lost;
\* nothing in the answer tells those that lack them for one of these.
Short(q) ==
  /\ query[q].at = "answered" /\ query[q].read # Whole(query[q].kind)
  /\ q \notin broken /\ conns # {}

\* A pool with a connection more than that answers everybody, whoever goes away
\* and whatever connections are lost, and with all rows where none was; a server
\* without a pool answers, too.
EveryoneIsAnswered ==
  Cardinality(conns) = 0 \/ Cardinality(conns) > 2 * Cardinality(Query) =>
    \A q \in Query : <>(Answered(q) /\ ~Short(q))
=============================================================================
