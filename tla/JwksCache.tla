------------------------------ MODULE JwksCache ------------------------------
(***************************************************************************)
(* The middleware that lets a request through: it verifies the token with  *)
(* the user pool's public keys, which it caches, and compares the caller's *)
(* roles with those of the route.  A request whose key is not in the cache *)
(* fetches the pool's keys and replaces the whole map; the fetch is made   *)
(* without the lock, so that the answers of several requests may be stored *)
(* in another order than the pool gave them.                               *)
(*                                                                         *)
(* The pool is external: it publishes its next key, signs with it and      *)
(* withdraws older ones.  Signatures, issuers and expiry are not modelled: *)
(* every token here is one the pool has issued.                            *)
(***************************************************************************)
EXTENDS Naturals

CONSTANTS
  Request,     \* requests on their way through the middleware
  LastKey,     \* the pool's keys are 1 .. LastKey, in the order of their use
  Client,      \* app clients of the pool
  Recognised,  \* those the configuration lists
  Group,       \* Cognito groups
  RoleOf,      \* the unified role of a group, or NoRole
  NoRole,
  Route,       \* what routes ask for: each is a set of roles
  Faults       \* "fetch": a fetch may fail

ASSUME LastKeyAssumption == LastKey \in Nat \ {0}
ASSUME RecognisedAssumption == Recognised \subseteq Client
ASSUME FetchFaultAssumption == Faults \subseteq {"fetch"}

VARIABLES
  published, \* the keys in the pool's key set
  signing,   \* the key it signs with
  tokens,    \* the tokens it has issued
  keys,      \* the key ids in the cache
  pc,        \* where each request is
  token,     \* its token
  fetched,   \* the keys its fetch has returned
  overtaken  \* history: an answer without its key was stored after its own

pool == <<published, signing>>
requestVars == <<pc, token, fetched, overtaken>>
vars == <<pool, tokens, keys, requestVars>>

Key == 1 .. LastKey
Token == [kid : Key, use : {"id", "access", "other"}, client : Client, groups : SUBSET Group]
NoToken == [kid |-> 0]

Goto(r, l) == pc' = [pc EXCEPT ![r] = l]
At(r, l) == pc[r] = l

\* The keys are fetched once at the start; a failure is only logged.
Init ==
  /\ published = {1} /\ signing = 1
  /\ tokens = {}
  /\ keys \in {{}, {1}}
  /\ pc = [r \in Request |-> "idle"]
  /\ token = [r \in Request |-> NoToken]
  /\ fetched = [r \in Request |-> {}]
  /\ overtaken = [r \in Request |-> FALSE]

-----------------------------------------------------------------------------
(* The pool *)

PublishNext ==
  /\ signing < LastKey /\ signing + 1 \notin published
  /\ published' = published \cup {signing + 1}
  /\ UNCHANGED <<signing, tokens, keys, requestVars>>

SignWithNext ==
  /\ signing + 1 \in published
  /\ signing' = signing + 1
  /\ UNCHANGED <<published, tokens, keys, requestVars>>

Withdraw(k) ==
  /\ k \in published /\ k < signing
  /\ published' = published \ {k}
  /\ UNCHANGED <<signing, tokens, keys, requestVars>>

PoolStep == PublishNext \/ SignWithNext \/ \E k \in Key : Withdraw(k)

Issue(use, client, groups) ==
  tokens' = tokens \cup {[kid |-> signing, use |-> use, client |-> client, groups |-> groups]}

-----------------------------------------------------------------------------
(* Middleware and validateToken *)

\* The key is looked up with the read lock held.
Receive(r, t) ==
  /\ At(r, "idle") /\ t \in tokens
  /\ token' = [token EXCEPT ![r] = t]
  /\ Goto(r, IF t.kid \in keys THEN "claims" ELSE "fetch")
  /\ UNCHANGED <<pool, tokens, keys, fetched, overtaken>>

\* The pool answers; the request has not yet taken the lock.
FetchKeys(r) ==
  /\ At(r, "fetch")
  /\ fetched' = [fetched EXCEPT ![r] = published]
  /\ Goto(r, "store")
  /\ UNCHANGED <<pool, tokens, keys, token, overtaken>>

\* No answer within 10 seconds, one that is not 200 or not JSON.
FetchFails(r) ==
  /\ "fetch" \in Faults /\ At(r, "fetch")
  /\ Goto(r, "unfetched")
  /\ UNCHANGED <<pool, tokens, keys, token, fetched, overtaken>>

\* Mutant: the map is only filled while it is empty.
StoreKeys_Once(r) ==
  /\ At(r, "store")
  /\ keys' = IF keys = {} THEN fetched[r] ELSE keys
  /\ overtaken' = [q \in Request |-> overtaken[q] \/ (At(q, "again") /\ token[q].kid \notin fetched[r])]
  /\ Goto(r, "again")
  /\ UNCHANGED <<pool, tokens, token, fetched>>

StoreKeys(r) ==
  /\ At(r, "store")
  /\ keys' = fetched[r]
  /\ overtaken' = [q \in Request |-> overtaken[q] \/ (At(q, "again") /\ token[q].kid \notin fetched[r])]
  /\ Goto(r, "again")
  /\ UNCHANGED <<pool, tokens, token, fetched>>

\* Mutant: the key is looked for once only, before the refresh.
LookUpAgain_Before(r) ==
  /\ At(r, "again")
  /\ Goto(r, "unknownKid")
  /\ UNCHANGED <<pool, tokens, keys, token, fetched, overtaken>>

LookUpAgain(r) ==
  /\ At(r, "again")
  /\ Goto(r, IF token[r].kid \in keys THEN "claims" ELSE "unknownKid")
  /\ UNCHANGED <<pool, tokens, keys, token, fetched, overtaken>>

\* An id token names the client as aud, an access token as client_id; with no
\* client configured every one is accepted.
ClaimsAccepted(t) ==
  t.use \in {"id", "access"} /\ (Recognised = {} \/ t.client \in Recognised)

MapCognitoGroupsToRoles(groups) == {RoleOf[g] : g \in groups} \ {NoRole}

\* Both tests are of the token alone.
Admit(r, allowed) ==
  /\ At(r, "claims") /\ allowed \in Route
  /\ Goto(r, IF ~ClaimsAccepted(token[r]) THEN "badClaims"
             ELSE IF MapCognitoGroupsToRoles(token[r].groups) \cap allowed = {} THEN "forbidden"
             ELSE "served")
  /\ UNCHANGED <<pool, tokens, keys, token, fetched, overtaken>>

Final == {"unfetched", "unknownKid", "badClaims", "served", "forbidden"}

\* The request is answered and another takes its place.
Answer(r) ==
  /\ pc[r] \in Final
  /\ Goto(r, "idle")
  /\ token' = [token EXCEPT ![r] = NoToken]
  /\ fetched' = [fetched EXCEPT ![r] = {}]
  /\ overtaken' = [overtaken EXCEPT ![r] = FALSE]
  /\ UNCHANGED <<pool, tokens, keys>>

Proceed(r) ==
  \/ FetchKeys(r) \/ FetchFails(r) \/ StoreKeys(r) \/ LookUpAgain(r)
  \/ \E allowed \in Route : Admit(r, allowed)
  \/ Answer(r)

CacheNext ==
  \/ PoolStep
  \/ \E r \in Request : Proceed(r) \/ \E t \in tokens : Receive(r, t)

PoolIssues ==
  /\ \E t \in Token : Issue(t.use, t.client, t.groups)
  /\ UNCHANGED <<pool, keys, requestVars>>

Next == CacheNext \/ PoolIssues

Spec == Init /\ [][Next]_vars

\* A handler that has started goes on: a fetch ends within its timeout.
Fairness == \A r \in Request : WF_vars(Proceed(r))

-----------------------------------------------------------------------------
(* Properties *)

Busy == {"fetch", "store", "again", "claims"}

TypeOK ==
  /\ published \subseteq Key /\ signing \in published
  /\ tokens \subseteq Token
  /\ keys \subseteq Key
  /\ pc \in [Request -> {"idle"} \cup Busy \cup Final]
  /\ token \in [Request -> Token \cup {NoToken}]
  /\ \A r \in Request : pc[r] \in Busy => token[r] \in tokens
  /\ fetched \in [Request -> SUBSET Key]
  /\ overtaken \in [Request -> BOOLEAN]

\* A request is told that its key is unknown although the pool publishes the
\* key only if, between its own refresh and its second look, another request
\* stored an answer that the pool gave before it published the key.
UnknownHasCause ==
  \A r \in Request : At(r, "unknownKid") /\ token[r].kid \in published => overtaken[r]

\* A token of a key the pool has published is refused for its key only for a
\* while: when the pool has stopped changing its keys, answers of an older set
\* cannot displace the current one for ever.
FalseRejectionsStop ==
  <>[][\A r \in Request : At(r, "unknownKid")' => token'[r].kid \notin published']_vars
=============================================================================
