--------------------------- MODULE SessionsProofs ---------------------------
(***************************************************************************)
(* For any number of requests, keys, conversations and users: the types,   *)
(* the reason there is for refusing a published key, and that nobody gets  *)
(* in with a password who has not accepted the terms.  What happens at the *)
(* middleware while people log in is what JwksCache allows.                *)
(***************************************************************************)
EXTENDS Sessions, TLAPS

-----------------------------------------------------------------------------
(* The middleware *)

\* A key that signs, or has signed, and was withdrawn is never published again;
\* so a request whose key is published has it in the answer to its own fetch,
\* and it stays in the cache until another answer is stored.
FetchedKeys ==
  \A r \in Request :
    /\ pc[r] \in Busy => token[r].kid \in Key /\ token[r].kid <= signing
    /\ pc[r] \in {"store", "again"} /\ token[r].kid \in published => token[r].kid \in fetched[r]
    /\ pc[r] = "again" /\ token[r].kid \in published /\ ~overtaken[r] => token[r].kid \in keys
    /\ pc[r] = "unknownKid" => token[r].kid \in Key /\ token[r].kid <= signing

TokensSigned == \A t \in tokens : t.kid <= signing

CacheInv == TypeOK /\ TokensSigned /\ FetchedKeys /\ UnknownHasCause

LEMMA CacheInit == Init => CacheInv
  BY LastKeyAssumption
  DEF Init, CacheInv, TypeOK, TokensSigned, FetchedKeys, UnknownHasCause, Key, Busy, Final, At

LEMMA PoolPreserves == CacheInv /\ PoolStep => CacheInv'
  <1> SUFFICES ASSUME CacheInv, PoolStep PROVE CacheInv'
    OBVIOUS
  <1> USE LastKeyAssumption DEF CacheInv, TypeOK, TokensSigned, FetchedKeys, UnknownHasCause,
        pool, requestVars, Key, Busy, Final, At, Token
  <1>1. CASE PublishNext
    BY <1>1 DEF PublishNext
  <1>2. CASE SignWithNext
    BY <1>2 DEF SignWithNext
  <1>3. ASSUME NEW k \in Key, Withdraw(k) PROVE CacheInv'
    BY <1>3 DEF Withdraw
  <1>4. QED
    BY <1>1, <1>2, <1>3 DEF PoolStep

LEMMA IssuePreserves == CacheInv /\ PoolIssues => CacheInv'
  <1> SUFFICES ASSUME CacheInv, PoolIssues PROVE CacheInv'
    OBVIOUS
  <1>1. PICK t \in Token : Issue(t.use, t.client, t.groups)
    BY DEF PoolIssues
  <1>2. UNCHANGED <<published, signing, keys, pc, token, fetched, overtaken>>
    BY DEF PoolIssues, pool, requestVars
  <1> DEFINE n == [kid |-> signing, use |-> t.use, client |-> t.client, groups |-> t.groups]
  <1>3. n \in Token /\ n.kid = signing
    BY DEF CacheInv, TypeOK, Token
  <1>4. tokens' = tokens \cup {n}
    BY <1>1 DEF Issue
  <1>5. signing \in Nat
    BY LastKeyAssumption DEF CacheInv, TypeOK, Key
  <1> HIDE DEF n
  <1>6. QED
    BY <1>2, <1>3, <1>4, <1>5
    DEF CacheInv, TypeOK, TokensSigned, FetchedKeys, UnknownHasCause, At

LEMMA RequestPreserves ==
  ASSUME CacheInv, NEW r \in Request, Proceed(r) \/ \E t \in tokens : Receive(r, t)
  PROVE  CacheInv'
  <1> USE DEF CacheInv, TypeOK, TokensSigned, FetchedKeys, UnknownHasCause,
        pool, requestVars, Busy, Final, At, Goto
  <1>1. ASSUME NEW t \in tokens, Receive(r, t) PROVE CacheInv'
    BY <1>1 DEF Receive, Token
  <1>2. CASE FetchKeys(r)
    BY <1>2 DEF FetchKeys
  <1>3. CASE FetchFails(r)
    BY <1>3 DEF FetchFails
  <1>4. CASE StoreKeys(r)
    BY <1>4 DEF StoreKeys
  <1>5. CASE LookUpAgain(r)
    BY <1>5 DEF LookUpAgain
  <1>6. ASSUME NEW allowed \in Route, Admit(r, allowed) PROVE CacheInv'
    BY <1>6 DEF Admit
  <1>7. CASE Answer(r)
    BY <1>7 DEF Answer
  <1>8. QED
    BY <1>1, <1>2, <1>3, <1>4, <1>5, <1>6, <1>7 DEF Proceed

LEMMA CacheStep == CacheInv /\ [Next]_vars => CacheInv'
  <1> SUFFICES ASSUME CacheInv, [Next]_vars PROVE CacheInv'
    OBVIOUS
  <1>1. CASE CacheNext
    BY <1>1, PoolPreserves, RequestPreserves DEF CacheNext
  <1>2. CASE PoolIssues
    BY <1>2, IssuePreserves
  <1>3. CASE UNCHANGED vars
    BY <1>3 DEF vars, pool, requestVars, CacheInv, TypeOK, TokensSigned, FetchedKeys, UnknownHasCause, At
  <1>4. QED
    BY <1>1, <1>2, <1>3 DEF Next

\* A request is refused a published key only when an answer older than the key
\* overtook its own (getKey and refreshKeys, without a lock over both).
THEOREM RefusalHasCause == Spec => []UnknownHasCause
  <1>1. Spec => []CacheInv
    BY CacheInit, CacheStep, PTL DEF Spec
  <1>2. CacheInv => UnknownHasCause
    BY DEF CacheInv
  <1>3. QED
    BY <1>1, <1>2, PTL
-----------------------------------------------------------------------------
(* Sessions on top of it *)

\* Whoever goes on past the terms has accepted them.
Consenting ==
  /\ \A u \in User : IcId[u] \in icTerms => \E w \in consented : {IcId[w], QsId[w]} \cap {IcId[u]} # {}
  /\ \A u \in User : QsId[u] \in qsTerms => \E w \in consented : {IcId[w], QsId[w]} \cap {QsId[u]} # {}
  /\ \A v \in Visit :
       /\ In(v, "icAccept") => accepts[v]
       /\ at[v] \in {"ic", "icAccept", "cognito", "cognitoUser", "needsTerms", "welcome"} => user[v] \in User
       /\ In(v, "needsTerms") /\ path[v] = "cognito" => user[v] \in InQs
       /\ In(v, "cognitoUser") => path[v] = "cognito"

SessionInv == CacheInv /\ SessionTypeOK /\ Consenting /\ EntryIsConsented

LEMMA SessionStarts == SessionInit => SessionInv
  <1> SUFFICES ASSUME SessionInit PROVE SessionInv
    OBVIOUS
  <1>1. CacheInv /\ TypeOK
    BY CacheInit DEF SessionInit, CacheInv
  <1>2. QED
    BY <1>1, UsersAssumption
    DEF SessionInit, SessionInv, SessionTypeOK, Consenting, EntryIsConsented, Ids, QsIds, In, Ended

\* A step of a conversation issues a token or leaves the middleware alone.
LEMMA TokenIssued ==
  ASSUME TypeOK, NEW client \in Client, NEW groups \in SUBSET Group,
         Issue("id", client, groups), UNCHANGED cacheVars
  PROVE  PoolIssues
  <1> DEFINE t == [kid |-> signing, use |-> "id", client |-> client, groups |-> groups]
  <1>1. t \in Token
    BY DEF TypeOK, Token
  <1>2. QED
    BY <1>1 DEF PoolIssues, cacheVars, pool, requestVars, Issue

LEMMA VisitRefines ==
  ASSUME TypeOK, NEW v \in Visit, VisitorActs(v) \/ VisitProceeds(v), user[v] \in User \/ at[v] \notin {"ic", "icAccept", "cognito", "cognitoUser", "welcome"}
  PROVE  [Next]_vars
  <1>1. UNCHANGED cacheVars
    BY DEF VisitorActs, VisitProceeds, Login, IcAnswers, IcRefuses, IcFails, IcLoginAccepts, CognitoAnswers,
       CognitoFails, CognitoLoginAccepts, CognitoLoginFinds, CognitoLoginFindsNobody, AcceptTerms, Refresh,
       SsoCallback, Leave
  <1>2. \/ UNCHANGED tokens
        \/ \E u \in User : Issue("id", AppClient, Groups[u]) \/ Issue("id", SsoClient, Groups[u])
    BY DEF VisitorActs, VisitProceeds, Login, IcAnswers, IcRefuses, IcFails, IcLoginAccepts, CognitoAnswers,
       CognitoFails, CognitoLoginAccepts, CognitoLoginFinds, CognitoLoginFindsNobody, AcceptTerms, Refresh,
       SsoCallback, Leave, IssueTo, In
  <1>3. CASE UNCHANGED tokens
    BY <1>1, <1>3 DEF vars, cacheVars, pool, requestVars
  <1>4. ASSUME NEW u \in User, Issue("id", AppClient, Groups[u]) \/ Issue("id", SsoClient, Groups[u])
        PROVE Next
    BY <1>1, <1>4, TokenIssued, UsersAssumption, ClientsAssumption, RecognisedAssumption DEF Next
  <1>5. QED
    BY <1>2, <1>3, <1>4

LEMMA SessionRefines == SessionInv /\ [SessionNext]_sessionVars => [Next]_vars
  <1> SUFFICES ASSUME SessionInv, [SessionNext]_sessionVars PROVE [Next]_vars
    OBVIOUS
  <1>1. CASE CacheNext
    BY <1>1 DEF Next
  <1>2. ASSUME NEW v \in Visit, VisitorActs(v) \/ VisitProceeds(v) PROVE [Next]_vars
    BY <1>2, VisitRefines DEF SessionInv, SessionTypeOK, Consenting, In
  <1>3. CASE UNCHANGED sessionVars
    BY <1>3 DEF sessionVars
  <1>4. QED
    BY <1>1, <1>2, <1>3 DEF SessionNext

\* What remains of SessionInv when the middleware is looked after.
LoginInv ==
  /\ icTerms \subseteq Ids /\ qsTerms \subseteq QsIds
  /\ at \in [Visit -> {"idle", "ic", "icAccept", "cognito", "cognitoUser"} \cup Ended]
  /\ user \in [Visit -> User \cup {NoUser}]
  /\ accepts \in [Visit -> BOOLEAN] /\ path \in [Visit -> {"none", "ic", "cognito", "unread"}]
  /\ \A v \in Visit : at[v] = "needsTerms" => path[v] \in {"ic", "cognito"}
  /\ consented \subseteq User /\ unrecorded \subseteq consented
  /\ Consenting /\ EntryIsConsented

LEMMA LoginSplit == SessionInv <=> CacheInv /\ LoginInv
  BY DEF SessionInv, SessionTypeOK, LoginInv, CacheInv, In

\* An acceptance is recorded under ids of the user who made it.
Marks(u, ic, qs) ==
  /\ ic \subseteq {IcId[u], QsId[u]} /\ qs \subseteq {IcId[u], QsId[u]}
  /\ ic \subseteq Ids
  /\ icTerms' = icTerms \cup ic
  /\ qsTerms' = qsTerms \cup (qs \cap QsIds)
  /\ consented' = consented \cup {u}
  /\ unrecorded' \subseteq unrecorded \cup {u}

LEMMA AcceptMarks ==
  ASSUME NEW u, NEW ic, NEW qs, NEW lost, Accept(u, ic, qs, lost),
         ic \subseteq {IcId[u], QsId[u]} \cap Ids, qs \subseteq {IcId[u], QsId[u]}
  PROVE  Marks(u, ic, qs)
  BY DEF Accept, Marks

LEMMA MarksConsent ==
  ASSUME LoginInv, NEW u \in User, NEW ic, NEW qs, Marks(u, ic, qs)
  PROVE  /\ icTerms' \subseteq Ids /\ qsTerms' \subseteq QsIds
         /\ u \in consented' /\ consented \subseteq consented'
         /\ consented' \subseteq User /\ unrecorded' \subseteq consented'
         /\ \A x \in User : IcId[x] \in icTerms' => \E w \in consented' : {IcId[w], QsId[w]} \cap {IcId[x]} # {}
         /\ \A x \in User : QsId[x] \in qsTerms' => \E w \in consented' : {IcId[w], QsId[w]} \cap {QsId[x]} # {}
  <1>1. icTerms' \subseteq Ids /\ qsTerms' \subseteq QsIds /\ consented' \subseteq User /\ unrecorded' \subseteq consented'
    BY DEF LoginInv, Marks
  <1>2. ASSUME NEW x \in User, IcId[x] \in icTerms'
        PROVE \E w \in consented' : {IcId[w], QsId[w]} \cap {IcId[x]} # {}
    BY <1>2 DEF LoginInv, Consenting, Marks
  <1>3. ASSUME NEW x \in User, QsId[x] \in qsTerms'
        PROVE \E w \in consented' : {IcId[w], QsId[w]} \cap {QsId[x]} # {}
    BY <1>3 DEF LoginInv, Consenting, Marks
  <1>4. QED
    BY <1>1, <1>2, <1>3 DEF Marks

\* The calls that record an acceptance.
LEMMA AcceptingMarks ==
  ASSUME LoginInv, NEW v \in Visit, IcLoginAccepts(v) \/ CognitoLoginAccepts(v) \/ AcceptTerms(v)
  PROVE  user[v] \in User /\ \E ic, qs : Marks(user[v], ic, qs)
  <1>1. user[v] \in User
    BY DEF LoginInv, Consenting, IcLoginAccepts, CognitoLoginAccepts, AcceptTerms, In
  <1>2. CASE IcLoginAccepts(v)
    BY <1>1, <1>2, AcceptMarks DEF IcLoginAccepts, Sent, Ids
  <1>3. CASE CognitoLoginAccepts(v)
    <2>1. PICK qs \in Sent(QsId[user[v]]) : Accept(user[v], {}, qs, Configured \/ qs = {})
      BY <1>3 DEF CognitoLoginAccepts
    <2>2. qs \subseteq {QsId[user[v]]}
      BY DEF Sent
    <2>3. Marks(user[v], {}, qs)
      BY <2>1, <2>2, AcceptMarks
    <2>4. QED
      BY <1>1, <2>3
  <1>4. CASE AcceptTerms(v)
    <2> DEFINE id == IF path[v] = "ic" THEN IcId[user[v]] ELSE QsId[user[v]]
    <2>1. PICK ic \in IF Configured THEN Sent(id) ELSE {{}}, qs \in Sent(id) :
            Accept(user[v], ic, qs, (Configured /\ ic = {}) \/ qs = {})
      BY <1>4 DEF AcceptTerms
    <2>2. id \in {IcId[user[v]], QsId[user[v]]} \cap Ids
      BY <1>1, <1>4 DEF LoginInv, Consenting, AcceptTerms, In, Ids, QsIds
    <2>3. ic \subseteq {id} /\ qs \subseteq {id}
      BY ClientsAssumption DEF Sent
    <2>4. Marks(user[v], ic, qs)
      BY <2>1, <2>2, <2>3, AcceptMarks
    <2>5. QED
      BY <1>1, <2>4
  <1>5. QED
    BY <1>2, <1>3, <1>4

LEMMA AcceptingPreserves ==
  ASSUME LoginInv, NEW v \in Visit, IcLoginAccepts(v) \/ CognitoLoginAccepts(v) \/ AcceptTerms(v)
  PROVE  LoginInv'
  <1>1. PICK ic, qs : Marks(user[v], ic, qs)
    BY AcceptingMarks
  <1>2. user[v] \in User
    BY AcceptingMarks
  <1>3. /\ at' \in {[at EXCEPT ![v] = "welcome"], [at EXCEPT ![v] = "accepted"]}
        /\ UNCHANGED <<user, accepts, path>>
    BY DEF IcLoginAccepts, CognitoLoginAccepts, AcceptTerms, Move
  <1>4. QED
    BY <1>1, <1>2, <1>3, MarksConsent DEF LoginInv, Consenting, EntryIsConsented, In, Ended

LEMMA VisitPreserves ==
  ASSUME LoginInv, NEW v \in Visit, VisitorActs(v) \/ VisitProceeds(v)
  PROVE  LoginInv'
  <1>1. CASE IcLoginAccepts(v) \/ CognitoLoginAccepts(v) \/ AcceptTerms(v)
    BY <1>1, AcceptingPreserves
  <1>2. ASSUME NEW u \in User, SsoCallback(v, u) PROVE LoginInv'
    BY <1>2, UsersAssumption DEF LoginInv, Consenting, EntryIsConsented, In, Move, Ended, termsVars, historyVars, SsoCallback
  <1>3. ASSUME NEW u \in User, NEW accept \in BOOLEAN, Login(v, u, accept) PROVE LoginInv'
    BY <1>3, UsersAssumption DEF LoginInv, Consenting, EntryIsConsented, In, Move, Ended, termsVars, historyVars, Login
  <1>4. CASE IcAnswers(v)
    BY <1>4, UsersAssumption DEF LoginInv, Consenting, EntryIsConsented, In, Move, Ended, termsVars, historyVars, IcAnswers
  <1>5. CASE IcRefuses(v)
    BY <1>5, UsersAssumption DEF LoginInv, Consenting, EntryIsConsented, In, Move, Ended, termsVars, historyVars, IcRefuses
  <1>6. CASE IcFails(v)
    BY <1>6, UsersAssumption DEF LoginInv, Consenting, EntryIsConsented, In, Move, Ended, termsVars, historyVars, IcFails
  <1>7. CASE CognitoAnswers(v)
    BY <1>7, UsersAssumption DEF LoginInv, Consenting, EntryIsConsented, In, Move, Ended, termsVars, historyVars, CognitoAnswers
  <1>8. CASE CognitoFails(v)
    BY <1>8, UsersAssumption DEF LoginInv, Consenting, EntryIsConsented, In, Move, Ended, termsVars, historyVars, CognitoFails
  <1>9. CASE CognitoLoginFinds(v)
    BY <1>9, UsersAssumption DEF LoginInv, Consenting, EntryIsConsented, In, Move, Ended, termsVars, historyVars, CognitoLoginFinds
  <1>10. CASE CognitoLoginFindsNobody(v)
    BY <1>10, UsersAssumption DEF LoginInv, Consenting, EntryIsConsented, In, Move, Ended, termsVars, historyVars, CognitoLoginFindsNobody
  <1>11. CASE Refresh(v)
    BY <1>11, UsersAssumption DEF LoginInv, Consenting, EntryIsConsented, In, Move, Ended, termsVars, historyVars, Refresh
  <1>12. CASE Leave(v)
    BY <1>12, UsersAssumption DEF LoginInv, Consenting, EntryIsConsented, In, Move, Ended, termsVars, historyVars, Leave
  <1>13. QED
    <2>1. CASE VisitProceeds(v)
      BY <2>1, <1>1, <1>4, <1>5, <1>6, <1>7, <1>8, <1>9, <1>10 DEF VisitProceeds
    <2>2. CASE VisitorActs(v)
      <3>1. CASE \E u \in User : SsoCallback(v, u)
        BY <3>1, <1>2
      <3>2. CASE \E u \in User, accept \in BOOLEAN : Login(v, u, accept)
        BY <3>2, <1>3
      <3>3. QED
        BY <2>2, <3>1, <3>2, <1>1, <1>11, <1>12 DEF VisitorActs
    <2>3. QED
      BY <2>1, <2>2

LEMMA SessionStep == SessionInv /\ [SessionNext]_sessionVars => SessionInv'
  <1> SUFFICES ASSUME SessionInv, [SessionNext]_sessionVars PROVE SessionInv'
    OBVIOUS
  <1>1. CacheInv'
    BY SessionRefines, CacheStep DEF SessionInv
  <1>2. LoginInv'
    <2>1. LoginInv
      BY LoginSplit
    <2>2. ASSUME NEW v \in Visit, VisitorActs(v) \/ VisitProceeds(v) PROVE LoginInv'
      BY <2>1, <2>2, VisitPreserves
    <2>3. CASE UNCHANGED loginVars
      BY <2>1, <2>3 DEF LoginInv, Consenting, EntryIsConsented, In, loginVars, termsVars, visitVars, historyVars
    <2>4. QED
      BY <2>2, <2>3 DEF SessionNext, sessionVars
  <1>3. QED
    BY <1>1, <1>2 DEF SessionInv, SessionTypeOK, LoginInv, CacheInv, In

LEMMA SessionAlways == SessionSpec => []SessionInv
  BY SessionStarts, SessionStep, PTL DEF SessionSpec

\* Every variable of the sessions, and of the middleware below, keeps its type.
THEOREM SessionTypes == SessionSpec => []SessionTypeOK
  <1>1. SessionInv => SessionTypeOK
    BY DEF SessionInv
  <1>2. QED
    BY <1>1, SessionAlways, PTL

\* Nobody gets in with a password who has not accepted the terms, however
\* InCrowdAPI, Cognito and the statements fail (handleICLoginSuccess and
\* handleCognitoLoginSuccess).
THEOREM EntryNeedsConsent == SessionSpec => []EntryIsConsented
  <1>1. SessionInv => EntryIsConsented
    BY DEF SessionInv
  <1>2. QED
    BY <1>1, SessionAlways, PTL

-----------------------------------------------------------------------------
(* Who is asked again                                                     *)

\* The acceptance of a user who has one id, and of which no update was lost, is
\* where the next login looks for it: in IC, if that is asked, and in QS, if that
\* knows the user.
Recorded(u) ==
  u \in consented \ unrecorded /\ IcId[u] = QsId[u] =>
    /\ Configured => IcId[u] \in icTerms
    /\ u \in InQs => QsId[u] \in qsTerms

AllRecorded == \A u \in User : Recorded(u)

\* IC is asked only where it is configured.
AskedIc == \A v \in Visit : at[v] = "ic" => Configured

RecordInv == SessionInv /\ AllRecorded /\ AskedIc

LEMMA RecordStarts == SessionInit => RecordInv
  BY SessionStarts DEF SessionInit, RecordInv, AllRecorded, Recorded, AskedIc

\* An acceptance sent to the systems that count, all of whose updates went through, is in both.
LEMMA AcceptRecords ==
  ASSUME AllRecorded, NEW u \in User, NEW ic, NEW qs, NEW lost \in BOOLEAN, Accept(u, ic, qs, lost),
         ~lost /\ IcId[u] = QsId[u] => /\ Configured => IcId[u] \in ic
                                       /\ QsId[u] \in qs
  PROVE  AllRecorded'
  <1> SUFFICES ASSUME NEW w \in User, w \in consented' \ unrecorded', IcId[w] = QsId[w]
               PROVE  (Configured => IcId[w] \in icTerms') /\ (w \in InQs => QsId[w] \in qsTerms')
    BY DEF AllRecorded, Recorded
  <1>1. icTerms \subseteq icTerms' /\ qsTerms \subseteq qsTerms' /\ unrecorded \subseteq unrecorded'
    BY DEF Accept
  <1>2. CASE w \in consented
    BY <1>1, <1>2 DEF AllRecorded, Recorded
  <1>3. CASE w \notin consented
    <2>1. w = u /\ ~lost
      BY <1>3 DEF Accept
    <2>2. QED
      BY <2>1 DEF Accept, QsIds
  <1> QED
    BY <1>2, <1>3

LEMMA AcceptingRecords ==
  ASSUME RecordInv, NEW v \in Visit, IcLoginAccepts(v) \/ CognitoLoginAccepts(v) \/ AcceptTerms(v)
  PROVE  AllRecorded'
  <1>1. user[v] \in User /\ AllRecorded
    BY AcceptingMarks, LoginSplit DEF RecordInv
  <1>2. CASE IcLoginAccepts(v)
    <2>1. PICK ic \in Sent(IcId[user[v]]), qs \in Sent(IcId[user[v]]) : Accept(user[v], ic, qs, ic = {} \/ qs = {})
      BY <1>2 DEF IcLoginAccepts
    <2>2. ~(ic = {} \/ qs = {}) => ic = {IcId[user[v]]} /\ qs = {IcId[user[v]]}
      BY DEF Sent
    <2> QED
      BY <1>1, <2>1, <2>2, AcceptRecords
  <1>3. CASE CognitoLoginAccepts(v)
    <2>1. PICK qs \in Sent(QsId[user[v]]) : Accept(user[v], {}, qs, Configured \/ qs = {})
      BY <1>3 DEF CognitoLoginAccepts
    <2>2. ~(Configured \/ qs = {}) => ~Configured /\ qs = {QsId[user[v]]}
      BY DEF Sent
    <2> QED
      BY <1>1, <2>1, <2>2, AcceptRecords, ClientsAssumption
  <1>4. CASE AcceptTerms(v)
    <2> DEFINE id == IF path[v] = "ic" THEN IcId[user[v]] ELSE QsId[user[v]]
    <2>1. PICK ic \in IF Configured THEN Sent(id) ELSE {{}}, qs \in Sent(id) :
            Accept(user[v], ic, qs, (Configured /\ ic = {}) \/ qs = {})
      BY <1>4 DEF AcceptTerms
    <2>2. ~((Configured /\ ic = {}) \/ qs = {}) => (Configured => ic = {id}) /\ qs = {id}
      BY DEF Sent
    <2>3. IcId[user[v]] = QsId[user[v]] => id = IcId[user[v]] /\ id = QsId[user[v]]
      OBVIOUS
    <2> HIDE DEF id
    <2> QED
      BY <1>1, <2>1, <2>2, <2>3, AcceptRecords
  <1> QED
    BY <1>2, <1>3, <1>4

\* The other steps leave the records and their history alone.
LEMMA OthersRecordNothing ==
  ASSUME NEW v \in Visit, VisitorActs(v) \/ VisitProceeds(v)
  PROVE  \/ IcLoginAccepts(v) \/ CognitoLoginAccepts(v) \/ AcceptTerms(v)
         \/ UNCHANGED <<termsVars, historyVars>>
  BY DEF VisitorActs, VisitProceeds, Login, IcAnswers, IcRefuses, IcFails, CognitoAnswers, CognitoFails,
     CognitoLoginFinds, CognitoLoginFindsNobody, Refresh, SsoCallback, Leave, termsVars, historyVars

LEMMA IcIsConfigured ==
  ASSUME RecordInv, NEW v \in Visit, VisitorActs(v) \/ VisitProceeds(v)
  PROVE  AskedIc'
  <1>1. at \in [Visit -> {"idle", "ic", "icAccept", "cognito", "cognitoUser"} \cup Ended]
    BY DEF RecordInv, SessionInv, SessionTypeOK
  <1>2. \/ \E l : at' = [at EXCEPT ![v] = l] /\ (l = "ic" => Configured)
        \/ UNCHANGED at
    BY DEF VisitorActs, VisitProceeds, Login, IcAnswers, IcRefuses, IcFails, IcLoginAccepts, CognitoAnswers,
       CognitoFails, CognitoLoginAccepts, CognitoLoginFinds, CognitoLoginFindsNobody, AcceptTerms, Refresh,
       SsoCallback, Leave, Move
  <1> QED
    BY <1>1, <1>2 DEF RecordInv, AskedIc

LEMMA RecordStep == RecordInv /\ [SessionNext]_sessionVars => RecordInv'
  <1> SUFFICES ASSUME RecordInv, [SessionNext]_sessionVars PROVE RecordInv'
    OBVIOUS
  <1>1. SessionInv'
    BY SessionStep DEF RecordInv
  <1>2. ASSUME NEW v \in Visit, VisitorActs(v) \/ VisitProceeds(v) PROVE AllRecorded' /\ AskedIc'
    <2>1. CASE IcLoginAccepts(v) \/ CognitoLoginAccepts(v) \/ AcceptTerms(v)
      BY <1>2, <2>1, AcceptingRecords, IcIsConfigured
    <2>2. CASE UNCHANGED <<termsVars, historyVars>>
      BY <1>2, <2>2, IcIsConfigured DEF RecordInv, AllRecorded, Recorded, termsVars, historyVars
    <2> QED
      BY <1>2, <2>1, <2>2, OthersRecordNothing
  <1>3. ASSUME UNCHANGED loginVars PROVE AllRecorded' /\ AskedIc'
    BY <1>3 DEF RecordInv, AllRecorded, Recorded, AskedIc, loginVars, termsVars, visitVars, historyVars
  <1>4. UNCHANGED loginVars \/ \E v \in Visit : VisitorActs(v) \/ VisitProceeds(v)
    BY DEF SessionNext, sessionVars
  <1>5. AllRecorded' /\ AskedIc'
    BY <1>2, <1>3, <1>4
  <1> QED
    BY <1>1, <1>5 DEF RecordInv

\* A step after which terms are asked for is the answer of IC, or of QS on the other path.
LEMMA AskedFor ==
  ASSUME RecordInv, NEW w \in Visit, VisitorActs(w) \/ VisitProceeds(w),
         NEW v \in Visit, at[v] # "needsTerms", at'[v] = "needsTerms"
  PROVE  /\ v = w /\ user' = user /\ historyVars' = historyVars /\ user[v] \in User
         /\ \/ Configured /\ IcId[user[v]] \notin icTerms
            \/ user[v] \in InQs /\ QsId[user[v]] \notin qsTerms
  <1>1. at \in [Visit -> {"idle", "ic", "icAccept", "cognito", "cognitoUser"} \cup Ended]
    BY DEF RecordInv, SessionInv, SessionTypeOK
  <1>2. \E l : at' = [at EXCEPT ![w] = l] \/ UNCHANGED at
    BY DEF VisitorActs, VisitProceeds, Login, IcAnswers, IcRefuses, IcFails, IcLoginAccepts, CognitoAnswers,
       CognitoFails, CognitoLoginAccepts, CognitoLoginFinds, CognitoLoginFindsNobody, AcceptTerms, Refresh,
       SsoCallback, Leave, Move
  <1>3. v = w
    BY <1>1, <1>2
  <1>4. IcAnswers(v) \/ CognitoLoginFinds(v)
    BY <1>1, <1>3 DEF VisitorActs, VisitProceeds, Login, IcRefuses, IcFails, IcLoginAccepts, CognitoAnswers,
       CognitoFails, CognitoLoginAccepts, CognitoLoginFindsNobody, AcceptTerms, Refresh, SsoCallback, Leave, Move
  <1>5. user[v] \in User
    BY <1>4 DEF RecordInv, SessionInv, Consenting, IcAnswers, CognitoLoginFinds, In
  <1>6. CASE IcAnswers(v)
    BY <1>1, <1>3, <1>5, <1>6 DEF IcAnswers, RecordInv, AskedIc, In, Move, historyVars
  <1>7. CASE CognitoLoginFinds(v)
    BY <1>1, <1>3, <1>5, <1>7 DEF CognitoLoginFinds, In, Move, historyVars
  <1> QED
    BY <1>4, <1>6, <1>7

\* Nobody who has accepted the terms is asked for them again, by InCrowdAPI or by
\* Cognito and QS, unless an update of the acceptance was lost or never made, or
\* their two ids differ (handleICLoginSuccess, handleCognitoLoginSuccess and
\* AuthAcceptTerms).
THEOREM AskedAgain == SessionSpec => AskedAgainHasCause
  <1> DEFINE Caused == \A v \in Visit :
       ~In(v, "needsTerms") /\ In(v, "needsTerms")' =>
         user'[v] \notin consented \ unrecorded \/ IcId[user'[v]] # QsId[user'[v]]
  <1>1. RecordInv /\ [SessionNext]_sessionVars => [Caused]_sessionVars
    <2> SUFFICES ASSUME RecordInv, SessionNext, NEW v \in Visit, at[v] # "needsTerms", at'[v] = "needsTerms"
                 PROVE  user'[v] \notin consented \ unrecorded \/ IcId[user'[v]] # QsId[user'[v]]
      BY DEF In
    <2>1. PICK w \in Visit : VisitorActs(w) \/ VisitProceeds(w)
      BY DEF SessionNext, loginVars, visitVars
    <2>2. AllRecorded
      BY DEF RecordInv
    <2> QED
      BY <2>1, <2>2, AskedFor DEF AllRecorded, Recorded
  <1>2. SessionSpec => []RecordInv
    BY RecordStarts, RecordStep, PTL DEF SessionSpec
  <1> HIDE DEF Caused
  <1>3. SessionSpec => [][Caused]_sessionVars
    BY <1>1, <1>2, PTL DEF SessionSpec
  <1> QED
    BY <1>3 DEF AskedAgainHasCause, Caused

-----------------------------------------------------------------------------
\* The middleware sees of the sessions only a pool that issues tokens.
THEOREM SessionsImplementCache == SessionSpec => Spec
  <1>1. SessionInit => Init
    BY DEF SessionInit
  <1>2. SessionInv /\ [SessionNext]_sessionVars => [Next]_vars
    BY SessionRefines
  <1>3. QED
    BY <1>1, <1>2, SessionAlways, PTL DEF SessionSpec, Spec
=============================================================================
