------------------------------ MODULE Sessions ------------------------------
(***************************************************************************)
(* Logging in, refreshing a session and accepting the terms, by way of     *)
(* InCrowdAPI ("IC") or, when it cannot be used, of Cognito; and the use   *)
(* of the tokens these give, which JwksCache checks.                       *)
(*                                                                         *)
(* IC and the QS database each remember who has accepted the terms.  A     *)
(* login accepts them with the id of the path it took; the endpoint that   *)
(* accepts them sends the id it is given to both.  Errors of writing are   *)
(* ignored.  IC and Cognito check the same password, which is abstracted   *)
(* to being right or wrong.                                                *)
(***************************************************************************)
EXTENDS JwksCache

CONSTANTS
  Visit,       \* conversations of somebody with the authentication endpoints
  User,
  NoUser,
  Groups,      \* the Cognito groups of each user
  IcId, QsId,  \* the ids of each user in IC and in QS
  InQs,        \* the users QS knows by their e-mail
  AppClient,   \* the client the passwords are checked for
  SsoClient,   \* the client of single sign-on
  Configured,  \* AUTH_API_URL is set
  LoginFaults  \* "ic", "cognito": they fail; "read", "write": a statement does

ASSUME UsersAssumption == InQs \subseteq User /\ Groups \in [User -> SUBSET Group] /\ NoUser \notin User
\* parseClientIDs puts the login client first among those recognised; that of
\* single sign-on is there only if somebody lists it.
ASSUME ClientsAssumption ==
  AppClient \in Recognised /\ SsoClient \in Client /\ Configured \in BOOLEAN

VARIABLES
  icTerms,   \* ids with accepted terms in IC
  qsTerms,   \* ids with terms_accepted = 1 in QS
  at,        \* where each call is
  user,      \* who makes it
  accepts,   \* termsAccepted in its request
  path,      \* which way it went
  consented, \* history: users who have accepted the terms
  unrecorded \* history: users an acceptance of whom was not recorded everywhere

termsVars == <<icTerms, qsTerms>>
visitVars == <<at, user, accepts, path>>
historyVars == <<consented, unrecorded>>
loginVars == <<termsVars, visitVars, historyVars>>
cacheVars == <<pool, keys, requestVars>>
sessionVars == <<vars, loginVars>>

QsIds == {QsId[u] : u \in InQs}
Ids == {IcId[u] : u \in User} \cup QsIds
Move(v, l) == at' = [at EXCEPT ![v] = l]
In(v, l) == at[v] = l
Ended == {"welcome", "needsTerms", "refused", "failed", "accepted", "signedOn"}
IssueTo(u) == Issue("id", AppClient, Groups[u])

SessionInit ==
  /\ Init
  /\ icTerms \in SUBSET {IcId[u] : u \in User}
  /\ qsTerms = {}
  /\ at = [v \in Visit |-> "idle"]
  /\ user = [v \in Visit |-> NoUser]
  /\ accepts = [v \in Visit |-> FALSE]
  /\ path = [v \in Visit |-> "none"]
  /\ consented = {u \in User : IcId[u] \in icTerms}
  /\ unrecorded = consented  \* QS has not been told

\* An update for the id, which may fail unnoticed.
Sent(id) == {{id}} \cup IF "write" \in LoginFaults THEN {{}} ELSE {}

\* User u accepts the terms: ids ic are marked in IC, and ids qs in QS, if they
\* have a row there.
Accept(u, ic, qs, lost) ==
  /\ icTerms' = icTerms \cup ic
  /\ qsTerms' = qsTerms \cup (qs \cap QsIds)
  /\ consented' = consented \cup {u}
  /\ unrecorded' = IF lost THEN unrecorded \cup {u} ELSE unrecorded

-----------------------------------------------------------------------------
(* Login *)

Login(v, u, accept) ==
  /\ In(v, "idle")
  /\ user' = [user EXCEPT ![v] = u]
  /\ accepts' = [accepts EXCEPT ![v] = accept]
  /\ Move(v, IF Configured THEN "ic" ELSE "cognito")
  /\ UNCHANGED <<cacheVars, tokens, termsVars, path, historyVars>>

\* With a right password IC answers 200, with a wrong one 401 or 422.  Any
\* other answer, or none, sends the call to Cognito.
IcAnswers(v) ==
  /\ In(v, "ic")
  /\ path' = [path EXCEPT ![v] = "ic"]
  /\ Move(v, IF IcId[user[v]] \in icTerms THEN "welcome"
             ELSE IF accepts[v] THEN "icAccept" ELSE "needsTerms")
  /\ IF IcId[user[v]] \in icTerms THEN IssueTo(user[v]) ELSE UNCHANGED tokens
  /\ UNCHANGED <<cacheVars, termsVars, user, accepts, historyVars>>

IcRefuses(v) ==
  /\ In(v, "ic")
  /\ Move(v, "refused")
  /\ UNCHANGED <<cacheVars, tokens, termsVars, user, accepts, path, historyVars>>

IcFails(v) ==
  /\ "ic" \in LoginFaults /\ In(v, "ic")
  /\ Move(v, "cognito")
  /\ UNCHANGED <<cacheVars, tokens, termsVars, user, accepts, path, historyVars>>

\* Both updates use the id of IC.
IcLoginAccepts(v) ==
  /\ In(v, "icAccept")
  /\ \E ic \in Sent(IcId[user[v]]), qs \in Sent(IcId[user[v]]) :
       Accept(user[v], ic, qs, ic = {} \/ qs = {})
  /\ IssueTo(user[v])
  /\ Move(v, "welcome")
  /\ UNCHANGED <<cacheVars, user, accepts, path>>

CognitoAnswers(v) ==
  /\ In(v, "cognito")
  /\ path' = [path EXCEPT ![v] = "cognito"]
  /\ Move(v, "cognitoUser")
  /\ UNCHANGED <<cacheVars, tokens, termsVars, user, accepts, historyVars>>

CognitoFails(v) ==
  /\ In(v, "cognito")
  /\ \/ Move(v, "refused")
     \/ "cognito" \in LoginFaults /\ Move(v, "failed")
  /\ UNCHANGED <<cacheVars, tokens, termsVars, user, accepts, path, historyVars>>

\* This path tells QS alone, with the id of QS.
CognitoLoginAccepts(v) ==
  /\ In(v, "cognitoUser") /\ user[v] \in InQs /\ accepts[v]
  /\ \E qs \in Sent(QsId[user[v]]) : Accept(user[v], {}, qs, Configured \/ qs = {})
  /\ IssueTo(user[v])
  /\ Move(v, "welcome")
  /\ UNCHANGED <<cacheVars, user, accepts, path>>

\* Mutant: the terms are not asked for.
CognitoLoginFinds_NoTerms(v) ==
  /\ In(v, "cognitoUser") /\ user[v] \in InQs /\ ~accepts[v]
  /\ IssueTo(user[v])
  /\ Move(v, "welcome")
  /\ UNCHANGED <<cacheVars, termsVars, user, accepts, path, historyVars>>

CognitoLoginFinds(v) ==
  /\ In(v, "cognitoUser") /\ user[v] \in InQs /\ ~accepts[v]
  /\ IF QsId[user[v]] \in qsTerms
       THEN IssueTo(user[v]) /\ Move(v, "welcome")
       ELSE UNCHANGED tokens /\ Move(v, "needsTerms")
  /\ UNCHANGED <<cacheVars, termsVars, user, accepts, path, historyVars>>

\* A user QS does not know, or cannot read, is let in as they are.
CognitoLoginFindsNobody(v) ==
  /\ In(v, "cognitoUser")
  /\ user[v] \notin InQs \/ "read" \in LoginFaults
  /\ path' = [path EXCEPT ![v] = "unread"]
  /\ IssueTo(user[v])
  /\ Move(v, "welcome")
  /\ UNCHANGED <<cacheVars, termsVars, user, accepts, historyVars>>

-----------------------------------------------------------------------------
(* The other endpoints *)

\* Mutant: the acceptance is sent to IC only.
AcceptTerms_IcOnly(v) ==
  /\ In(v, "needsTerms")
  /\ LET id == IF path[v] = "ic" THEN IcId[user[v]] ELSE QsId[user[v]] IN
       \E ic \in Sent(id) : Accept(user[v], ic, {}, ic = {})
  /\ Move(v, "accepted")
  /\ UNCHANGED <<cacheVars, tokens, user, accepts, path>>

\* The id is the one the answer "needs terms" carried: of IC from its path, of
\* QS from the other; it is sent to both.
AcceptTerms(v) ==
  /\ In(v, "needsTerms")
  /\ LET id == IF path[v] = "ic" THEN IcId[user[v]] ELSE QsId[user[v]] IN
       \E ic \in IF Configured THEN Sent(id) ELSE {{}}, qs \in Sent(id) :
         Accept(user[v], ic, qs, (Configured /\ ic = {}) \/ qs = {})
  /\ Move(v, "accepted")
  /\ UNCHANGED <<cacheVars, tokens, user, accepts, path>>

\* A session from IC comes without a refresh token, so that only one of the two
\* ways to a new token is ever open to a session.
Refresh(v) ==
  /\ In(v, "welcome")
  /\ \/ IssueTo(user[v]) /\ UNCHANGED at
     \/ (IF path[v] = "ic" THEN "ic" ELSE "cognito") \in LoginFaults /\ UNCHANGED tokens /\ Move(v, "failed")
  /\ UNCHANGED <<cacheVars, termsVars, user, accepts, path, historyVars>>

\* The code of single sign-on is exchanged for tokens; nobody asks for terms.
SsoCallback(v, u) ==
  /\ In(v, "idle")
  /\ user' = [user EXCEPT ![v] = u]
  /\ \/ Issue("id", SsoClient, Groups[u]) /\ Move(v, "signedOn")
     \/ UNCHANGED tokens /\ Move(v, "refused")
  /\ UNCHANGED <<cacheVars, termsVars, accepts, path, historyVars>>

\* Another conversation begins.
Leave(v) ==
  /\ at[v] \in Ended
  /\ Move(v, "idle")
  /\ user' = [user EXCEPT ![v] = NoUser]
  /\ accepts' = [accepts EXCEPT ![v] = FALSE]
  /\ path' = [path EXCEPT ![v] = "none"]
  /\ UNCHANGED <<cacheVars, tokens, termsVars, historyVars>>

VisitProceeds(v) ==
  \/ IcAnswers(v) \/ IcRefuses(v) \/ IcFails(v) \/ IcLoginAccepts(v)
  \/ CognitoAnswers(v) \/ CognitoFails(v)
  \/ CognitoLoginAccepts(v) \/ CognitoLoginFinds(v) \/ CognitoLoginFindsNobody(v)

VisitorActs(v) ==
  \/ \E u \in User : SsoCallback(v, u) \/ \E accept \in BOOLEAN : Login(v, u, accept)
  \/ AcceptTerms(v) \/ Refresh(v) \/ Leave(v)

SessionNext ==
  \/ CacheNext /\ UNCHANGED loginVars
  \/ \E v \in Visit : VisitorActs(v) \/ VisitProceeds(v)

SessionSpec == SessionInit /\ [][SessionNext]_sessionVars

\* The handlers of both go on.
FairSessions ==
  /\ SessionSpec
  /\ \A r \in Request : WF_sessionVars(Proceed(r) /\ UNCHANGED loginVars)
  /\ \A v \in Visit : WF_sessionVars(VisitProceeds(v))

-----------------------------------------------------------------------------
(* Properties *)

SessionTypeOK ==
  /\ TypeOK
  /\ icTerms \subseteq Ids /\ qsTerms \subseteq QsIds
  /\ at \in [Visit -> {"idle", "ic", "icAccept", "cognito", "cognitoUser"} \cup Ended]
  /\ user \in [Visit -> User \cup {NoUser}]
  /\ accepts \in [Visit -> BOOLEAN] /\ path \in [Visit -> {"none", "ic", "cognito", "unread"}]
  /\ \A v \in Visit : In(v, "needsTerms") => path[v] \in {"ic", "cognito"}
  /\ consented \subseteq User /\ unrecorded \subseteq consented

\* Whoever logs in with a password has accepted the terms, whichever of the two
\* ways lets them in, unless QS does not know them or could not be read, or
\* their acceptance is that of another user with their id.
EntryIsConsented ==
  \A v \in Visit :
    In(v, "welcome") =>
      \/ user[v] \in consented
      \/ path[v] = "unread"
      \/ \E u \in consented \ {user[v]} : {IcId[u], QsId[u]} \cap {IcId[user[v]], QsId[user[v]]} # {}

\* Nobody who has accepted the terms is asked for them again, whichever way
\* their next login goes, unless an update of the acceptance failed, it was made
\* where QS alone is told (or before QS was), or their ids differ.
AskedAgainHasCause ==
  [][\A v \in Visit :
       ~In(v, "needsTerms") /\ In(v, "needsTerms")' =>
         user'[v] \notin consented \ unrecorded \/ IcId[user'[v]] # QsId[user'[v]]]_sessionVars
=============================================================================
