----------------------------- MODULE SurveyPages -----------------------------
(***************************************************************************)
(* The pages of one IRIS survey: the check whether it may go live, its     *)
(* crowds with their honoraria and counts, and a user's favourite.  Every  *)
(* number of an answer is a statement of its own on the replica, while the *)
(* legacy application edits the survey, fields its crowds and invites      *)
(* panelists.  A statement that fails mostly leaves a default behind and   *)
(* the answer goes on.  Favourites are written on the primary.             *)
(*                                                                         *)
(* What the replica shows is modelled, with edits as they reach it; only   *)
(* the favourites, which these pages write, are on both.  Names, brands    *)
(* and prices are left out, and so is the calculation that a check starts  *)
(* (SoftLaunch).                                                           *)
(***************************************************************************)
EXTENDS Naturals, Sequences

CONSTANTS
  Sample,       \* the survey's rows of survey_crowd, each with its crowd
  Panelist,
  Level,        \* of honoraria: A to D
  Reader, Admin,\* users; administrators
  Favoring,     \* requests that set a favourite or list favourites
  SurveyEdits,  \* bounds what others change
  SurveyFaults  \* statements that may fail

VARIABLES
  survey,     \* its row, with the type of its project and whether there are time slots enough
  sample,     \* the rows of survey_crowd, their crowd and their fielding
  stage,      \* user_survey: how far each panelist of a crowd is
  check,      \* the request that checks the survey
  sheet,      \* the request for the crowds
  favorite, copied, \* users whose favourite the survey is, on the primary and on the replica
  leave,      \* users who may read the project
  favoring,   \* requests for favourites
  surveyPast  \* history: edits, and users who lost their leave

surveyVars == <<survey, sample, stage, check, sheet, favorite, copied, leave, favoring, surveyPast>>

\* Bound: statements of one kind fail in an answer.
StatementFails(what) == what \in SurveyFaults /\ \A f \in sheet.failed : f[1] = what

-----------------------------------------------------------------------------
(* Rows as the statements read them *)

NoLevel == 0

SurveyRow == [named : BOOLEAN, status : {1, 5}, kind : {"qual", "quant"}, slots : BOOLEAN]
Shc == {"unfielded", "fielding", "closed"}
SampleRow == [excluded : BOOLEAN, deleted : BOOLEAN, shc : Shc, level : Level \cup {NoLevel}, abroad : BOOLEAN]
Stage == {"none", "available", "eligible", "full", "answered"}

In(c, stages) == {p \in Panelist : stage[c][p] \in stages}

\* status 3
Answers(c) == In(c, {"answered"})

\* status 1
Available(c) == In(c, {"available", "eligible", "full"})

Eligible(c, fullMatch) == In(c, IF fullMatch THEN {"full"} ELSE {"eligible", "full"})

\* fielded_on and closed_on, and in a statement of its own the level.
ShcStatus(c) == sample[c].shc
ShcLevel(c) == sample[c].level

\* buildCrowdBasicJSON: the crowd, and "[DELETED]" before its name.
CrowdShown(c) == IF sample[c].deleted THEN "deleted" ELSE "there"

\* The currency of the crowd's country.
Currency(c) == IF sample[c].abroad THEN "local" ELSE "USD"

\* Every value of a crowd that an answer shows.
Value(what, c) ==
  CASE what = "answers" -> Answers(c)
    [] what = "kind" -> survey.kind
    [] what = "status" -> ShcStatus(c)
    [] what = "level" -> ShcLevel(c)
    [] what = "crowd" -> CrowdShown(c)
    [] what = "available" -> Available(c)
    [] what = "eligible" -> Eligible(c, FALSE)
    [] what = "full" -> Eligible(c, TRUE)
    [] what = "currency" -> Currency(c)

\* What is left behind by a statement that fails; an unknown project is taken
\* for a qualitative one.
Fallback(what) ==
  CASE what \in {"answers", "available", "eligible", "full"} -> {}
    [] what = "kind" -> "qual"
    [] what = "status" -> "unfielded"
    [] what = "level" -> NoLevel
    [] what = "crowd" -> "unknown"
    [] what = "currency" -> "USD"

-----------------------------------------------------------------------------
(* GET /v1/survey/:id/crowds *)

\* The statements of every form, crowd by crowd, in their order.
Flat == <<"answers", "kind">>
Counted == <<"crowd", "available", "eligible", "full">>

\* jsonType hono, minimalJson and, with counts, subscriber.
SharedForm(counted) == Flat \o <<"status", "level", "currency">> \o IF counted THEN Counted ELSE <<"crowd">>

Statements(form) ==
  CASE form = "admin" -> Flat \o <<"status", "level">> \o Counted \o <<"currency">>
    [] form = "subscriber" -> SharedForm(TRUE)
    [] form \in {"hono", "minimalJson"} -> SharedForm(FALSE)
    [] form = "detail" -> Flat \o <<"crowd", "answers", "status", "currency">>

Form == {"admin", "subscriber", "hono", "minimalJson", "detail"}

ListCrowds(form) ==
  /\ sheet.at = "idle"
  /\ sheet' \in {[sheet EXCEPT !.at = "rows", !.form = form]}
                \cup IF StatementFails("crowds") THEN {[sheet EXCEPT !.at = "refused"]} ELSE {}
  /\ UNCHANGED <<survey, sample, stage, check, favorite, copied, leave, favoring, surveyPast>>

\* The crowd the answer has come to, in the order of their names.
AtCrowd(c) ==
  /\ sheet.done[c] < Len(Statements(sheet.form))
  /\ \A d \in Sample \ {c} : sheet.done[d] \in {0, Len(Statements(sheet.form))}

Learns(c, what, value) ==
  [sheet EXCEPT !.done[c] = @ + 1,
                !.row[c] = [w \in DOMAIN @ \cup {what} |-> IF w = what THEN value ELSE @[w]]]

ReadNext(c) ==
  /\ sheet.at = "rows" /\ AtCrowd(c)
  /\ LET what == Statements(sheet.form)[sheet.done[c] + 1]
     IN \/ sheet' = Learns(c, what, Value(what, c))
        \/ /\ StatementFails(what)
           /\ sheet' = [Learns(c, what, Fallback(what)) EXCEPT !.failed = @ \cup {<<what, c>>}]
  /\ UNCHANGED <<survey, sample, stage, check, favorite, copied, leave, favoring, surveyPast>>

\* currentShcHonorariumLevel: none if unfielded.
CurrentLevel(c) == IF sheet.row[c]["status"] = "unfielded" THEN NoLevel ELSE sheet.row[c]["level"]

-----------------------------------------------------------------------------
(* GET /v1/survey/:id/validate *)

\* Of the row: no name, and status 5, which is taken for a template and is also what
\* CloseSurvey writes.
RowProblems == {q \in {"name", "template"} : IF q = "name" THEN ~survey.named ELSE survey.status = 5}

BeginCheck ==
  /\ check.at = "idle"
  /\ check' \in {[check EXCEPT !.at = "crowds", !.problems = RowProblems]}
                \cup IF StatementFails("survey") THEN {[check EXCEPT !.at = "refused"]} ELSE {}
  /\ UNCHANGED <<survey, sample, stage, sheet, favorite, copied, leave, favoring, surveyPast>>

\* The next count; one that fails is zero.
Counts(at, then, problem, holds) ==
  /\ check.at = at
  /\ check' = [check EXCEPT !.at = then, !.moved = @ \ {problem},
                            !.problems = @ \cup IF holds THEN {problem} ELSE {}]

\* No crowd that is not excluded.
CountCrowds ==
  /\ Counts("crowds", "deleted", "crowds", \A c \in Sample : sample[c].excluded)
  /\ UNCHANGED <<survey, sample, stage, sheet, favorite, copied, leave, favoring, surveyPast>>

\* Mutant: of the crowds that are not excluded only.
CountDeleted_NotExcluded ==
  /\ Counts("deleted", "slots", "deleted", \E c \in Sample : sample[c].deleted /\ ~sample[c].excluded)
  /\ UNCHANGED <<survey, sample, stage, sheet, favorite, copied, leave, favoring, surveyPast>>

\* A crowd that is deleted, excluded or not.
CountDeleted ==
  /\ Counts("deleted", "slots", "deleted", \E c \in Sample : sample[c].deleted)
  /\ UNCHANGED <<survey, sample, stage, sheet, favorite, copied, leave, favoring, surveyPast>>

\* Fewer than two free or booked time slots: a warning.
CountSlots ==
  /\ Counts("slots", "answered", "slots", ~survey.slots)
  /\ UNCHANGED <<survey, sample, stage, sheet, favorite, copied, leave, favoring, surveyPast>>

Following == [crowds |-> "deleted", deleted |-> "slots", slots |-> "answered"]

CountFails(what) ==
  /\ check.at = what /\ StatementFails(what)
  /\ check' = [check EXCEPT !.at = Following[what], !.failed = @ \cup {what},
                            !.problems = @ \cup ({what} \ {"deleted"})]
  /\ UNCHANGED <<survey, sample, stage, sheet, favorite, copied, leave, favoring, surveyPast>>

-----------------------------------------------------------------------------
(* PUT /v1/survey/:id/favorite, and the favourites of a list of surveys *)

FavoringGoes(t, at) == [favoring EXCEPT ![t].at = at]

BeginToggle(t, u, wants) ==
  /\ favoring[t].at = "idle"
  /\ favoring' \in {[favoring EXCEPT ![t] = [@ EXCEPT !.at = "leave", !.user = u, !.wants = {wants}]]}
                   \cup IF StatementFails("survey") THEN {FavoringGoes(t, "refused")} ELSE {}
  /\ UNCHANGED <<survey, sample, stage, check, sheet, favorite, copied, leave, surveyPast>>

\* A statement that fails is no leave.
CheckLeave(t) ==
  /\ favoring[t].at = "leave"
  /\ \/ favoring[t].user \in Admin \cup leave /\ favoring' = FavoringGoes(t, "write")
     \/ /\ favoring[t].user \notin Admin
        /\ favoring[t].user \notin leave \/ StatementFails("leave")
        /\ favoring' = FavoringGoes(t, "refused")
  /\ UNCHANGED <<survey, sample, stage, check, sheet, favorite, copied, leave, surveyPast>>

\* INSERT IGNORE or DELETE; others who showed the user's favourite, or are about to,
\* are overtaken.
WriteFavorite(t) ==
  /\ favoring[t].at = "write"
  /\ favorite' = IF TRUE \in favoring[t].wants THEN favorite \cup {favoring[t].user}
                 ELSE favorite \ {favoring[t].user}
  /\ favoring' = [s \in Favoring |->
                    IF s = t THEN [favoring[s] EXCEPT !.at = "reread"]
                    ELSE IF favoring[s].user = favoring[t].user /\ favoring[s].at \in {"reread", "show", "permissions", "answered"}
                    THEN [favoring[s] EXCEPT !.excuses = @ \cup {"overtaken"}]
                    ELSE favoring[s]]
  /\ UNCHANGED <<survey, sample, stage, check, sheet, copied, leave, surveyPast>>

WriteFails(t) ==
  /\ favoring[t].at = "write" /\ StatementFails("write")
  /\ favoring' = FavoringGoes(t, "refused")
  /\ UNCHANGED <<survey, sample, stage, check, sheet, favorite, copied, leave, surveyPast>>

\* The survey is read again; without it the handler panics, and what was written stays.
Reread(t) ==
  /\ favoring[t].at = "reread"
  /\ favoring' \in {FavoringGoes(t, "show")} \cup IF StatementFails("survey") THEN {FavoringGoes(t, "panicked")} ELSE {}
  /\ UNCHANGED <<survey, sample, stage, check, sheet, favorite, copied, leave, surveyPast>>

\* GetSubscriptionProjectSurveys; those who may not read the project see it too.
ListSurveys(t, u) ==
  /\ favoring[t].at = "idle"
  /\ favoring' = [favoring EXCEPT ![t] = [@ EXCEPT !.at = "show", !.user = u]]
  /\ UNCHANGED <<survey, sample, stage, check, sheet, favorite, copied, leave, surveyPast>>

\* It is read from the replica.
IsFavoriteOf(u) == u \in copied

ShowFavorite(t) ==
  LET u == favoring[t].user
      shows(value, excuses) ==
        favoring' = [favoring EXCEPT ![t].at = IF favoring[t].wants = {} THEN "answered" ELSE "permissions",
                                     ![t].shown = value, ![t].excuses = @ \cup excuses]
  IN /\ favoring[t].at = "show"
     /\ \/ shows(IsFavoriteOf(u), IF IsFavoriteOf(u) = (u \in favorite) THEN {} ELSE {"lag"})
        \/ StatementFails("favorite") /\ shows(FALSE, {"failed"})
     /\ UNCHANGED <<survey, sample, stage, check, sheet, favorite, copied, leave, surveyPast>>

\* The permissions of an answer; no row and a failure show none.
ShowLeave(t) ==
  /\ favoring[t].at = "permissions"
  /\ favoring' \in {[favoring EXCEPT ![t] = [@ EXCEPT !.at = "answered", !.may = favoring[t].user \in leave]]}
                   \cup IF StatementFails("leave") THEN {[favoring EXCEPT ![t] = [@ EXCEPT !.at = "answered", !.unknown = TRUE]]}
                        ELSE {}
  /\ UNCHANGED <<survey, sample, stage, check, sheet, favorite, copied, leave, surveyPast>>

ReplicaFollows ==
  /\ copied' = favorite
  /\ UNCHANGED <<survey, sample, stage, check, sheet, favorite, leave, favoring, surveyPast>>

-----------------------------------------------------------------------------
(* The legacy application *)

Edits == surveyPast.edits < SurveyEdits /\ surveyPast' = [surveyPast EXCEPT !.edits = @ + 1]

\* What is wrong with the survey, all at once.
Problems ==
  {q \in {"name", "template", "crowds", "deleted", "slots"} :
     \/ q = "name" /\ ~survey.named
     \/ q = "template" /\ survey.status = 5
     \/ q = "crowds" /\ \A c \in Sample : sample[c].excluded
     \/ q = "deleted" /\ \E c \in Sample : sample[c].deleted
     \/ q = "slots" /\ ~survey.slots}

\* Problems that came or went while the survey is checked.
ProblemsMove ==
  check' = IF check.at = "idle" THEN check
           ELSE [check EXCEPT !.moved = @ \cup {q \in Problems \cup Problems' : ~(q \in Problems /\ q \in Problems')}]

EditSurvey(row) ==
  /\ Edits /\ row # survey
  /\ survey' = row
  /\ UNCHANGED <<sample, stage, favorite, copied, leave, favoring>>
  /\ ProblemsMove
  /\ sheet' = IF row.kind = survey.kind \/ sheet.at = "idle" THEN sheet ELSE [sheet EXCEPT !.kindMoved = TRUE]

EditCrowd(c, out, gone) ==
  /\ Edits
  /\ sample[c].deleted => gone
  /\ sample' = [sample EXCEPT ![c].excluded = out, ![c].deleted = gone]
  /\ sample' # sample
  /\ UNCHANGED <<survey, stage, sheet, favorite, copied, leave, favoring>>
  /\ ProblemsMove

\* A crowd is fielded, gets another level, is closed or fielded again: once fielded
\* it has the date for good.
Field(c, shc, level) ==
  /\ Edits /\ shc # "unfielded"
  /\ sample' = [sample EXCEPT ![c].shc = shc, ![c].level = level]
  /\ sample' # sample
  /\ UNCHANGED <<survey, stage, check, sheet, favorite, copied, leave, favoring>>

Standing == [none |-> 0, answered |-> 0, available |-> 1, eligible |-> 2, full |-> 3]

\* A panelist is invited, found to match or not, answers.
PanelistMoves(c, p, to) ==
  /\ Edits /\ to # stage[c][p]
  /\ stage' = [stage EXCEPT ![c][p] = to]
  /\ sheet' = IF Standing[to] > Standing[stage[c][p]] /\ sheet.at # "idle"
              THEN [sheet EXCEPT !.joined = @ \cup {<<c, p>>}] ELSE sheet
  /\ UNCHANGED <<survey, sample, check, favorite, copied, leave, favoring>>

Revoke(u) ==
  /\ surveyPast.edits < SurveyEdits /\ u \in leave
  /\ leave' = leave \ {u}
  /\ surveyPast' = [edits |-> surveyPast.edits + 1, revoked |-> surveyPast.revoked \cup {u}]
  /\ UNCHANGED <<survey, sample, stage, check, sheet, favorite, copied, favoring>>

-----------------------------------------------------------------------------
SurveyInit ==
  /\ survey \in SurveyRow
  /\ sample \in [Sample -> SampleRow]
  /\ stage \in [Sample -> [Panelist -> Stage]]
  /\ check = [at |-> "idle", problems |-> {}, moved |-> {}, failed |-> {}]
  /\ sheet = [at |-> "idle", form |-> "admin", done |-> [c \in Sample |-> 0], row |-> [c \in Sample |-> <<>>],
              failed |-> {}, joined |-> {}, kindMoved |-> FALSE]
  /\ favorite \in SUBSET Reader /\ copied = favorite
  /\ leave \in SUBSET Reader
  /\ favoring = [t \in Favoring |-> [at |-> "idle", user |-> "none", wants |-> {}, shown |-> FALSE, may |-> FALSE,
                                unknown |-> FALSE, excuses |-> {}]]
  /\ surveyPast = [edits |-> 0, revoked |-> favorite \ (Admin \cup leave)]

SurveyNext ==
  \/ \E f \in Form : ListCrowds(f)
  \/ \E c \in Sample : ReadNext(c)
  \/ BeginCheck \/ CountCrowds \/ CountDeleted \/ CountSlots
  \/ \E q \in {"crowds", "deleted", "slots"} : CountFails(q)
  \/ \E t \in Favoring : \/ \E u \in Reader : ListSurveys(t, u) \/ \E w \in BOOLEAN : BeginToggle(t, u, w)
                         \/ CheckLeave(t) \/ WriteFavorite(t) \/ WriteFails(t) \/ Reread(t) \/ ShowFavorite(t) \/ ShowLeave(t)
  \/ ReplicaFollows
  \/ \E row \in SurveyRow : EditSurvey(row)
  \/ \E c \in Sample : \/ \E x, d \in BOOLEAN : EditCrowd(c, x, d)
                       \/ \E s \in Shc, l \in Level \cup {NoLevel} : Field(c, s, l)
                       \/ \E p \in Panelist, to \in Stage : PanelistMoves(c, p, to)
  \/ \E u \in Reader : Revoke(u)

SurveySpec == SurveyInit /\ [][SurveyNext]_surveyVars

-----------------------------------------------------------------------------
(* Properties *)

Knows(c, what) == what \in DOMAIN sheet.row[c]
Failed(c, what) == <<what, c>> \in sheet.failed

\* The crowds of an answer are shown with honoraria of one kind, although each
\* reads the project's type anew, unless the type was changed meanwhile or could
\* not be read for one of them.
HonorariaAgree ==
  \A c, d \in Sample :
    Knows(c, "kind") /\ Knows(d, "kind") /\ sheet.row[c]["kind"] # sheet.row[d]["kind"] =>
      sheet.kindMoved \/ Failed(c, "kind") \/ Failed(d, "kind")

\* The three counts of a crowd, read one after the other, are of nested groups,
\* but for panelists who came up in between or a count that failed.
Newcomers(c) == {p \in Panelist : <<c, p>> \in sheet.joined}
CountsNest ==
  \A c \in Sample :
    /\ Knows(c, "eligible") /\ ~Failed(c, "available") =>
         sheet.row[c]["eligible"] \subseteq sheet.row[c]["available"] \cup Newcomers(c)
    /\ Knows(c, "full") /\ ~Failed(c, "eligible") =>
         sheet.row[c]["full"] \subseteq sheet.row[c]["eligible"] \cup Newcomers(c)

\* A level is shown of a crowd that was fielded only, whatever happens between the
\* statement for the status and that for the level.
LevelNeedsFielding ==
  \A c \in Sample : Knows(c, "level") /\ CurrentLevel(c) # NoLevel => sample[c].shc # "unfielded"

\* An amount is shown in another currency than the crowd's only as USD, and only
\* if a statement failed.
CurrencyIsOwn ==
  \A c \in Sample :
    Knows(c, "currency") /\ sheet.row[c]["currency"] # Currency(c) =>
      Failed(c, "currency") /\ sheet.row[c]["currency"] = "USD"

\* A check that says "ready" overlooks only what went wrong after it had looked,
\* or deleted crowds that it could not count; one that does not, names only what
\* has been put right since, or what it could not count.
CheckIsTrue ==
  check.at = "answered" =>
    /\ Problems \ check.problems \subseteq check.moved \cup (check.failed \cap {"deleted"})
    /\ check.problems \ Problems \subseteq check.moved \cup (check.failed \ {"deleted"})

\* An answer shows the favourite as it is, after a change as it was asked for,
\* unless the replica lags, another request wrote since or the statement failed.
FavoriteIsShown ==
  \A t \in Favoring :
    favoring[t].at \in {"permissions", "answered"} /\ favoring[t].excuses = {} =>
      /\ favoring[t].shown = (favoring[t].user \in favorite)
      /\ favoring[t].wants \subseteq {favoring[t].shown}

\* A favourite is of somebody who may read the project, or lost that leave since.
FavoriteHasLeave == favorite \subseteq Admin \cup leave \cup surveyPast.revoked

\* Nobody but an administrator is shown to lack the leave that was just asked for,
\* unless it was lost in between or could not be read.
LeaveIsShown ==
  \A t \in Favoring :
    favoring[t].at = "answered" /\ favoring[t].wants # {} /\ ~favoring[t].may =>
      favoring[t].user \in Admin \cup surveyPast.revoked \/ favoring[t].unknown

\* The pages of a survey agree with it and with themselves, but for the causes named.
SurveyPagesAgree ==
  /\ HonorariaAgree /\ CountsNest /\ LevelNeedsFielding /\ CurrencyIsOwn
  /\ CheckIsTrue /\ FavoriteIsShown /\ FavoriteHasLeave /\ LeaveIsShown
=============================================================================
