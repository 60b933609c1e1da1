# Verification of unified-qual-app-backend

This directory holds TLA+ models of the parts of the backend whose correctness
depends on order, concurrency or failure, TLC configurations that check them on
small instances, and TLAPS proofs of the properties that matter most.

The backend is one Go server in front of two databases: QS (qualitative
interviews by project managers, the `mra` handlers) and IRIS (surveys,
subscriptions and "light" interviews, the `ls` handlers). IRIS has a primary and
a read replica, which most of its reads use. Handlers run in a goroutine per
request, `jobs.Scheduler` runs cron jobs, and both call external services
(a payment Lambda, Step Functions, Google Calendar and Sheets, Cognito, a
conference service). Almost every operation is a sequence of single SQL
statements; only the payment flow and a few inserts run in a transaction. What
can go wrong is therefore mostly *between* statements, and that is what the
models look at: between the writes of a handler, and between the reads that one
page or one visit of a client is put together from.

## Inventory

| Part | State | Operations | What is hard | What makes it correct | Module |
|---|---|---|---|---|---|
| QS interview payments (`handler/mra/payment.go`, `repository/qs/timeslot_repo.go`, `integration/lambda.go`) | `time_slot_payment_history`, honorarium amounts, money sent by the Credit-Rewards Lambda | insert PENDING rows; select them `FOR UPDATE`; COMPLETED / CANCELED; Lambda; commit; on failure rollback and FAILED | concurrent requests for a slot, an external effect inside a transaction, lost answers, cancelled contexts, crashes | a slot is settled once; money is sent twice only after a lost outcome; final rows stay final; PENDING rows are resolved | `HonorariumPayment`, `PaymentLedger` |
| Interview invalidation (`handler/mra/interview.go`) | `is_invalidated_interview`, project status | check payment, update, reopen project | check and update are not joined | paid and invalidated only if they crossed; a completed project goes on | `HonorariumPayment`, `InterviewSlots` |
| IssueQualHonorarium (`jobs/honorarium.go`, `repository/iris/jobs_repo.go`) | `credit`, `credit_grant`, `time_slot.honorarium_paid` | list payable slots on the replica; per row three statements | overlapping runs, replica lag, partial failure | paid implies credited; credited twice only for a cause; nobody starves | `CreditGrantJob` |
| Connection pools (`database/database.go`, `iris/survey_repo.go`) | connections, open queries | connect at the start; a query for each row of an open query | all connections held by requests that want another; errors inside the loops | stuck only with fewer connections than are held; otherwise everybody is answered | `ConnectionPool` |
| QS interview scheduling (`shared/scheduler.go`, `shared/interview.go`, `mra/interview.go`, `shared/booking.go`) and QS project status and size (`mra/project.go`, `service/project.go`) | `time_slot`, `moderator_time_slots`, `project` | schedule, cancel, reschedule, update, delete; change of the size; reset of moderators | unlocked reads before unconditional updates, ignored errors | an action leaves what was cancelled; the size covers the interviews; a completed project is full; a finished interview keeps its moderators | `InterviewSlots` |
| Staff of a QS project (`mra/project.go`, `mra/moderator.go`, `qs/project_repo.go`) | `projects_users`, `moderator_time_range` | reset, unassign, hours | a difference worked out before the transaction | a reset leaves its list; no hours of somebody who left | `ProjectStaff` |
| Conference links (`mra/conference.go`, `qs/conference_repo.go`) | `conference_invitation`, `project_meeting_translation` | add, update | languages read outside the transaction | one text per language | `ConferenceLinks` |
| IRIS observers, hashes and pins (`ls/timeslot.go`, `ls/moderator.go`, `iris/survey_repo.go`) | `observer`, `conference_invitation`, `time_slot_event`, hash, pin, Google Calendar | add and remove observers, mark a no-show | replica lag after a write, external calls, dropped errors | rows and calendar in step; one hash, one pin | `IrisSlot` |
| Soft launch (`ls/survey.go`, `iris/survey_repo.go`) | shares per crowd, total | check of a survey | guard read from the replica, statement per crowd | the total is the sum of the shares | `SoftLaunch` |
| Pages of a survey (`ls/survey.go`, `ls/subscription.go`, `iris/survey_repo.go`) | `survey`, `survey_crowd`, `user_survey`, favourites | check, crowds with counts and honoraria, favourite | a statement per number, defaults after errors, writes on the primary shown from the replica | the numbers of a page belong together; a check is true; a favourite is shown as it is | `SurveyPages` |
| Proposals (`ls/subscription.go`, `dto/payment.go`, `iris/survey_repo.go`) | `product`, `difficulty_assessment`, `project_fee`, the saved inquiry | preview, page | many statements, errors only logged, tables edited since | each crowd is priced once; page and preview agree | `InquiryPages` |
| Closing of surveys (`jobs/surveys.go`, `ls/survey.go`) | `survey.status` | job, by hand | writes by a stale listed status, several processes | closed in the end | `SurveyClosing` |
| Calendar watch (`jobs/calendar_watch.go`, `integration/calendar.go`) | `calendar_push_watch`, watches at Google | register, withdraw, store | days of the month, replica, failures | never unwatched but after a failed day | `CalendarWatch` |
| Reminders (`jobs/reminders.go`) | none | every minute, window of four | no memory, late clocks, several processes | a reminder unless the runs failed | `Reminders` |
| Meetings and recordings (`shared/conference.go`, `qs/conference_repo.go`) | `conference_invitation`, `interview_media` | create, callback | dropped errors, crossing callbacks | the same recording in both databases | `Meetings` |
| Key cache, claims, roles (`middleware/auth.go`, `roles.go`, `rbac.go`) | key map | validate, refresh keys | fetch outside the lock | a published key is refused only for a cause, and not for ever | `JwksCache` |
| Login (`service/auth.go`, `integration/auth_proxy.go`) | terms in InCrowdAPI and in QS, tokens | login, refresh, terms, single sign-on | two paths with different ids, failures | nobody enters without terms; nobody is asked again | `Sessions` |
| Moderator availability (`mra/moderator.go`, `shared/moderator.go`, `qs/user_repo.go`) | ranges, imported ranges, buffer | add with merge, update, delete, buffer change, removal of nested ranges | multi-statement merge with no transaction, comparisons at the buffer's edge | ranges do not overlap, cover what was added, keep the buffer from interviews | `ModeratorAvailability`, `AvailabilityRules`, `ModeratorCover` |
| Availability import (`service/moderator_import.go`) | import status | start, background run, finish, unlink | goroutine after the answer, crash in between | an import ends | `ModeratorAvailability` |
| Calendar of a moderator (`mra/moderator.go:168-291`) | read only | list manual rows split around imported ones | a loop over shared maps, four queries with their own comparisons | nothing invented, nothing of both kinds | `AvailabilityListing` |
| Times offered (`mra/moderator.go:476-861`, `mra/project.go:655-878`) | read only, of `moderator_availability`, hours and slots | offers to a respondent, two pages about them | zones and midnights, a quota compared with counts that age | offers, pages and quota agree | `SlotOffers` |
| Lists by pages (`shared/*.go`, repositories' `List`) | read only | LIMIT and OFFSET, count | rows come and go between pages, joins, two databases | a row that stays is shown once | `PagedLists` |
| Tabs of interviews (`mra/interview.go`, `qs/interviews_repo.go`, `qs/timeslot_repo.go`) | read only | three tabs, payment filters, a moderator's own list, calendars | conditions of their own, each at its own moment | every interview on one list | `InterviewTabs` |
| QS projects, lists, exports (`mra/project.go`, `qs/project_repo.go`) | `project`, saved selection, S3 files | create, edit, list, export | three queries per file, a file name that others share, a selection saved after the read | managers are given what is theirs | `ProjectCatalogue` |
| Honorarium sync (`mra/payment.go`) | honorarium in QS and in IRIS | update, goroutine with Step Function | context of a finished request | — | not modelled |
| Media, mail, providers, single-row administration | user and survey tables | single statements, thin HTTP clients | — | — | not modelled |
| DTOs, formatting, wiring | none | — | — | — | not modelled |

`PROJECT.json` lists every component with its status, and every hazard with its
line. The rest of this file follows the modules.

## QS interview payments: `HonorariumPayment`

One action per step of the code, in the order of `AddTimeSlotPaymentsMRA` and
`processPendingPaymentsForTimeslotIdsMRA` (mra/payment.go):

| Code | Action |
|---|---|
| `GetPaymentInfoMRA`, building of the records | `ReadPaymentInfo` |
| `AddQSTimeSlotPaymentsMRA`, a statement per row; its error | `InsertPending`, `InsertFails` |
| `BeginTx`, `GetPendingPaymentsMRA` (`NOT EXISTS` a COMPLETED row, `FOR UPDATE`), the two updates | `SelectPending`, `NothingPending`, `SelectFails` |
| `lambdaClient.Invoke` and the test of its answer | `LambdaCredits`, `LambdaFunctionError`, `LambdaRefuses`, `LambdaReplyLost`, `LateCredit` |
| `tx.Commit` | `Commit`, `CommitFails` |
| `tx.Rollback`, then `UpdateFailedPaymentHistoryMRA` outside the transaction | `Rollback`, `MarkFailed`, `MarkFailedFails` |
| process killed | `Crash` |
| custom honorarium | `SetHonorarium` |
| `InvalidateInterviewMRA`: `GetByID`, `HasCompletedPaymentMRA`, `InvalidateInterviewMRA`, project update | `LoadTimeSlot`, `CheckPayment`, `Invalidate`, `ResumeProject`, `InvalidationFails` |

`history` is what is committed. The two updates inside the transaction show when
it commits (`Committed`); until then other requests meet only its locks. A
request's row for a slot is the pair (request, slot), since a request inserts at
most one row per slot. `credited` is the money the Lambda has sent; it is the
only state outside the database.

What the model takes from the code's surroundings, and would be wrong without:

* InnoDB under its default isolation level (nothing sets another): the
  next-key locks of `SELECT ... FOR UPDATE` also keep other requests from
  inserting rows for the same slots, and a session that dies is rolled back.
  Locks are held per slot; a lock wait that times out is `SelectFails` or
  `InsertFails`.
* `GetPaymentInfoMRA` yields a row per slot (it groups by slot; a slot has one
  custom honorarium).
* The rows of `POST /time-slot-payments-external` carry no `time_slot_id`, so
  the flow's queries never meet them.
* The Lambda is external: it may credit some, all or none of the slots it is
  given, answer 200 in spite of a failure, answer late or never, and go on
  after the request has given up (`LateCredit`). Invocations that the SDK
  repeats on its own are not modelled.

### The abstract ledger: `PaymentLedger`

Two actions over `settled`, `credited` and `adrift`: money is sent only for
slots that are not settled, unless by a request that is adrift (it does not know
the outcome of its call); slots become settled only once. `HonorariumPayment`
implements it with *settled* = the slots with a COMPLETED row, *adrift* = `lost`
(`ImplementsLedger`). It deliberately does not promise that what is settled was
credited: the code does not ensure that (see the findings).

### Runs

| Run | Instance | Shows |
|---|---|---|
| `payment_safety` | 2 requests, 2 slots, 2 amounts, all faults | `AtMostOneCompleted`, `CreditedOnceUnlessLost`, `FinalStatusIsKept`, `ImplementsLedger` |
| `payment_live` | 2 requests, 2 slots, 1 invalidation, the faults a running server meets | `PendingIsResolved` |
| `payment_credited` | 1 request, 1 slot, the fault in question | the finding below |

Two requests over two slots give every overlap of slot sets (equal, nested,
disjoint, crossing) and both orders of their locks; on a slot that one request
settles the other's row is the one that is cancelled or failed. The proofs cover
any number of both. Symmetry is used in the safety run only. Nothing is unbounded: every request, invalidation
and slot is used up.

Fairness (`FairSpec`): a handler that has started goes on (the server schedules
its goroutine; its waits for locks end, since lock holders go on too). Nothing
forces a client to call or a fault to happen. `PendingIsResolved` is checked
without `crash`, `cancel`, `tx` and `insert`: each of them does leave PENDING
rows behind (see the divergences without a run). `functionError`, which the
server takes for a credit and so handles in the same steps, is left to the
safety run.

## The IRIS database: `CreditGrantJob`, `ConnectionPool`

The job IssueQualHonorarium:

| Code | Action |
|---|---|
| `GetPayableTimeSlots` on the replica, and its error | `Start`, `StartFails` |
| the loop, the eligibility test | `TakeRow`, `Finish` |
| `GrantCredit`: insert `credit`, insert `credit_grant` | `InsertCredit`, `InsertCreditGrant` |
| `MarkHonorariumPaid` | `MarkHonorariumPaid` |
| an error in a row: logged, next row | `RowFails` |
| no graceful end of the server | `Crash` |
| `MarkNoShow` (`stop_payment`, status) | `MarkNoShow` |
| replication, the passing of a day | `Replicate`, `BecomesDue` |

The replica is seen slot by slot: `replica` holds the slots whose paid or
stopped state has reached it. `Overlap` and `Lag` switch the two disturbances
that the code does not exclude; `Copies` gives the number of rows the query's
joins return for a slot.

Nothing in the code keeps a slot from being credited twice, so the property
names what it takes: `again` holds the slots that a run listed although they
were paid (the replica had not followed), or while another run had them in hand,
or twice (duplicate rows), and those that a run credited and then did not mark.
`CreditedTwiceHasCause` says that these are all: one run, undisturbed, credits a
slot once. `failed` does the same for `PaidByNextRun`.

`ConnectionPool` is the read-only pool (`database.go`) under the two requests that
put a query for each row of a query they have not finished reading: question
types with their logic types (two levels), and the crowds of an inquiry with
attributes and choices (three).

| Code | Action |
|---|---|
| `ConnectDatabases`, `openDB`; a failure is logged and the pool stays nil | `PoolInit` (`conns = {}`) |
| the handler without a repository | `Begin` (answers at once) |
| a query: waits for a connection, for ever | `NextRow`, `Connect` |
| `rows.Next` false, `rows.Close` | `EndRows`, `Close` |
| an error of an inner query: an empty list; of an outer one: what there is | `QueryFails`, `LoseConnection` |
| the client goes away, its context ends | `GiveUp` |

`StuckHasCause`: the pool is stuck only if it has no more connections than the
requests that wait hold for their outer queries. `EveryoneIsAnswered`: with one
more, every request is answered, and in full unless a connection was lost.

| Run | Instance | Shows |
|---|---|---|
| `job` | `MCIrisDatabase`: 2 overlapping runs, 2 slots (one ineligible), lag, all faults; or 2 requests of either kind, pools of 0, 2, 4 and 5 connections, a row to each query | `PaidNamesItsCredit`, `CreditedTwiceHasCause`, `PaidByNextRun`, `StuckHasCause`, `EveryoneIsAnswered` |

A behaviour of the run is one of the job or one of the pool, which share no
state. Two runs are what it takes to overlap; a slot that fails beside one that
does not, what it takes to starve. Several rows per slot are left to the proof,
which covers any `Copies`. Two requests three levels deep hold four connections
while they wait: 4 is the last pool that gets stuck, 5 the first that does not; a
pool of 2 gets stuck by two requests of the shallow kind; 0 is a server without
its database. More rows repeat the same steps. Fairness: the scheduler starts
each run of the model at its tick and a run goes on; loops over rows go on, and a
free connection goes to somebody who waits (`PoolFairness`; `database/sql` hands
them out in order). Statements of one request that wait for the pool are never
timed out by the server, which sets no limits. `MarkNoShow` also updates the QS
slot (another database, by the same id); that part is not in the module.

## Moderator availability: `AvailabilityRules`, `ModeratorAvailability`

One moderator of one client. `rows` holds both tables (`moderator_availability`
is "manual", `imported_moderator_availability` "imported"), `calendar` the status
of the external calendar, `buffer` the minutes kept free around interviews. A
call is a handler call, its local variables are `arg`, `seen`, `todo`, `plan` and
`buf`, and every SQL statement is a step of its own.

| Code | Definitions |
|---|---|
| the SQL comparisons and the merge of the sheet's slots | `AvailabilityRules`: `Conflicts`, `Overlaps`, `OverlapsInside`, `Nested`, `MergeOverlappingSlots` |
| `PostModeratorAvailabilityMRA` | `PostBegins` (checks the calendar), `PostReadsBuffer`, `PostChecksConflicts`, `PostReadsOverlapping`, `PostMerges` per row (`Merged`), `PostCreates`, `PostCreateRefused` |
| `PostModeratorAvailability`, `DeleteModeratorAvailability` (`/v1`) | the same names |
| `UpdateModeratorAvailabilityMRA` | `UpdateFinds`, `UpdateReadsBuffer`, `UpdateChecksConflicts`, `UpdateWrites` |
| `DeleteModeratorAvailabilityMRA` | `DeleteFinds`, `DeleteChecksCalendar`, `DeleteReadsImported`, `DeleteCopies` per row, `DeleteRow` |
| `UpdateModeratorMRA` and `processAvailabilityBufferAdjustmentMRA` | `BufferSets`, `BufferLists`, `BufferTakes`, `BufferTableDone`, the two passes `BufferReadsForStart` and `BufferReadsForEnd` with `BufferErases`, `BufferSetsStart`, `BufferSetsEnd`; then `BufferCleansUp`, `BufferRemovesNested` |
| `StartModeratorImportMRA`, `RunModeratorImport` | `ImportBegins`, `ImportSetsStatus`, `ImportClears`; `ImportFetches`, `ImportFetchFails`, `ImportInserts`, `ImportCompletes`, `ImportTimesOut` |
| `UnlinkImportedModeratorMRA` | `UnlinkBegins`, `UnlinkDeletesRows`, `UnlinkDeletesStatus` |
| an error of any other statement, the process ending | `CallFails`, `Crash` |

What the model takes from the surroundings:

* `ParseTime`: DB_PARAMS may or may not have `parseTime=true` (the default of
  `config.go`). With it the driver hands a DATETIME scanned into a string over
  in RFC 3339, which the merge cannot parse and MySQL does not take back; without
  it the handlers that scan into `time.Time`, the change of the buffer among
  them, fail. No value makes all of them work, so each run fixes the one its
  handlers need; what the default does is among the divergences.
* MySQL in its strict mode, the default, refuses Go's zero time and a `Z`.
* The interviews are fixed and in the future; rows of other clients are left
  out (`OverlappingAvailabilitiesMRA` would find them too).
* Times are quarters of an hour. The default buffer and the steps of the
  imported sheet are quarters; only `Hour` (the 60 minutes of the buffer change)
  and `DefaultBuffer` are numbers of the code.
* The sheet is its set of green cells; the HTTP call and the colours are
  external.

`ModeratorCover` is the abstract specification: the units of time offered.
Posting a range adds all of it at some step and takes nothing back; only a
deletion takes time back, once, within the range deleted. `OffersAreKept` says
that the module implements it, with *cover* = the cells of the manual rows
together with what posts that are merging are going to create: the rows deleted
on the way must at each step lie in what is to come.

| Run | Instance | Shows |
|---|---|---|
| `avail_posts` | 2 posts or deletions one after the other, every three rows that do not touch on 0..8, or two with an imported row around, across or within one; an interview with a buffer of half an hour, `ParseTime` off | `RowsApart`, `RowsAvoidInterviews`, `OffersAreKept`, `ImportedIsCopied` |
| `avail_import` | 2 overlapping calls of any kind, all faults, `ParseTime` on | `ImportEnds` |
| `pages`, the part "buffer" | 2 changes of the buffer, 2 interviews, every two rows (the second of either table) that keep the first buffer, buffers of 0 to 60 minutes | `RowsAvoidInterviews` |

Three rows let a new range hold, meet, overlap or lie in rows on both sides with
one between, in every order in which the query may return them; two calls give
a second post over merged rows. The bounds of the buffer run leave room on both
sides of and between the interviews, more and less than an hour. `RowsApart` and
`OffersAreKept` are checked of calls one after the other: two posts that overlap
in time do leave rows that overlap, as nothing in the code prevents it, and so
do copies of imported rows that meet more than the row
deleted, which the run therefore leaves out. Creates and updates write any range
and imports check nothing, so the runs for `RowsAvoidInterviews` leave them out.
Buffers above an hour, which the code neither refuses nor handles (rows further
than the hour from an interview stay within such a buffer), are left out too.

Fairness (`FairSpec`): a handler or goroutine that has started goes on. After a
time-out, a crash or a failed statement the status does stay In Progress;
`ImportEnds` names these ways out (`Cut`) and excludes any other.

## What is shown of availability: `AvailabilityListing`, `SlotOffers`, `PagedLists`

Three readers that share no state; `MCCalendarPages` runs one at a time.

`AvailabilityListing` is `getAllModeratorAvailabilityWithImported`: four queries
(`NonOverlappingManual`, `OverlappingManual`, ...), then the loop, of which a state
(`SplitAround`) has the maps of the rows by their ids and the entries that refer
to them, since a later pass that changes a map changes the entries too
(`SplitInTwo`, `CutEnd`, `CutStart`). `CalendarIsSound` has five parts: nothing is
invented, no time is listed as of both kinds, an imported row within a manual one
is listed, what is lost comes after the last imported row in a manual one (nothing
of a row that has none in it), and a number identifies one range; the second and
the fourth of manual rows that are apart.

`SlotOffers`: `Offers` are the starts of `GetModeratorsAvailabilityMRA`, `Clock`
and `WithinHours` its comparison in the moderator's zone, `Verdict` and
`AvModCount` the project manager's two pages, `Ask` the request with its ways out
(`IsOverquota`, `Barred`, `PendingSlots`, `TokenExpired`). `Book`, `Recorded` and
`Cancelled` are the external scheduler and the interviewing application.
`OffersHoldUp` joins: offers keep the hours of their day and carry the right
flag; the pages say what respondents see; the count bounds what can be booked;
the sample is not exceeded unless an offer was overtaken, or made while an
interview just over was not yet recorded (`stale`), or one whose interview no
longer counts changes it (`Uncounted`); no late change without an invalidation.

`PagedLists`: seven lists, each with its order, page size, joins and databases; a
client reads pages until it has the total it was told. `PagesHaveCause`: a row
that stays untouched is missed, or shown twice, only if a row before it went or
came, keys are tied, a join multiplies rows, or one of the other causes named.

| Run | Instance | Shows |
|---|---|---|
| `calendar` | every two manual and three separate imported rows on 0..5; every table of up to three rows of two moderators with an imported row and hours in two zones, looked at from 0 to 4; two respondents with up to three interviews over two rows, the clock up to 4; three rows in lists by pages of 1 and 2 | `CalendarIsSound`, `OffersHoldUp`, `PagesHaveCause` |

Two manual rows with three imported ones let a row be cut at both ends and split
between, with another row beside it. An interview takes two steps and the day has
six, so that ranges cross midnight in either zone. Two respondents are what it
takes to overtake an offer, three interviews to change one after an invalidation,
two rows to ask for a later time while the first interview is over and
unrecorded. Items, respondents and interviews are symmetric; all properties are
invariants. Nobody need ask or read, so the system may stop.

## Login and the key cache: `JwksCache`, `Sessions`

`JwksCache` is the middleware. The cached map is `keys`; a request that does not
find its key fetches the pool's key set without the lock (`FetchKeys`), replaces
the whole map (`StoreKeys`) and looks once more (`LookUpAgain`). The pool is
external: it publishes a key, signs with it, withdraws older ones.

| Code | Action |
|---|---|
| `NewJWTAuth` | `Init` |
| `Middleware`, first `getKey` | `Receive` |
| `refreshKeys`: the request, the store under the lock, its errors | `FetchKeys`, `StoreKeys`, `FetchFails` |
| second `getKey` of `validateToken` | `LookUpAgain` |
| claims, groups, roles of the route | `ClaimsAccepted`, `MapCognitoGroupsToRoles`, `Admit` |

`Sessions` extends it with conversations: a login goes to InCrowdAPI ("IC") and,
if that cannot be used, to Cognito.

| Code | Action |
|---|---|
| `AuthLogin`, `AuthService.Login` | `Login`, `IcRefuses`, `IcFails`, `CognitoFails` |
| `handleICLoginSuccess` | `IcAnswers`, `IcLoginAccepts` |
| `cognitoAdminAuth`, `handleCognitoLoginSuccess` | `CognitoAnswers`, `CognitoLoginAccepts`, `CognitoLoginFinds`, `CognitoLoginFindsNobody` |
| `AuthAcceptTerms` | `AcceptTerms` |
| `Refresh`, `cognitoExchangeCode`, `AuthLogout` | `Refresh`, `SsoCallback`, `Leave` |

Each of the two systems has a set of ids that accepted (`icTerms`, `qsTerms`);
the code writes the id of the path it took to both. The history `consented` and
`unrecorded` are the truth about users that these ids stand for.

Run `sessions`: two requests, two keys, one conversation of one user, IC and
Cognito both failing at will. Two requests are what it takes to store answers in
the wrong order, two keys what it takes to rotate; a second conversation shares
only the terms, and the proofs cover any number. Fairness (`FairSessions`):
handlers go on, since a fetch ends within its ten seconds; clients and the pool
need not. `FalseRejectionsStop` needs it only so that no request is held for
ever with an old answer in hand.

## QS interviews and their project: `InterviewSlots`

One project with its time slots (`slot`, `mods`), status and sample size. Each
handler that writes one of these is an action, split where the code reads before
it writes or writes twice.

| Code | Action |
|---|---|
| `CreateTimeslot`, `ScheduleInterview`, then `AssignModerator` | `CreateTimeslot`, `ScheduleInterview`, `AssignModerator`, `AssignFails` |
| `CancelInterview`, `RescheduleInterview`, `UpdateTimeslot` and bookings | the same names |
| `DeleteTimeslot`: referring rows, then the row | `DeleteTimeslot`, `DeleteRow`, `DeleteRowFails` |
| `CancelRescheduleAction`: read, then update | `CancelRescheduleAction`, `Act` |
| `InvalidateInterviewMRA` | `LoadTimeSlot`, `CheckPaid`, `Invalidate`, `ResumeProject`, `ResumeFails` |
| `UpdateSampleSizeMRA`: counts and choice of the status, then update | `UpdateSampleSize` (`StatusFor`), `Resize` |
| `UpdateProject`, `DeleteProject`, `ResetProjectModerators` | the same names |
| time, the payment flow, the interviewing application | `InterviewEnds`, `PaymentCommits`, the status of `UpdateTimeslot` |

The handlers promise what they check, as far as nobody comes between check and
write. `stale` notes the calls that somebody came between; the properties then
say: of a call that is not stale, `SizeCoversInterviews` and `ActionedIsKept`
hold. `PaidInvalidationHasCause` is exact: `crossed` are the slots whose payment
commits when an invalidation has passed its check. `CompletedIsFull` relates a
project's status to its interviews over the changes of both: an invalidation
has to bring a completed project back.

Run `slots`: two calls, two slots of which requests name one, one moderator,
sizes 1 and 2. The other slot is pending or finished to begin with, so that
counts are 0, 1 or 2 on either side of a size. One action (`cancel`) stands for
the six, which differ in the status they set. Calls are symmetric. The system
may stop (no call need come), so deadlock is not checked.

## Project pages: `ProjectStaff`, `ConferenceLinks`, `IrisSlot`

Three parts of a project's pages that share no state; `MCProjectPages` runs one
of them at a time, each with three concurrent requests, or changes of a
moderator's buffer (above).

`ProjectStaff`: `ReadStaff` and `ResetStaff` are `ResetProjectModeratorsMRA` of
handler and repository; the difference is worked out from what was read
(`ToRemove`, `ToAdd`). `StaffHolds` says that a reset nobody overtook leaves its
list, and that hours without a member were written for somebody who was none
(`CheckDefining`, `UpsertHours`).

`ConferenceLinks`: an add inserts a text for every known language, an update
rewords those that were there when it asked (`ReadLanguages`) and inserts the
others. `SecondTextHasCause`. A listing may name a language twice or one the code
has no id for.

`IrisSlot`: `db` is the primary, `replica` what `ro()` reads, `calendar` Google's
events. The actions follow `UpdateTimeslotObservers` statement by statement
(`FindObserver`, `FindEvents`, `Unbook`, `Unrecord`, `DeleteObserver`,
`InsertObserver`, `FindInserted`, `AskInvited`, `Invite`, `Book`, `RecordEvent`)
and `MarkNoShow` (`SetNoShow`, `AskHash`, `SetHash`, `AskPin`, `AddPin`); `Passes`
is an error that is logged and passed over. `causes` notes lag, overlap, failure
and an observer added twice; `SlotAtOddsHasCause` says that without these the
rows, the hash, the pin and the calendar are in step after every request.

Run `pages`: three requests (an add, a removal and a second of either cross),
two moderators, three languages of which one is unknown; `StaffHolds`,
`SecondTextHasCause`, `SlotAtOddsHasCause`, `RowsAvoidInterviews`. Requests and
moderators are symmetric (`Alike`); all properties are invariants. The schema is
not in the repository: unique keys may exist or not, and the modules allow both
outcomes of an insert that would meet one.

## Clocks and callbacks: `SoftLaunch`, `SurveyClosing`, `CalendarWatch`, `Reminders`, `Meetings`

Five parts without shared state; `MCScheduled` runs one at a time.

| Module | Code | Property |
|---|---|---|
| `SoftLaunch` | `CalculateSLCompletions`: survey and crowds read from the replica, a share written for each crowd, then the total, which is the guard of later calls | `TotalIsSumOfShares`: unless two calculations ran at once or the replica hid the total |
| `SurveyClosing` | `closeSurveyJob` and `processSurveyClose` in several processes, `CloseSurvey` by hand, edits from outside | `OverIsClosed` (liveness) |
| `CalendarWatch` | `updateCalendarPushWatch`: read the row, register for 21 days, withdraw the old watch, store | `UnwatchedHasCause`: no gap but after a renewal day without any registration |
| `Reminders` | `remindInterviewees30MinBefore`: every minute, interviews starting in 28 to 32 minutes | `RemindersMatchRuns`: none missed unless every process failed in every minute left, at most five per process |
| `Meetings` | `CreateMeeting`, `RecordingUploadCallback`: IRIS, then QS, errors dropped | `RecordingLostHasCause` |

Run `scheduled`. Three validations over two crowds: two may calculate at once and a third
come after. A process more than one for every job: the scheduler of each server
runs every job. `CalendarWatch` goes by days until the next renewal or end of a
watch; months of 28 and 31 days are the shortest and longest gap between the 21st
and the 1st; the ids of watches are used again when nothing holds them.
Interviews are set 20 to 35 minutes ahead, on both sides of and on every edge of
the window, and moved once more. Four callbacks and creations of one meeting.

Fairness (`ClosingFairness`): replication catches up (weak), the job is run
again and again (weak: it is on a cron), and a write that is tried for ever
succeeds in the end (strong, since a failed write disables itself until the next
listing). The other four parts have safety properties only.

## Readers: `InterviewTabs`, `InquiryPages`, `ProjectCatalogue`, `SurveyPages`

Answers that are put together by several statements, or visits of several
requests, while others write what is read. `MCReaders` runs one at a time.

`InterviewTabs`: the conditions of the lists are operators (`Upcoming`, `Completed`,
`Invalidate`, `Due`, `OwnDue`, `OnCalendar`); somebody opens a cover (the tabs, the
payment filters of the completed ones, a moderator's own list) and reads its lists
in any order, while time passes and interviews are arranged, called off, paid
and invalidated. `TabsAreComplete`: an interview that belonged on one of the lists
all the while is seen, and once, unless it was moved in time, went from a list to
another, or the lists were read against the direction in which rows go; what is
on a calendar is on exactly one tab unless all hosts are deleted.

`InquiryPages`: the preview of a proposal (`ReadProducts`, `ReadMarkets` for each
product, `ReadDifficulties`, `Assess` for each crowd, `AnswerPreview`), what the
legacy application saves of it, and the page of the saved one (`ReadProject`,
`ReadCrowds`, `ReadFees`). `Units`, `Matches` and `IsSpecialized` are the pricing of
`dto/payment.go`. `ProposalsAddUp`: with an orderly catalogue each crowd is in the
units of exactly one honorarium; the page stops where the preview did; its costs
are the project's fees; but for edits and failed statements that it names.

`ProjectCatalogue`: creation, edits, the lists with the selection they save
(`ReadList`, `SaveSelection`), exports (`ReadHeld`, `ReadDeclined`, `ReadName`,
`Upload`, and the browser's `Download`). `CatalogueIsSound`: the file downloaded is
one's own or of an export under the same name; a schedule has the respondents of
its project; the selection saved is of the last list read, unless lists
overlapped; a list is of one client.

`SurveyPages`: the crowds of a survey (`ListCrowds`, then `ReadNext`, the statements
of each crowd in the order of the five forms of JSON, `Statements`; `Fallback` is
what a failed one leaves), the check (`BeginCheck`, `CountCrowds`, `CountDeleted`,
`CountSlots`, `CountFails`), and favourites (`BeginToggle`, `CheckLeave`,
`WriteFavorite` on the primary, `Reread`, `ShowFavorite`, `ShowLeave` from the
replica). `SurveyPagesAgree`: honoraria are of the survey's kind, counts of nested
groups are nested, a level is shown of fielded crowds only, a currency is the
crowd's own; a check is true; a favourite is shown as it is and is of somebody
with leave to read; but for changes in between, lag and failures.

| Run | Instance | Shows |
|---|---|---|
| `readers` | an interview of two moderators over two days of two hours, due after one, on every beginning; two crowds and three products in orderly and disorderly catalogues and three tables of difficulties, an edit; two projects, names and accounts, two exports, two lists, an edit; two crowds, one panelist, two users, two requests, an edit; in each answer statements of one kind may fail | `TabsAreComplete`, `ProposalsAddUp`, `CatalogueIsSound`, `SurveyPagesAgree` |

The lists treat interviews one by one, so one shows all that several do; two
moderators are what it takes to have an own list that is not everybody's, and to
delete one host of two. One edit between any two statements is the least that
separates them; the proofs cover any number of edits, crowds and requests, and
failures of several kinds together are bounded in the modules (`MayFail`,
`StatementFails`) by one kind in a behaviour. A page of crowds is read in the order
of their names. Nothing is awaited: the system may stop.

## Proofs

Eight modules, checked by TLAPS for every value of the constants, from the named
ASSUMEs of the modules and what the theorems themselves assume. Every safety
invariant and action property that a passing run checks is a theorem.

*Payments* (`HonorariumPaymentProofs`). `PaymentInv` is inductive.
`AtMostOneCompleted` alone is not: one must know that a transaction has all its
slots locked and nobody else has (`LocksAreHeld`), that what it read stays true
while it holds them (`ReadsStayTrue`, which rests on inserts waiting for the
lock, `RowsAppearOnInsert`), and who may still pay after money was sent
(`CreditsAreAccounted`). Theorems: `Invariance`, `TypeCorrect`, `OneSettlement`,
`OneCredit`, `StatusIsFinal`, and `Refinement` (every step is a `Credit` or a
`Conclude` of the ledger, or a stutter). The proof has one lemma per action group
and covers `LambdaConfigured = FALSE`, which the runs do not.

*The IRIS database* (`ScheduledProofs`). `PaidIsCredited` for any runs, lag,
duplicates and faults. `SecondCreditHasCause`: of a slot with no cause yet, at most
one row is in hand, of at most one run; if it is paid no run has it in hand; and
a credit of it belongs to the run that has it in hand past the insert, or the
slot is paid (`InGoodHands`). `JobTypes`. `StuckPools`, for any pool, requests and
rows: each open query has one connection (`OneEach`), a connection in use is of a
query that is open (`UsedIsOpen`), and who waits has yet to open the innermost
(`RoomToWait`); so the connections of a stuck pool map one to one to the outer
queries of those who wait, and the rest is counting (`StuckIsHeld`).

*Availability* (`ModeratorAvailabilityProofs`). Of the comparisons:
`ConflictsMissNothing` (the ten disjuncts of the conflict query catch every range
that comes closer than the buffer), `ConflictsHaveReason` (they refuse nothing
that stays clear of it), `OverlapsIsMeets`. `PostsAvoidInterviews`: for any
number of overlapping posts and deletions, with any rows, interviews, `ParseTime`
and faults but a failing read of the buffer, rows stay away from interviews. The
invariant `AvailInv` adds what a call is about to write: a range that has passed
the check, a range merged from it and rows that touch it (`TogetherAway`: two
ranges that touch and are both clear of an interview are so together), rows about
to be copied. `PostsKeepApart`: one after the other, and with times parsed, posts
and deletions of any number keep the manual rows apart, wherever the process may
end; the invariant says that the rows a post has yet to take are among those it
saw, and that every other row is apart from the range it has come to. Both assume
that calls which do not check (create, update, import) and changes of the buffer
do not occur. `BuffersAreKept` adds the changes of the buffer (and unlinks), with
`ParseTime`, without which the handler cannot read the interviews, for calls one
after the other, without failing statements and for buffers of an hour at most,
since a row more than an hour from an interview is not looked at. Its invariant
`BufferInv` divides the rows while a change runs: those it has still to come to
(`Waiting`) lie between interviews (`Whole`), those behind it keep the new buffer or
have no length (`Kept`), and of the one at hand `PassKnows` says which interviews
its start (`FrontClear`) and its planned end (`BackClear`) keep clear of. That the
nearest interview is enough to look at is `StartIsRight` and `EndIsRight`, and that
there is a nearest, among however many, `NearestIsThere` (by well-foundedness). `DeletionsCopy`
(invariant `CopiedInv`): the row a deletion found is there until it is deleted
(`FoundIsThere`), and each imported row it met is still to be copied or has a
copy that is a row of its own; but for failing reads and statements, since a copy
that fails is lost. `MergingKeepsOffers` maps posts and deletions to
`ModeratorCover`, step by step: what is offered is what the rows cover and what
the call between its first deletion and its insert is about to create. Its
invariant `CoverInv` says that the rows still to be merged are there, and that a
range which is not to be created lies within one row that stays (`MergeIsWhole`),
which apartness makes the only row it meets. Faults are excluded: a merge that is
cut off loses what it deleted, as the code does.

*Sessions* (`SessionsProofs`). `RefusalHasCause`: a request past its refresh whose
key is published was given that key, as keys are never published twice and a
token's key was published when it was signed (`CacheInv`). `SessionsImplementCache`
maps every step of a conversation to the issue of a token or a stutter of the
middleware, so that this holds of the composition. `EntryNeedsConsent`: every
accepted id is that of a user who consented (`Consenting`). `AskedAgain`: the
acceptance of a user of one id, of which no update was lost, is in IC where that
is configured and in QS if QS knows the user (`AllRecorded`), IC is asked only where
it is configured (`AskedIc`), and terms are asked for only after IC's answer or the
read of QS (`AskedFor`). `SessionTypes`.

*Slots* (`InterviewSlotsProofs`). `SlotInv`: a call that has checked the size and
that nobody overtook still has the room (`RoomLeft`), one that has read the
status still finds it (`StillLive`), an invalidation past its check is of a slot
that is unpaid or crossed (`LookedFor`). From these `SizeCovers`, `ActionedKept`,
`PaidInvalidations`, `FinishedKeep`, `CompletedFull`, `SlotTypes`.

*Pages that are read* (`CalendarPagesProofs`). What these pages compute are folds,
over sets and over sequences. The fold of a set is a recursive function on its
subsets, so that the value on a set follows from the value on the set without one
element (`Recursion`); that of a sequence is the last of a series in which each
comes from the one before (`Wholes`, `Resolves`, `Splits`). Induction on how many
elements were taken is then stated of a set of numbers, or of sets, that is closed
under the next step (`NumbersByInduction`, `SetsByInduction`), with no operator for
a parameter; it comes from the least element of a set of numbers.

* `OffersHold`, for any rows, hours, zones, steps, lengths and respondents, and
  finitely many interviews. `FlagsAreRight`; `HoursKept`, which relates the clock
  of an offer's zone to its day; `PagesAreOfOffers`: the fold over the rows in
  order puts a moderator on the available side exactly if a row of hers has an
  offer; `CountBounds`: interviews that do not meet and lie within the rows are no
  more than the sum of what each row has room for, by induction on the rows.
  `QuotaIsKept` is the quota and the late changes: its invariant `QuotaInv` counts
  the interviews that take a place whatever the time (`Counted`), which the page's
  two counts never exceed and reach when all that is over is recorded
  (`CountsAre`); one with a good offer has a place left or one to give up
  (`RoomKept`), and nobody has two interviews to be held (`OnePending`).
* `PagesKeep`, for any list, rows and page sizes. `PageInv` is about an item that
  has stayed untouched: the rows before it in the order are its place (`Place`).
  Unless something listed has happened, an item whose place is past the client's
  offset has not been seen (`AheadUnseen`) and one before it has been seen once
  (`BehindOnce`), and a row that comes, goes or changes moves the place the way
  that the cause says. What a page holds is counted by the keys of the order: all
  rows of a key that lies within the page, none of one that lies outside
  (`WindowTypes`); a row alone with its key is thus on the page its place is in.
* `CalendarKept`, for any manual rows, overlapping or not. The state between two
  steps of the loop is `Sane`: entries that are shown have numbers of their own,
  imported rows are shown as they are in the table, and a manual row is at most
  cut. This gives three of the five parts. That no time is listed as of both kinds,
  and what is lost, holds of manual rows that are apart. For these, `Parted` is the invariant of the split of one row: what
  its map still spans begins where the imported rows seen so far end (`RestIs`),
  and what lies before that is listed (`Covered`). `Dividing` is that of the pass
  over the rows: those to come are as in the table (`OthersAreWhole`), those done
  show no time an imported row has (`DoneAreClear`, `HalvesAreClear`) and all up to
  the last imported row in them (`DoneAreShown`).

They assume that rows have ids of their own and times in order
(`OfferableAssumption`, `CalendarsAssumption`), finite tables
(`InterviewsAssumption`, `PagesAssumption`), and that imported rows are apart. No
statement of this repository inserts into `imported_moderator_availability`, what
it holds was written by the importer before this one, and `MergeOverlappingSlots`,
which says that it merges as that one did (`moderator_import.go:137`), joins all
that overlaps or touches; the updates here only shorten or delete rows. The
`calendar` run evaluates all these assumptions.

*Project pages* (`ProjectPagesProofs`). `StaffSound`: what a reset read is current
unless it was overtaken. `SecondTexts`: an update that inserts a text saw none, and
everything committed before it asked was seen. `SlotInStep`: as long as nothing
has gone wrong one request at a time works on the slot, and at each of its
sixteen places (`Place`) the rows and the calendar differ by just what it has
still to write; between requests they do not (`Steady`). One lemma per statement.

*Scheduled parts* (`ScheduledProofs`). `TotalIsSum`: unless entangled, one
calculation runs alone, the total is not written before it ends, and what it has
written is the share of the quota it read (`Alone`); that the total it writes is
then the sum follows with no induction, since both are one operator applied to the
same function. `Watched`: the watch registered last is alive and no run is about
to withdraw it (`LastIsAlive`), and without a lost day one was registered on the
last renewal day (`RegisteredLast`), for months of 28 to 31 days. `RemindersMatch`:
in minute *k* of the window at most *k* messages per process have gone out
(`WrittenByMinute`); while none has, every minute of the window since the
interview was set was lost (`NobodyWrote`). `RecordingsKept`: with no cause the two
tables differ only by the one callback in hand.

*Readers* (`ReadersProofs`). Each invariant says what a reader in the middle of its
statements may rely on.

* `TabsComplete` (`TabIInv`): an interview not yet seen is on a list still to be
  read, or a cause is noted (`StillToCome`); one that did not move and is on one
  list at most was seen only if that was read (`SeenWhereItIs`). It rests on the
  order of the lists (`Rank`): rows go from a list to a later one only.
* `ProposalsSound` (`InquiryIInv`): related markets are the products' unless read in
  vain (`MarketsKnown`), units are those of products and markets as read
  (`FeesFollow`), a preview stops exactly where an assessment does (`StopFollows`),
  what is saved is what was answered. `EveryCrowdIsPaid` is the lemma on the
  operators: in an orderly catalogue exactly one honorarium has a crowd.
* `CatalogueSound` (`CatalogueIInv`): the file under a name is of a request that
  wrote it under that name (`FilesAreThere`), what an export has read is right but
  for what changed since (`SchedulesHold`), a list still to be saved was read after
  another or overlaps it (`SavesInOrder`).
* `SurveySound`: three invariants, of the sheet, the check and the favourites. A row
  holds just what the first statements of its form have answered (`Opened`,
  `InTheirOrder`), a crowd once fielded stays so, and groups of panelists shrink but
  for the newcomers (`AvailableHolds`, `EligibleHolds`); a problem already asked for
  is named or not as it is, or it moved, or its count failed (`Judged`); who is to
  write a favourite had the leave, and what was written stands until another
  request is by (`Granted`, `AsWanted`, `AsShown`).

Only model-checked:

* The liveness properties `PendingIsResolved`, `PaidByNextRun`, `ImportEnds`,
  `FalseRejectionsStop`, `OverIsClosed`, `EveryoneIsAnswered`: fairness and ENABLED
  are beyond the prover.

## Findings

A run that TLC must find violated; `PROJECT.json` quotes the line of the
repository that says otherwise.

* `CompletedIsCredited` (`payment_credited`): `Invoke` ignores `FunctionError`, so
  a Lambda that fails behind a 200 is taken for a payment.

## Divergences without a run

The models contain these as behaviour, or leave them out where they say so; none
is claimed to be more than what the lines named do.

Payments, the job and the pools:

* The amount sent to the Lambda is the current request's (`mra/payment.go:268`),
  the row that is completed may be another's.
* A payment that commits between `mra/interview.go:291` and `:307` is invalidated
  (`crossed`).
* A cancelled request leaves its payment rows PENDING, since the update to FAILED
  uses the request's context (`MarkFailedFails`).
* The job credits a slot that became a no-show after it was listed.
* A no-show of an IRIS slot updates the QS slot of the same id (`ls/moderator.go`).
* A database that cannot be reached at the start is nil for as long as the server
  runs, though the log says "will retry on queries" (`database.go:38`, `:57`).
* An inner query that fails shortens the answer, which is a success.

Availability:

* With times read in RFC 3339 (`parseTime=true`, the default of `config.go`) a post
  that overlaps a row parses it as the zero time (`mra/moderator.go:131`), deletes
  it and may create nothing; the times offered to respondents are none
  (`mra/moderator.go:750`), while the project manager's pages find some.
* If the create after a merge fails (`mra/moderator.go:155`) the rows merged are
  gone: nothing joins the statements.
* Two equal rows remove each other as nested (`qs/user_repo.go:1086`).
* Two imports may both pass the check of the status before either sets it.
* An import that times out leaves its status In Progress, and edits are refused
  from then on.
* Imports write to `moderator_availability` and are cleared from
  `imported_moderator_availability`, so a second import doubles the rows and
  unlinking leaves them.
* With the default connection parameters a deletion leaves no copies of imported
  rows; a post within one of two overlapping rows loses what the other alone held.
* Two posts that both read before either writes leave rows that overlap; an update
  checks the old range, as its comment says it means to; buffers above an hour are
  accepted and looked for within one (`qs/user_repo.go:935`).
* The listing loses what comes after the last imported row within a manual one
  (`mra/moderator.go:250`).
* An interview past the moderator's midnight is compared by its times of day, and
  so offered outside of the hours or not at all (`mra/moderator.go:860`).

Interviews and projects:

* `shared/scheduler.go:37` answers 201 when the slot does not exist.
* An invalidation revives a cancelled project; a finished or paid interview may be
  cancelled.
* `StatusFor`: a completed project goes on when its size changes, even to the
  number of interviews it has.
* `TimeSlotCounts` counts status 5, a cancelled interview, as completed
  (`qs/project_repo.go:1250`); lists and details count status 9.
* A reset of the staff that another request overtakes leaves another list; hours
  may be written for anybody and after Defining.
* An update of a link whose languages are all new is answered as done and does not
  store the link.
* A request with both buffers of a project sets the first only
  (`mra/project.go:244`).
* A list filtered by accounts is of client 1 whatever client the path names
  (`qs/project_repo.go:607`).
* Exports of projects of one name share one file.

IRIS and conferences:

* A removed observer's invitation is never deleted.
* `CloseSurvey` sets status 5, the job 6; `completeProjects` sets 13 whatever the
  status is by then. The check of a survey takes 5 for a template
  (`iris/survey_repo.go:458`).
* The count of deleted crowds includes excluded ones, and hides deleted crowds when
  it fails (`iris/survey_repo.go:450`).
* A favourite is written on the primary and shown from the replica; if the survey
  cannot be read again after the write its nil is used (`ls/survey.go:607`).
  Administrators without a row of their own are shown to have no leave to read.
* A product related to other markets prices the market-1 crowds of its kind,
  specialized or not, as well (`dto/payment.go:168`).
* The mail about a custom crowd is sent with the context of a request that is over
  (`ls/subscription.go:1044`).
* `CreateMeeting` repeated creates a second meeting; a callback with an empty body
  clears the recording; `MeetingAction` answers success after a failure.
* `endConferences` is not implemented.

Jobs:

* "30 minutes before" sends up to five e-mails per process; the day-before reminder
  is sent once, for the interviews set by then, and not retried; neither is the
  transcripts job.
* The comment "every 20 days" stands for the 1st and the 21st of each month.

Login:

* The terms of an IC login are recorded in QS under IC's id; single sign-on asks
  for no terms; a session from IC has no refresh token.
* The client of single sign-on is recognised only if somebody lists it
  (`config.go:248`).
* The profile update answers "Password updated" also when it was not
  (`mra/user.go:75`).

## Plan

1. `PaymentLedger`, `HonorariumPayment` — modelled, checked, proved.
2. `CreditGrantJob`, `ConnectionPool` — modelled, checked, proved but for liveness.
3. `AvailabilityRules`, `ModeratorCover`, `ModeratorAvailability` — modelled and
   checked; proved for posts and deletions, the refinement with them, and for
   changes of the buffer.
4. `JwksCache`, `Sessions` — modelled, checked, proved but for liveness.
5. `InterviewSlots` — modelled, checked, proved.
6. `ProjectStaff`, `ConferenceLinks`, `IrisSlot`, `Meetings`, `SoftLaunch`,
   `CalendarWatch`, `Reminders` — modelled, checked, proved; `SurveyClosing` has a
   liveness property only.
7. `InterviewTabs`, `InquiryPages`, `ProjectCatalogue`, `SurveyPages` — modelled,
   checked, proved.
8. `AvailabilityListing`, `SlotOffers`, `PagedLists` — modelled, checked, proved.
9. Left: the honorarium sync, the moderators of IRIS slots, the joint model of
   `InterviewSlots` with the steps of `HonorariumPayment` (it sees payments as
   their commit).

## Not modelled

* Counts of the dashboard, details of single rows and further builders of JSON: one
  statement each that changes nothing; what they compute is SQL.
* Single updates of users, clients, questions, subscriptions, crowds, settings: one
  statement or one transaction of inserts each, without a read before it.
* Media, transcripts, translation, mail, SMS, payment providers, Salesforce: an
  external call and at most one update.
* The honorarium sync: a goroutine per update that starts a Step Function
  execution with the context of a request that is over; what IRIS then holds is
  decided outside the repository.
* Moderators of IRIS slots (`ls/timeslot.go`): assigned by one insert; unassigned
  by the removal of events, invitations and row, the steps `IrisSlot` has for
  observers.
* Wiring, configuration, logging, DTOs, the retry helper that nothing calls.
* The schema: unique keys, foreign keys and isolation beyond MySQL's defaults are
  not in the repository. Where a property would depend on one, both are allowed.
