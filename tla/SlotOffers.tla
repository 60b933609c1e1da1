----------------------------- MODULE SlotOffers -----------------------------
(***************************************************************************)
(* The interview times a respondent is offered, and the two pages that     *)
(* tell a project manager whether there are any.  A row of availability is *)
(* divided into starts a quarter of an hour apart; a start is offered if   *)
(* the interview fits in the row, is not too soon and falls in the         *)
(* moderator's working hours of the project.                               *)
(*                                                                         *)
(* Times are integers of a common unit from some midnight (UTC) on; a zone *)
(* is an offset from UTC.  Booking, the end of interviews and their        *)
(* invalidation are other parts' (and the legacy application's) doing.     *)
(***************************************************************************)
EXTENDS AvailabilityRules

CONSTANTS
  Respondent, TimeSlot,
  Step,        \* 15 minutes
  Length,      \* interview_length
  Buffer,      \* post_screenin_buffer
  Day,         \* 24 hours
  Horizon,     \* the clock stops there
  SampleSize,
  ParseTime,   \* DB_PARAMS has parseTime=true, its default
  Offerable      \* rows of availability, imported rows and working hours there may be

ASSUME UnitsAssumption == {Step, Length, Day} \subseteq Nat \ {0} /\ {Buffer, Horizon, SampleSize} \subseteq Nat
ASSUME SwitchAssumption == ParseTime \in BOOLEAN
ASSUME InterviewsAssumption == IsFiniteSet(TimeSlot)

\* Rows have ids of their own and times in order, imported rows are not empty,
\* hours are of the moderators whose rows there are.
ASSUME OfferableAssumption ==
  \A f \in Offerable :
    /\ IsFiniteSet(f.rows)
    /\ \A row \in f.rows : row.from \in Int /\ row.to \in Int /\ row.from <= row.to /\ row.moderator \in DOMAIN f.hours
    /\ \A r, q \in f.rows : r.id \in Int /\ (r.id = q.id => r = q)
    /\ \A i \in f.imported : i.from \in Int /\ i.to \in Int /\ i.from < i.to
    /\ \A m \in DOMAIN f.hours : \A h \in f.hours[m] : h.from \in Int /\ h.to \in Int /\ h.zone \in Int

VARIABLES
  now,
  free,     \* rows of moderator_availability, imported rows, the hours (one range or none) by moderator
  timeSlot, \* the interviews of the project
  shown,    \* what a respondent was last offered, and whether the count behind it is wrong, or wrong by now
  crowded,  \* history: booked from such an offer, or past an interview the count left out
  late      \* history: offers shown to one whose interview was about to begin

offersVars == <<now, free, timeSlot, shown, crowded, late>>

NoSlot == [by |-> "nobody", from |-> 0, status |-> "none", invalidated |-> FALSE]
Nothing == [offers |-> {}, stale |-> FALSE]

\* Status 2; 3, 4 or 11; 5, 6 or 12; 9.
Status == {"pending", "moved", "cancelled", "completed"}
Called(s) == timeSlot[s].status \in Status
Of(r) == {s \in TimeSlot : timeSlot[s].by = r}

-----------------------------------------------------------------------------
(* Which starts are offered *)

Clock(t, zone) == (t + zone) % Day

\* isWithinModeratorTimeRange and isWithinTimeRange: the clock at the start and
\* at the end.  No hours, or hours in an unknown zone, exclude nothing.
WithinHours(hours, from, to) ==
  \A h \in hours :
    LET end == Clock(to, h.zone)
    IN h.from <= Clock(from, h.zone) /\ h.to >= (IF end = 0 THEN Day ELSE end)

\* The starts in a row, in order.
Starts(row) == [i \in 1 .. ((row.to - row.from) \div Step) |-> row.from + (i - 1) * Step]

\* The conditions of both pages.  A buffer is never negative.
Fits(row, t) ==
  /\ t + Length <= row.to
  /\ t >= now + Buffer
  /\ WithinHours(free.hours[row.moderator], t, t + Length)

\* A row of the imported calendar meets the interview.
HasImportedOverlap(row, t) ==
  \E i \in {j \in free.imported : j.moderator = row.moderator /\ OverlapsInside(row, j)} :
    \/ i.from > t /\ i.from < t + Length
    \/ i.to > t /\ i.to < t + Length
    \/ i.from <= t /\ i.to >= t + Length

\* With parseTime=true the times come as RFC 3339 and no row can be parsed.
Offers ==
  IF ParseTime THEN {}
  ELSE UNION {{[moderator |-> row.moderator, from |-> t, flag |-> HasImportedOverlap(row, t)] :
                 t \in {u \in ToSet(Starts(row)) : Fits(row, u)}} : row \in free.rows}

-----------------------------------------------------------------------------
(* The project manager's pages *)

\* The loop over the starts of a row, and over the rows in the table's order.
Sort(sets, row) ==
  FoldLeft(LAMBDA acc, t :
             IF Fits(row, t)
             THEN [available |-> acc.available \cup {row.moderator},
                   unavailable |-> acc.unavailable \ {row.moderator}]
             ELSE IF row.moderator \in acc.available THEN acc
             ELSE [acc EXCEPT !.unavailable = @ \cup {row.moderator}],
           sets, Starts(row))

\* The rows in the order of their ids.
ById(rows) == CHOOSE q \in SetToSeqs(rows) : \A j, k \in DOMAIN q : j < k => q[j].id < q[k].id

\* GetUnavailableModeratorsMRA: "error" if nobody is available, "warning" if
\* somebody is not.  It reads rows as times: they need parseTime=true.
Verdict ==
  LET sets == FoldLeft(Sort, [available |-> {}, unavailable |-> {}], ById(free.rows))
  IN IF sets.available = {} THEN "error"
     ELSE IF sets.unavailable # {} \/ DOMAIN free.hours \ sets.available # {} THEN "warning"
     ELSE "fine"

\* GetModeratorsCountMRA: the interviews there is time for, in rows not over.
AvModCount ==
  MapThenSumSet(LAMBDA row : (row.to - row.from) \div Length, {row \in free.rows : row.to >= now})

-----------------------------------------------------------------------------
(* Who is offered them *)

\* GetProjectDetailsMRA.
ScheduledCount == Cardinality({s \in TimeSlot : timeSlot[s].status = "pending" /\ timeSlot[s].from + Length >= now})
InterviewedCount == Cardinality({s \in TimeSlot : timeSlot[s].status = "completed" /\ ~timeSlot[s].invalidated})

\* Mutant: an interview is left out of the count for everybody.
IsOverquota_LeftOut(token) == SampleSize = (ScheduledCount - 1) + InterviewedCount

\* The quota: one who changes an interview has it left out of the count.
IsOverquota(token) == SampleSize = (IF token = "none" THEN ScheduledCount ELSE ScheduledCount - 1) + InterviewedCount

\* GetInvalidTimeSlotStatusMRA, and for rescheduling.
Barred(r, statuses) == \E s \in Of(r) : timeSlot[s].status \in statuses /\ ~timeSlot[s].invalidated

\* GetPendingTimeslotByProjectAndResponderMRA, without an order.
PendingSlots(r) == {s \in Of(r) : timeSlot[s].status = "pending" \/ timeSlot[s].invalidated}

\* The time is not parsed with parseTime=true, and the test left out.
TokenExpired(s) == ~ParseTime /\ timeSlot[s].from < now + Buffer /\ ~timeSlot[s].invalidated

\* GetModeratorsAvailabilityMRA answers respondent r: with a token, the first of
\* the pending slots is looked at.
Admitted(r, token) ==
  /\ ~IsOverquota(token)
  /\ IF token = "none" THEN ~Barred(r, {"pending", "cancelled", "completed"})
     ELSE /\ ~Barred(r, {"cancelled", "completed"})
          /\ \E s \in PendingSlots(r) : ~TokenExpired(s)
          /\ token = "right"

Refused(r, token) ==
  \/ IsOverquota(token)
  \/ IF token = "none" THEN Barred(r, {"pending", "cancelled", "completed"})
     ELSE \/ Barred(r, {"cancelled", "completed"})
          \/ PendingSlots(r) = {}
          \/ \E s \in PendingSlots(r) : TokenExpired(s)
          \/ token = "wrong"

\* The respondent's interview is too near to be moved.
TooNear(r) == \E s \in Of(r) : timeSlot[s].status = "pending" /\ ~timeSlot[s].invalidated /\ timeSlot[s].from < now + Buffer

\* An interview that is over and not recorded as held is counted nowhere.
Unrecorded == \E s \in TimeSlot : timeSlot[s].status = "pending" /\ timeSlot[s].from + Length < now

Ask(r, token) ==
  /\ \/ Admitted(r, token) /\ shown' = [shown EXCEPT ![r] = [offers |-> Offers, stale |-> Unrecorded]]
     \/ Refused(r, token) /\ shown' = [shown EXCEPT ![r] = Nothing]
  /\ late' = (late \/ (shown'[r].offers # {} /\ TooNear(r) /\ ~\E s \in Of(r) : timeSlot[s].invalidated))
  /\ UNCHANGED <<now, free, timeSlot, crowded>>

-----------------------------------------------------------------------------
(* What happens to interviews *)

\* r changes an interview, and the one that is left out of the count was not in it.
Uncounted(r) == PendingSlots(r) # {} /\ \E s \in PendingSlots(r) : timeSlot[s].invalidated

\* The respondent chooses an offer; an interview to be held is moved, one that
\* was invalidated stays.
Book(r, o, s) ==
  /\ o \in shown[r].offers /\ o.from >= now /\ ~Called(s)
  /\ timeSlot' = [q \in TimeSlot |->
                IF q = s THEN [by |-> r, from |-> o.from, status |-> "pending", invalidated |-> FALSE]
                ELSE IF q \in Of(r) /\ timeSlot[q].status = "pending" /\ ~timeSlot[q].invalidated
                THEN [timeSlot[q] EXCEPT !.status = "moved"]
                ELSE timeSlot[q]]
  /\ crowded' = (crowded \/ shown[r].stale \/ Uncounted(r))
  /\ shown' = [q \in Respondent |->
                 IF q = r THEN Nothing ELSE [shown[q] EXCEPT !.stale = shown[q].offers # {}]]
  /\ UNCHANGED <<now, free, late>>

Recorded(s) ==
  /\ timeSlot[s].status = "pending" /\ timeSlot[s].from < now
  /\ timeSlot' = [timeSlot EXCEPT ![s].status = "completed"]
  /\ shown' = [r \in Respondent |-> [shown[r] EXCEPT !.stale = @ \/ timeSlot[s].by = r]]
  /\ UNCHANGED <<now, free, crowded, late>>

Cancelled(s) ==
  /\ timeSlot[s].status = "pending"
  /\ timeSlot' = [timeSlot EXCEPT ![s].status = "cancelled"]
  /\ UNCHANGED <<now, free, shown, crowded, late>>

Invalidated(s) ==
  /\ timeSlot[s].status \in {"pending", "completed"} /\ timeSlot[s].from < now /\ ~timeSlot[s].invalidated
  /\ timeSlot' = [timeSlot EXCEPT ![s].invalidated = TRUE]
  /\ UNCHANGED <<now, free, shown, crowded, late>>

TimePasses ==
  /\ now < Horizon
  /\ now' = now + 1
  /\ UNCHANGED <<free, timeSlot, shown, crowded, late>>

OffersInit ==
  /\ free \in Offerable
  /\ now = 0
  /\ timeSlot = [s \in TimeSlot |-> NoSlot]
  /\ shown = [r \in Respondent |-> Nothing]
  /\ crowded = FALSE /\ late = FALSE

OffersNext ==
  \/ \E r \in Respondent, token \in {"none", "right", "wrong"} : Ask(r, token)
  \/ \E r \in Respondent : \E o \in shown[r].offers, s \in TimeSlot : Book(r, o, s)
  \/ \E s \in TimeSlot : Recorded(s) \/ Cancelled(s) \/ Invalidated(s)
  \/ TimePasses

OffersSpec == OffersInit /\ [][OffersNext]_offersVars

-----------------------------------------------------------------------------
(* Properties *)

Taken(o) == o.from .. (o.from + Length - 1)

\* An offer is flagged if and only if the moderator's imported calendar has
\* something during that very interview: the query for the whole row and the
\* three comparisons for the start miss nothing and add nothing.
OverlapIsFlagged ==
  \A o \in Offers :
    o.flag <=> Taken(o) \cap Cells({i \in free.imported : i.moderator = o.moderator}) # {}

\* An interview that does not go on past the moderator's midnight lies, minute
\* for minute, in the moderator's hours in the moderator's own zone.
OffersKeepHoursByDay ==
  \A o \in Offers :
    \A h \in free.hours[o.moderator] :
      (o.from + h.zone) \div Day = (o.from + Length - 1 + h.zone) \div Day =>
        \A t \in Taken(o) : Clock(t, h.zone) \in h.from .. (h.to - 1)

\* What the project manager's page reports is what respondents would see: an
\* error when nothing can be offered, a warning when somebody has nothing.
PagesAgree ==
  ~ParseTime =>
    LET offered == {o.moderator : o \in Offers}
    IN /\ Verdict = "error" <=> offered = {}
       /\ Verdict = "fine" <=> offered # {} /\ offered = DOMAIN free.hours

Disjoint(S) == \A o, q \in S : o # q /\ o.moderator = q.moderator => Taken(o) \cap Taken(q) = {}

\* The number of interviews on the other page is never too low: respondents
\* cannot agree on more interviews than it says, however they choose.
CountBoundsOffers ==
  \A S \in kSubset(AvModCount + 1, Offers) : ~Disjoint(S)

\* No more interviews are held or to be held than the project's sample, unless
\* one is booked from an offer that another booking overtook or that was made
\* while an interview just over was not yet recorded, or one reschedules an
\* interview that the count no longer had.
QuotaKept == ~crowded => ScheduledCount + InterviewedCount <= SampleSize

\* One whose interview is about to begin is offered other times only if another
\* interview of theirs was invalidated: the row that is looked at is any of both.
LateChangesHaveCause == ~ParseTime => ~late

\* Offers hold up on every page that shows them, and in what respondents make of
\* them: they are flagged by the imported calendar, keep to the hours of their
\* day, are what the project manager's two pages report; and neither is the
\* sample exceeded nor a late change offered but for the causes named.
OffersHoldUp ==
  /\ OverlapIsFlagged /\ OffersKeepHoursByDay /\ PagesAgree /\ CountBoundsOffers
  /\ QuotaKept /\ LateChangesHaveCause
=============================================================================
