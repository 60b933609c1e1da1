--------------------------- MODULE MCCalendarPages ---------------------------
(***************************************************************************)
(* Pages that are read while others write: a moderator's calendar, what    *)
(* respondents are offered from it, and lists that come by pages.  They    *)
(* share no variable: a behaviour is one part's, while the others stay     *)
(* where they begin.                                                       *)
(***************************************************************************)
EXTENDS AvailabilityListing, SlotOffers, PagedLists

CONSTANTS
  m1, m2,
  Grid,   \* rows of the calendar are within 0 .. Grid
  End     \* rows that are offered end by then

VARIABLE part

calendarVars == <<part, listingVars, offersVars, pagedVars>>

Spans(last) == {r \in [from : 0 .. last, to : 0 .. last] : r.from < r.to}

\* Calendars: two manual rows of any kind, three imported rows that are apart.
Numbered(S, base) ==
  LET q == SetToSeq(S)
  IN {[id |-> base + k, from |-> q[k].from, to |-> q[k].to] : k \in DOMAIN q}
Few(S, n) == UNION {kSubset(k, S) : k \in 0 .. n}
MCCalendars ==
  [manual : {Numbered(m, 0) : m \in Few(Spans(Grid), 2)},
   imported : {Numbered(i, 10) : i \in {j \in Few(Spans(Grid), 3) : Apart(j)}}]

\* What is offered: up to two rows of one moderator, one of another, and the
\* first one's imported row and hours.
Row(id, m, r) == [id |-> id, moderator |-> m, from |-> r.from, to |-> r.to]
WorkingHours == {{}} \cup {{[from |-> a, to |-> b, zone |-> z]} : a \in {0, 2}, b \in {4, Day}, z \in {0, 3}}
Tables ==
  {[rows |-> {Row(1, m1, p), Row(2, m1, [from |-> 3, to |-> End])} \cup o, imported |-> i, hours |-> m1 :> h @@ m2 :> {}] :
     p \in Spans(End),
     o \in {{}, {Row(3, m2, [from |-> 1, to |-> 2])}, {Row(3, m2, [from |-> 1, to |-> 4])}},
     i \in {{}} \cup {{Row(4, m1, x)} : x \in Spans(End)}, h \in WorkingHours}

\* Two rows for the respondents who ask and book: interviews in the first are
\* over while the second is offered.
TwoRows == [rows |-> {Row(1, m1, [from |-> 1, to |-> 3]), Row(2, m1, [from |-> 4, to |-> 7])}, imported |-> {}, hours |-> m1 :> {}]
NoRow == [rows |-> {}, imported |-> {}, hours |-> m1 :> {}]
MCOfferable == Tables \cup {TwoRows, NoRow}

\* Items are alike, and so are respondents and interviews; the properties are
\* invariants.
Alike == Permutations(Item) \cup Permutations(Respondent) \cup Permutations(TimeSlot)

OneItem == [source |-> "qs", key |-> 1, there |-> TRUE, rows |-> 1, shown |-> TRUE]

CalendarInit ==
  /\ part \in {"calendar", "tables", "journeys", "lists"}
  \* One beginning for the parts that stay there.
  /\ part # "calendar" => tables = [manual |-> {}, imported |-> {}]
  /\ part \in {"calendar", "lists"} => free = NoRow
  /\ part = "journeys" => free = TwoRows
  /\ part # "lists" => kind = "timeslots" /\ table = [i \in Item |-> OneItem]
  /\ ListingInit /\ OffersInit /\ PagedInit

CalendarNext ==
  /\ UNCHANGED part
  /\ \/ part = "calendar" /\ List /\ UNCHANGED <<offersVars, pagedVars>>
     \/ part = "tables" /\ TimePasses /\ UNCHANGED <<listingVars, pagedVars>>
     \/ part = "journeys" /\ OffersNext /\ UNCHANGED <<listingVars, pagedVars>>
     \/ part = "lists" /\ PagedNext /\ UNCHANGED <<listingVars, offersVars>>

CalendarSpec == CalendarInit /\ [][CalendarNext]_calendarVars
=============================================================================
