------------------------- MODULE AvailabilityListing -------------------------
(***************************************************************************)
(* The calendar a moderator sees: the manual rows and the imported rows,   *)
(* a manual row split around the imported rows it holds.  Four queries     *)
(* sort the rows; a loop then splits.  The loop works on shared maps: an   *)
(* entry of the answer is a reference to the map of its row, and a later   *)
(* step of the loop that changes the map changes the entry too.            *)
(***************************************************************************)
EXTENDS AvailabilityRules

CONSTANT Calendars \* the tables that there may be: manual and imported rows

\* All rows have an id of their own and begin before they end; imported rows are
\* apart, as merging leaves them (MergeOverlappingSlots, as the importer before it).
ASSUME CalendarsAssumption ==
  \A t \in Calendars :
    /\ IsFiniteSet(t.manual) /\ IsFiniteSet(t.imported)
    /\ \A r \in t.manual \cup t.imported : r.id \in Nat \ {0} /\ r.from \in Int /\ r.to \in Int /\ r.from < r.to
    /\ \A r, s \in t.manual \cup t.imported : r.id = s.id => r = s
    /\ \A m \in t.manual, i \in t.imported : m.id # i.id
    /\ \A i, j \in t.imported : i # j => i.to < j.from \/ j.to < i.from

VARIABLES tables, listing
listingVars == <<tables, listing>>

-----------------------------------------------------------------------------
(* The queries, over one client *)

Equal(i, m) == i.from = m.from /\ i.to = m.to

\* The condition that three of the queries share.
Inside(i, m) ==
  \/ i.from > m.from /\ i.to > m.from /\ i.to <= m.to
  \/ i.from < m.to /\ i.to < m.to /\ i.from >= m.from

Matched(man, imp) == {m \in man : \E i \in imp : Equal(i, m)}
Holding(man, imp) == {m \in man \ Matched(man, imp) : \E i \in imp : Inside(i, m)}

NonOverlappingManual(man, imp) == man \ (Holding(man, imp) \cup Matched(man, imp))
OverlappingManual(man, imp) == Holding(man, imp)
OverlappingImported(man, imp) == {i \in imp : \E m \in Holding(man, imp) : Inside(i, m)}
NonOverlappingImported(man, imp) ==
  {i \in imp \ OverlappingImported(man, imp) : \E m \in man : Equal(i, m)}

\* ORDER BY start_time.
Earlier(r, s) == r.from < s.from \/ (r.from = s.from /\ r.id < s.id)
Ordered(rows) == CHOOSE q \in SetToSeqs(rows) : \A j, k \in DOMAIN q : j < k => Earlier(q[j], q[k])

-----------------------------------------------------------------------------
(* The loop.  A state of it has the maps of the rows, by the rows' ids, the *)
(* answer so far (references, or halves that are maps of their own) and the *)
(* next id for the front end.                                               *)

Ref(row) == [row |-> row.id, from |-> 0, to |-> 0, number |-> 0]
Half(from, to, number) == [row |-> 0, from |-> from, to |-> to, number |-> number]

\* Appends the map of a row, which takes the next number.
Push(st, row) ==
  [maps |-> [st.maps EXCEPT ![row.id].number = st.next], answer |-> Append(st.answer, Ref(row)), next |-> st.next + 1]

PushHalf(st, from, to) ==
  [maps |-> st.maps, answer |-> Append(st.answer, Half(from, to, st.next)), next |-> st.next + 1]
SetFrom(st, row, t) == [st EXCEPT !.maps[row.id].from = t]
SetTo(st, row, t) == [st EXCEPT !.maps[row.id].to = t]

\* Imported fully inside manual.
SplitInTwo(st, man, imp) ==
  Push(SetFrom(PushHalf(st, st.maps[man.id].from, imp.from), man, imp.to), imp)

\* Mutant: the manual row ends as before.
CutEnd_NotCut(st, man, imp) == Push(Push(st, man), imp)

\* Imported extends past manual end.
CutEnd(st, man, imp) == Push(Push(SetTo(st, man, imp.from), man), imp)

\* Imported extends past manual start.
CutStart(st, man, imp) == Push(SetFrom(Push(st, imp), man, imp.to), man)

\* One imported row against the manual row.  The tests look at the times the
\* manual row had at first, the changes go to its map.
Resolve(st, man, imp) ==
  CASE imp.from > man.from /\ imp.to < man.to -> SplitInTwo(st, man, imp)
    [] imp.from > man.from /\ imp.from < man.to /\ imp.to >= man.to -> CutEnd(st, man, imp)
    [] imp.from <= man.from /\ imp.to > man.from /\ imp.to < man.to -> CutStart(st, man, imp)
    [] OTHER -> Push(st, imp)

Meeting(man, imps) ==
  {i \in imps : \/ i.from >= man.from /\ i.from < man.to
                \/ i.to > man.from /\ i.to <= man.to
                \/ i.from < man.from /\ i.to > man.to}

\* The imported rows are tried in their order.
SplitAround(st, man, imps) ==
  LET met == Meeting(man, imps)
  IN IF met = {} THEN Push(st, man)
     ELSE FoldLeft(LAMBDA s, imp : Resolve(s, man, imp), st, Ordered(met))

\* getAllModeratorAvailabilityWithImported: the rows that nothing overlaps, as
\* they are, then the others.  The numbers of the latter leave one out.
Whole(st, row) == Push(st, row)
GetAllWithImported(man, imp) ==
  LET maps == [k \in {r.id : r \in man \cup imp} |->
                 LET r == CHOOSE r \in man \cup imp : r.id = k
                 IN [from |-> r.from, to |-> r.to, number |-> 0]]
      start == [maps |-> maps, answer |-> <<>>, next |-> 0]
      manual == FoldLeft(Whole, start, Ordered(NonOverlappingManual(man, imp)))
      whole == FoldLeft(Whole, manual, Ordered(NonOverlappingImported(man, imp)))
      imps == OverlappingImported(man, imp)
      all == FoldLeft(LAMBDA st, m : SplitAround(st, m, imps), [whole EXCEPT !.next = @ + 1],
                      Ordered(OverlappingManual(man, imp)))
      imported(e) == e.row \in {i.id : i \in imp}
  IN [k \in DOMAIN all.answer |->
        LET e == all.answer[k]
            m == IF e.row = 0 THEN e ELSE all.maps[e.row]
        IN [from |-> m.from, to |-> m.to, number |-> m.number, imported |-> imported(e)]]

-----------------------------------------------------------------------------
ListingInit == tables \in Calendars /\ listing = <<>>

\* GET /moderator/.../get-availability, and the answers to posts and deletions.
List ==
  /\ listing = <<>>
  /\ listing' = GetAllWithImported(tables.manual, tables.imported)
  /\ UNCHANGED tables

ListingSpec == ListingInit /\ [][List]_listingVars

-----------------------------------------------------------------------------
(* Properties.  Listed entries are ranges with a number and a kind.          *)

Listed(kind) == {e \in ToSet(listing) : e.imported = (kind = "imported")}
Within(i, m) == i.from >= m.from /\ i.to <= m.to
Apart(rows) == \A r, s \in rows : r # s => r.to < s.from \/ s.to < r.from

\* Splitting makes up no time: what is listed as manual is a part of one manual
\* row, what is listed as imported an imported row, for whatever rows there are.
NothingInvented ==
  /\ \A e \in Listed("manual") : \E m \in tables.manual : Within(e, m)
  /\ \A e \in Listed("imported") : \E i \in tables.imported : Equal(e, i)

\* With manual rows that are apart, no time is listed both as manual and as
\* imported: the split leaves no manual range on top of an imported one.
KindsApart ==
  Apart(tables.manual) => Cells(Listed("manual")) \cap Cells(Listed("imported")) = {}

\* An imported row that lies in a manual row is in the answer.
HeldRowsAreListed ==
  listing # <<>> =>
    \A i \in tables.imported :
      (\E m \in tables.manual : Within(i, m)) => \E e \in Listed("imported") : Equal(e, i)

\* What the answer lacks of a manual row is what comes after the last of the
\* imported rows in it, never what lies before or between them, and nothing of a
\* row that has none in it.
OnlyTheRestIsLost ==
  Apart(tables.manual) =>
    \A m \in tables.manual, t \in Cells(tables.manual) \ Cells(ToSet(listing)) :
      listing # <<>> /\ t \in Cells({m}) =>
        LET held == {i \in tables.imported : Within(i, m)}
        IN held # {} /\ \A i \in held : i.to <= t

\* The numbers the front end knows entries by: two entries of one number are one
\* range listed twice, also where manual rows overlap.
NumbersIdentify ==
  \A j, k \in DOMAIN listing :
    listing[j].number = listing[k].number => listing[j] = listing[k]

\* The calendar that is listed is sound: it makes up nothing, lists no time as of
\* both kinds, names every imported row that a manual one holds, loses nothing
\* but what comes after the last of them, and gives no number to two ranges.
CalendarIsSound ==
  NothingInvented /\ KindsApart /\ HeldRowsAreListed /\ OnlyTheRestIsLost /\ NumbersIdentify
=============================================================================
