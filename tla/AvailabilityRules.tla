-------------------------- MODULE AvailabilityRules --------------------------
(***************************************************************************)
(* The comparisons of time ranges behind the moderators' availability: the *)
(* conflict of an availability with an interview, the overlap query, the   *)
(* nesting query and the merging of the cells of an imported sheet.  Times *)
(* are integers (a grid of minutes), a range has a from and a to.          *)
(***************************************************************************)
EXTENDS Integers, FiniteSets, SequencesExt

\* Mutant: the buffer is not reckoned with at the ends of the range.
Conflicts_NoEnds(r, i, b) ==
  \/ i.from - b <= r.from /\ i.to + b >= r.to
  \/ i.from >= r.from /\ i.to <= r.to
  \/ i.from - b <= r.to /\ r.to = i.from
  \/ i.to + b >= r.from /\ i.to = r.from

\* IsValidAvailabilityMRA: range r conflicts with interview i, buffer b.  The
\* disjuncts are those of the query, in its order.
Conflicts(r, i, b) ==
  \/ i.from - b <= r.from /\ i.to + b >= r.to
  \/ i.from >= r.from /\ i.to <= r.to
  \/ i.from > r.from /\ i.to <= r.to
  \/ i.from >= r.from /\ i.to < r.to
  \/ i.from > r.from /\ i.to - b <= r.to
  \/ i.from + b >= r.from /\ i.to < r.to
  \/ i.from - b <= r.to /\ r.to = i.from
  \/ i.to + b >= r.from /\ i.to = r.from
  \/ i.from - b < r.to /\ r.from < i.from - b
  \/ i.to + b > r.from /\ r.to > i.from + b

\* Mutant: an imported row around the whole range is not found.
OverlapsInside_NotAround(r, row) ==
  \/ row.from >= r.from /\ row.from < r.to
  \/ row.to > r.from /\ row.to <= r.to

\* GetOverlappingImportedAvailabilityMRA: the imported rows that overlap row r.
OverlapsInside(r, row) ==
  \/ row.from >= r.from /\ row.from < r.to
  \/ row.to > r.from /\ row.to <= r.to
  \/ row.from < r.from /\ row.to > r.to

\* OverlappingAvailabilitiesMRA: the rows a new range is to be merged with.
Overlaps(r, row) ==
  \/ row.from >= r.from /\ row.from <= r.to
  \/ row.to >= r.from /\ row.to <= r.to
  \/ row.from <= r.from /\ row.to >= r.to

\* RemoveNestedAvailabilitiesMRA: the rows that lie within another row.
Nested(rows) ==
  {x \in rows : \E y \in rows :
     /\ x.from >= y.from /\ x.to <= y.to /\ x.from <= y.to
     /\ x # y}

\* What the rules are for: r comes closer to interview i than the buffer b,
\* two ranges overlap or touch.
Intrudes(r, i, b) == r.from < i.to + b /\ r.to > i.from - b
Meets(r, s) == r.from <= s.to /\ s.from <= r.to

\* The cells (units of time, each of length 1) that a set of ranges covers.
Cells(ranges) == UNION {r.from .. (r.to - 1) : r \in ranges}

-----------------------------------------------------------------------------
\* MergeOverlappingSlots: the slots of the sheet's cells, sorted, with each
\* slot that does not start after the last one's end joined to it.
MergeOverlappingSlots(cells) ==
  LET extend(merged, c) ==
        IF merged # <<>> /\ c <= Last(merged).to
        THEN [merged EXCEPT ![Len(merged)].to = c + 1]
        ELSE Append(merged, [from |-> c, to |-> c + 1])
  IN ToSet(FoldLeft(extend, <<>>, SetToSortSeq(cells, <)))
=============================================================================
