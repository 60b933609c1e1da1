--------------------- MODULE ModeratorAvailabilityProofs ---------------------
(***************************************************************************)
(* Proofs about the moderators' availability: what the comparisons of the  *)
(* queries amount to; that posted ranges stay away from interviews and     *)
(* from each other, whatever posts and deletions overlap and fail; that a  *)
(* deletion copies every imported row it meets; that merging keeps what    *)
(* was offered; and that a change of the buffer cuts all that it has to.   *)
(***************************************************************************)
EXTENDS ModeratorAvailability, FiniteSetTheorems, WellFoundedInduction, TLAPS

-----------------------------------------------------------------------------
(* The comparisons *)

\* The conflict query of IsValidAvailabilityMRA misses no range that comes
\* closer to the interview than the buffer, in whatever way it does.
THEOREM ConflictsMissNothing ==
  ASSUME NEW r \in [from : Int, to : Int], r.from < r.to,
         NEW i \in [from : Int, to : Int], i.from < i.to,
         NEW b \in Nat, Intrudes(r, i, b)
  PROVE  Conflicts(r, i, b)
BY DEF Intrudes, Conflicts

\* And it refuses no range without a reason: one that it refuses comes as
\* close to the interview as the buffer, or closer.
THEOREM ConflictsHaveReason ==
  ASSUME NEW r \in [from : Int, to : Int], r.from < r.to,
         NEW i \in [from : Int, to : Int], i.from < i.to,
         NEW b \in Nat, Conflicts(r, i, b)
  PROVE  r.from <= i.to + b /\ r.to >= i.from - b
BY DEF Conflicts

\* The three cases of OverlappingAvailabilitiesMRA are those of ranges that
\* overlap or touch.
THEOREM OverlapsIsMeets ==
  ASSUME NEW r \in [from : Int, to : Int], r.from < r.to,
         NEW s \in [from : Int, to : Int], s.from < s.to
  PROVE  Overlaps(r, s) <=> Meets(r, s)
BY DEF Overlaps, Meets

-----------------------------------------------------------------------------
(* Posted ranges stay away from interviews *)

Stored == [id : Nat, table : Tables, from : Nat, to : Nat]
Away(r) == \A i \in Interview : ~Intrudes(r, i, buffer)
Sound(r) == r.from < r.to /\ Away(r)

\* A range a post is going to create, or cannot.
Mergeable(m) == m.from = Zero \/ (m.from \in Nat /\ Sound(m))

Used == {"idle"} \cup Posting \cup Deleting \cup Final

AvailTypes ==
  /\ rows \subseteq Stored
  /\ nextId \in Nat
  /\ buffer \in Nat
  /\ pc \in [Call -> Used]
  /\ arg \in [Call -> AnyRange]
  /\ seen \in [Call -> SUBSET Stored]
  /\ todo \in [Call -> SUBSET Stored]
  /\ plan \in [Call -> [from : Nat \cup {Zero}, to : Nat, do : BOOLEAN]]
  /\ buf \in [Call -> Nat]

\* The rows are sound, and so is whatever a call is going to make a row of:
\* it has checked it with the buffer there is, or has read it from the rows.
AvailInv ==
  /\ AvailTypes
  /\ \A row \in rows : Sound(row)
  /\ \A c \in Call : pc[c] \in {"readBuffer", "conflicts", "overlaps"} => arg[c].from < arg[c].to
  /\ \A c \in Call : pc[c] = "conflicts" => buf[c] = buffer
  /\ \A c \in Call : pc[c] = "overlaps" => Away(arg[c])
  /\ \A c \in Call : pc[c] = "merge" =>
       /\ Mergeable(plan[c])
       /\ \A row \in todo[c] : Sound(row) /\ (plan[c].from # Zero => Meets(plan[c], row))
  /\ \A c \in Call : pc[c] = "copy" => \A row \in todo[c] : Sound(row)

InitialIsSound ==
  \A i \in Initial :
    /\ i.rows \subseteq Stored /\ IsFiniteSet(i.rows)
    /\ i.buffer \in Nat
    /\ \A r \in i.rows : r.from < r.to /\ \A v \in Interview : ~Intrudes(r, v, i.buffer)

\* Two ranges that meet and stay away from the interviews do so together.
LEMMA TogetherAway ==
  ASSUME buffer \in Nat,
         NEW r \in [from : Int, to : Int], NEW s \in [from : Int, to : Int],
         r.from < r.to, s.from < s.to, Away(r), Away(s),
         r.from <= s.from, s.from <= r.to,
         NEW u, u.from = r.from, u.to = s.to
  PROVE  Away(u)
<1> SUFFICES ASSUME NEW i \in Interview, Intrudes(u, i, buffer)
             PROVE  FALSE
  BY DEF Away
<1>1. i \in [from : Int, to : Int] /\ i.from < i.to
  BY InterviewAssumption
<1>2. ~Intrudes(r, i, buffer) /\ ~Intrudes(s, i, buffer)
  BY DEF Away
<1> QED
  BY <1>1, <1>2 DEF Intrudes

\* What a row makes of the range that is to be created.
LEMMA MergeIsSound ==
  ASSUME buffer \in Nat,
         NEW m \in [from : Nat \cup {Zero}, to : Nat, do : BOOLEAN], Mergeable(m),
         NEW row \in Stored, Sound(row), m.from # Zero => Meets(m, row)
  PROVE  /\ Merged(m, Parsed(row)) \in [from : Nat \cup {Zero}, to : Nat, do : BOOLEAN]
         /\ Mergeable(Merged(m, Parsed(row)))
         /\ Merged(m, Parsed(row)).from # Zero =>
              Merged(m, Parsed(row)).from <= m.from /\ m.to <= Merged(m, Parsed(row)).to
<1> DEFINE o == Parsed(row)
           n == Merged(m, o)
<1>1. CASE m.from = Zero
  BY <1>1 DEF Merged, Parsed, Within, Wraps, Span, Zero, Mergeable, Stored
<1>2. CASE m.from # Zero /\ ParseTime
  BY <1>2 DEF Merged, Parsed, Within, Wraps, Zero, Mergeable
<1>3. CASE m.from # Zero /\ ~ParseTime
  <2>1. m.from \in Nat /\ m.from < m.to /\ Away(m) /\ m.from <= row.to /\ row.from <= m.to
    BY <1>3 DEF Mergeable, Sound, Meets
  <2>2. o.from = row.from /\ o.to = row.to /\ row.from \in Nat /\ row.to \in Nat
    BY <1>3 DEF Parsed, Span, Stored
  <2>3. row.from < row.to /\ Away(row)
    BY DEF Sound
  <2>4. CASE Within(o, m) \/ Wraps(o, m)
    <3>1. n = m \/ n = [m EXCEPT !.do = FALSE]
      BY <2>4 DEF Merged
    <3>2. n.from = m.from /\ n.to = m.to /\ n \in [from : Nat \cup {Zero}, to : Nat, do : BOOLEAN]
      BY <3>1
    <3> QED
      BY <2>1, <3>2 DEF Mergeable, Sound, Away, Intrudes
  <2>5. CASE ~Within(o, m) /\ ~Wraps(o, m) /\ (o.from < m.from \/ o.to = m.from)
    <3>1. n = [m EXCEPT !.from = o.from]
      BY <2>5 DEF Merged
    <3>2. n.from = row.from /\ n.to = m.to /\ n \in [from : Nat \cup {Zero}, to : Nat, do : BOOLEAN]
      BY <2>2, <3>1
    <3>3. row.from <= m.from
      BY <2>1, <2>2, <2>3, <2>5
    <3>4. Away(n)
      <4> DEFINE r == [from |-> row.from, to |-> row.to]
                 s == [from |-> m.from, to |-> m.to]
      <4>1. Away(r) /\ Away(s)
        BY <2>1, <2>3 DEF Away, Intrudes
      <4> HIDE DEF n
      <4> QED
        BY <4>1, <2>1, <2>2, <2>3, <3>2, <3>3, TogetherAway
    <3> QED
      BY <2>1, <2>2, <3>2, <3>3, <3>4 DEF Mergeable, Sound
  <2>6. CASE ~Within(o, m) /\ ~Wraps(o, m) /\ ~(o.from < m.from \/ o.to = m.from)
    <3>1. n = [m EXCEPT !.to = o.to]
      BY <2>6 DEF Merged
    <3>2. n.from = m.from /\ n.to = row.to /\ n \in [from : Nat \cup {Zero}, to : Nat, do : BOOLEAN]
      BY <2>2, <3>1
    <3>3. m.from <= row.from /\ m.to < row.to
      BY <2>1, <2>2, <2>6 DEF Within
    <3>4. Away(n)
      <4> DEFINE r == [from |-> row.from, to |-> row.to]
                 s == [from |-> m.from, to |-> m.to]
      <4>1. Away(r) /\ Away(s)
        BY <2>1, <2>3 DEF Away, Intrudes
      <4> HIDE DEF n
      <4> QED
        BY <4>1, <2>1, <2>2, <2>3, <3>2, <3>3, TogetherAway
    <3> QED
      BY <2>1, <2>2, <3>2, <3>3, <3>4 DEF Mergeable, Sound
  <2> QED
    BY <2>4, <2>5, <2>6
<1> QED
  BY <1>1, <1>2, <1>3

-----------------------------------------------------------------------------
LEMMA InitAvail ==
  ASSUME InitialIsSound, Init
  PROVE  AvailInv
<1>1. PICK i \in Initial : rows = i.rows /\ buffer = i.buffer
  BY DEF Init
<1>2. rows \subseteq Stored /\ IsFiniteSet(rows) /\ buffer \in Nat /\ \A r \in rows : Sound(r)
  BY <1>1 DEF InitialIsSound, Sound, Away
<1>3. Cardinality(rows) \in Nat
  BY <1>2, FS_CardinalityType
<1>4. nextId \in Nat
  BY <1>3 DEF Init
<1>5. 0 \in Times /\ DefaultBuffer \in Nat
  BY TimesAssumption DEF Times
<1>6. AvailTypes
  <2>1. pc \in [Call -> Used] /\ seen \in [Call -> SUBSET Stored] /\ todo \in [Call -> SUBSET Stored]
    BY DEF Init, Used
  <2>2. arg \in [Call -> AnyRange]
    BY <1>5 DEF Init, AnyRange
  <2>3. plan \in [Call -> [from : Nat \cup {Zero}, to : Nat, do : BOOLEAN]]
    BY DEF Init
  <2>4. buf \in [Call -> Nat]
    BY <1>5 DEF Init
  <2> QED
    BY <1>2, <1>4, <2>1, <2>2, <2>3, <2>4 DEF AvailTypes
<1> QED
  BY <1>2, <1>6 DEF AvailInv, Init

\* A call that begins stores its request, with its range the right way round.
LEMMA BeginsAvail ==
  ASSUME AvailInv, Kinds \subseteq {"post", "remove", "delete"}, "read" \notin Faults,
         NEW c \in Call, CallBegins(c)
  PROVE  AvailInv'
<1>1. CASE \E r \in TimeRange : PostBegins(c, r)
  <2>1. PICK r \in TimeRange : PostBegins(c, r)
    BY <1>1
  <2>2. /\ UNCHANGED <<tables, seen, todo, plan, buf>>
        /\ arg' = [arg EXCEPT ![c] = r]
        /\ pc' = [pc EXCEPT ![c] = "refused"] \/ pc' = [pc EXCEPT ![c] = "readBuffer"]
    BY <2>1 DEF PostBegins, CheckCalendar, Goto
  <2>3. r \in AnyRange /\ r.from < r.to
    BY DEF TimeRange
  <2>4. arg' \in [Call -> AnyRange] /\ arg'[c] = r /\ \A d \in Call \ {c} : arg'[d] = arg[d]
    BY <2>2, <2>3 DEF AvailInv, AvailTypes
  <2>5. pc' \in [Call -> Used] /\ pc'[c] \in {"refused", "readBuffer"}
        /\ \A d \in Call \ {c} : pc'[d] = pc[d]
    BY <2>2 DEF AvailInv, AvailTypes, Used, Final, Posting
  <2> QED
    BY <2>2, <2>3, <2>4, <2>5 DEF AvailInv, AvailTypes, Sound, Away, Mergeable, tables
<1>2. CASE \E row \in rows : DeleteModeratorAvailability(c, row)
  <2>1. /\ rows' \subseteq rows
        /\ UNCHANGED <<nextId, calendar, buffer, arg, seen, todo, plan, buf>>
        /\ pc' = [pc EXCEPT ![c] = "removed"]
    BY <1>2 DEF DeleteModeratorAvailability, Goto, Without
  <2>2. pc' \in [Call -> Used] /\ pc'[c] = "removed" /\ \A d \in Call \ {c} : pc'[d] = pc[d]
    BY <2>1 DEF AvailInv, AvailTypes, Used, Final
  <2> QED
    BY <2>1, <2>2 DEF AvailInv, AvailTypes, Sound, Away, Mergeable
<1>3. CASE \E row \in rows : DeleteFinds(c, row)
  <2>1. PICK row \in rows : DeleteFinds(c, row)
    BY <1>3
  <2>2. /\ UNCHANGED <<tables, arg, todo, plan, buf>>
        /\ seen' = [seen EXCEPT ![c] = {row}]
        /\ pc' = [pc EXCEPT ![c] = "deleteCalendar"]
    BY <2>1 DEF DeleteFinds, Goto
  <2>3. pc' \in [Call -> Used] /\ pc'[c] = "deleteCalendar" /\ \A d \in Call \ {c} : pc'[d] = pc[d]
    BY <2>2 DEF AvailInv, AvailTypes, Used, Deleting
  <2>4. seen' \in [Call -> SUBSET Stored]
    BY <2>2 DEF AvailInv, AvailTypes
  <2> QED
    BY <2>2, <2>3, <2>4 DEF AvailInv, AvailTypes, Sound, Away, Mergeable, tables
<1> QED
  BY <1>1, <1>2, <1>3 DEF CallBegins, Begin, PostModeratorAvailability, UpdateFinds, BufferSets,
     ImportBegins, UnlinkBegins

LEMMA PostChecksAvail ==
  ASSUME AvailInv, "read" \notin Faults, NEW c \in Call,
         PostReadsBuffer(c) \/ PostChecksConflicts(c) \/ PostReadsOverlapping(c)
  PROVE  AvailInv'
<1>1. CASE PostReadsBuffer(c)
  <2>1. /\ UNCHANGED <<tables, arg, seen, todo, plan>>
        /\ buf' = [buf EXCEPT ![c] = buffer]
        /\ pc' = [pc EXCEPT ![c] = "conflicts"]
        /\ pc[c] = "readBuffer"
    BY <1>1 DEF PostReadsBuffer, Goto, At
  <2>2. pc' \in [Call -> Used] /\ pc'[c] = "conflicts" /\ \A d \in Call \ {c} : pc'[d] = pc[d]
    BY <2>1 DEF AvailInv, AvailTypes, Used, Posting
  <2>3. buf' \in [Call -> Nat] /\ buf'[c] = buffer /\ \A d \in Call \ {c} : buf'[d] = buf[d]
    BY <2>1 DEF AvailInv, AvailTypes
  <2> QED
    BY <2>1, <2>2, <2>3 DEF AvailInv, AvailTypes, Sound, Away, Mergeable, tables
<1>2. CASE PostChecksConflicts(c)
  <2>1. /\ UNCHANGED <<tables, arg, seen, todo, plan, buf>>
        /\ pc[c] = "conflicts"
        /\ \/ pc' = [pc EXCEPT ![c] = "refused"]
           \/ pc' = [pc EXCEPT ![c] = "overlaps"] /\ \A i \in Interview : ~Conflicts(arg[c], i, buf[c])
    BY <1>2 DEF PostChecksConflicts, Goto, At
  <2>2. pc' \in [Call -> Used] /\ pc'[c] \in {"refused", "overlaps"} /\ \A d \in Call \ {c} : pc'[d] = pc[d]
    BY <2>1 DEF AvailInv, AvailTypes, Used, Posting, Final
  <2>3. arg[c] \in [from : Int, to : Int] /\ arg[c].from < arg[c].to /\ buf[c] = buffer /\ buffer \in Nat
    BY <2>1, TimesAssumption DEF AvailInv, AvailTypes, AnyRange, Times
  <2>4. pc'[c] = "overlaps" => Away(arg[c])
    <3> SUFFICES ASSUME pc'[c] = "overlaps", NEW i \in Interview, Intrudes(arg[c], i, buffer)
                 PROVE  FALSE
      BY DEF Away
    <3>1. ~Conflicts(arg[c], i, buffer)
      BY <2>1, <2>3 DEF AvailInv, AvailTypes
    <3> QED
      BY <3>1, <2>3, InterviewAssumption, ConflictsMissNothing
  <2> QED
    BY <2>1, <2>2, <2>3, <2>4 DEF AvailInv, AvailTypes, Sound, Away, Mergeable, tables
<1>3. CASE PostReadsOverlapping(c)
  <2> DEFINE near == {r \in InTable("manual") : Overlaps(arg[c], r)}
             new == [from |-> arg[c].from, to |-> arg[c].to, do |-> TRUE]
  <2>1. /\ UNCHANGED <<tables, arg, seen, buf>>
        /\ pc[c] = "overlaps"
        /\ pc' = [pc EXCEPT ![c] = "merge"]
        /\ todo' = [todo EXCEPT ![c] = near]
        /\ plan' = [plan EXCEPT ![c] = new]
    BY <1>3 DEF PostReadsOverlapping, Goto, At
  <2>2. pc' \in [Call -> Used] /\ pc'[c] = "merge" /\ \A d \in Call \ {c} : pc'[d] = pc[d]
    BY <2>1 DEF AvailInv, AvailTypes, Used, Posting
  <2>3. arg[c] \in [from : Nat, to : Nat] /\ arg[c].from < arg[c].to /\ Away(arg[c])
    BY <2>1, TimesAssumption DEF AvailInv, AvailTypes, AnyRange, Times
  <2>4. near \subseteq rows
    BY DEF InTable
  <2>5. todo' \in [Call -> SUBSET Stored] /\ todo'[c] = near /\ \A d \in Call \ {c} : todo'[d] = todo[d]
    BY <2>1, <2>4 DEF AvailInv, AvailTypes
  <2>6. plan' \in [Call -> [from : Nat \cup {Zero}, to : Nat, do : BOOLEAN]]
        /\ plan'[c] = new /\ \A d \in Call \ {c} : plan'[d] = plan[d]
    BY <2>1, <2>3 DEF AvailInv, AvailTypes
  <2>7. \A row \in near : Sound(row) /\ Meets(new, row)
    <3> SUFFICES ASSUME NEW row \in near
                 PROVE  Sound(row) /\ Meets(new, row)
      OBVIOUS
    <3>1. Sound(row) /\ row \in [id : Nat, table : Tables, from : Nat, to : Nat]
      BY <2>4 DEF AvailInv, AvailTypes, Stored
    <3>2. Overlaps(arg[c], row)
      OBVIOUS
    <3> QED
      BY <3>1, <3>2, <2>3 DEF Overlaps, Meets, Sound
  <2>8. Mergeable(new)
    BY <2>3 DEF Mergeable, Sound, Away, Intrudes
  <2> HIDE DEF near, new
  <2> QED
    BY <2>1, <2>2, <2>5, <2>6, <2>7, <2>8 DEF AvailInv, AvailTypes, Sound, Away, Mergeable, tables
<1> QED
  BY <1>1, <1>2, <1>3

LEMMA PostMergesAvail ==
  ASSUME AvailInv, NEW c \in Call, NEW row \in todo[c], PostMerges(c, row)
  PROVE  AvailInv'
<1> DEFINE n == Merged(plan[c], Parsed(row))
<1>1. /\ UNCHANGED <<nextId, calendar, buffer, pc, arg, seen, buf>>
      /\ pc[c] = "merge"
      /\ plan' = [plan EXCEPT ![c] = n]
      /\ todo' = [todo EXCEPT ![c] = @ \ {row}]
      /\ rows' \subseteq rows
  BY DEF PostMerges, At, Without
<1>2. /\ row \in Stored /\ Sound(row) /\ Mergeable(plan[c]) /\ buffer \in Nat
      /\ plan[c] \in [from : Nat \cup {Zero}, to : Nat, do : BOOLEAN]
      /\ plan[c].from # Zero => Meets(plan[c], row)
  BY <1>1 DEF AvailInv, AvailTypes
<1>3. /\ n \in [from : Nat \cup {Zero}, to : Nat, do : BOOLEAN]
      /\ Mergeable(n)
      /\ n.from # Zero => n.from <= plan[c].from /\ plan[c].to <= n.to
  BY <1>2, MergeIsSound
<1> HIDE DEF n
<1>4. plan' \in [Call -> [from : Nat \cup {Zero}, to : Nat, do : BOOLEAN]]
      /\ plan'[c] = n /\ \A d \in Call \ {c} : plan'[d] = plan[d]
  BY <1>1, <1>3 DEF AvailInv, AvailTypes
<1>5. todo' \in [Call -> SUBSET Stored] /\ \A d \in Call : todo'[d] \subseteq todo[d]
  BY <1>1 DEF AvailInv, AvailTypes
<1>6. n.from # Zero => \A x \in todo[c] : Meets(n, x)
  <2> SUFFICES ASSUME n.from # Zero, NEW x \in todo[c]
               PROVE  Meets(n, x)
    OBVIOUS
  <2>1. plan[c].from # Zero
    BY <1>2, <1>3 DEF Zero
  <2>2. x \in Stored /\ Meets(plan[c], x)
    BY <1>1, <2>1 DEF AvailInv, AvailTypes
  <2> QED
    BY <2>1, <2>2, <1>2, <1>3 DEF Meets, Stored
<1>8. AvailTypes'
  BY <1>1, <1>4, <1>5 DEF AvailInv, AvailTypes
<1>9. \A d \in Call : pc'[d] = "merge" =>
        /\ Mergeable(plan'[d])
        /\ \A x \in todo'[d] : Sound(x) /\ (plan'[d].from # Zero => Meets(plan'[d], x))
  BY <1>1, <1>3, <1>4, <1>5, <1>6 DEF AvailInv
<1> QED
  BY <1>1, <1>5, <1>8, <1>9 DEF AvailInv, Sound, Away, Mergeable

\* An inserted row, and what it takes for it to be one of those stored.
LEMMA InsertAvail ==
  ASSUME AvailTypes, NEW t \in Tables, NEW r, r.from \in Nat, r.to \in Nat, Insert(t, r),
         \A row \in rows : Sound(row), r.from < r.to, Away(r)
  PROVE  rows' \subseteq Stored /\ nextId' \in Nat /\ \A row \in rows' : Sound(row)
<1> DEFINE new == [id |-> nextId, table |-> t, from |-> r.from, to |-> r.to]
<1>1. rows' = rows \cup {new} /\ nextId' = nextId + 1
  BY DEF Insert
<1>2. new \in Stored /\ new.from = r.from /\ new.to = r.to
  BY DEF AvailTypes, Stored
<1>3. Sound(new)
  BY <1>2 DEF Sound, Away, Intrudes
<1> QED
  BY <1>1, <1>2, <1>3 DEF AvailTypes

LEMMA PostEndsAvail ==
  ASSUME AvailInv, NEW c \in Call, PostCreates(c) \/ PostCreateRefused(c)
  PROVE  AvailInv'
<1>1. /\ UNCHANGED <<calendar, buffer, arg, seen, todo, plan, buf>>
      /\ pc[c] = "merge"
      /\ pc' = [pc EXCEPT ![c] = "posted"] \/ pc' = [pc EXCEPT ![c] = "failed"]
      /\ \/ UNCHANGED <<rows, nextId>>
         \/ plan[c].from # Zero /\ Insert("manual", plan[c])
  BY DEF PostCreates, PostCreateRefused, Goto, At, tables
<1>2. pc' \in [Call -> Used] /\ pc'[c] \in {"posted", "failed"} /\ \A d \in Call \ {c} : pc'[d] = pc[d]
  BY <1>1 DEF AvailInv, AvailTypes, Used, Final
<1>3. rows' \subseteq Stored /\ nextId' \in Nat /\ \A row \in rows' : Sound(row)
  <2>1. CASE UNCHANGED <<rows, nextId>>
    BY <2>1 DEF AvailInv, AvailTypes
  <2>2. CASE plan[c].from # Zero /\ Insert("manual", plan[c])
    <3>1. plan[c].from \in Nat /\ plan[c].to \in Nat /\ plan[c].from < plan[c].to /\ Away(plan[c])
      BY <1>1, <2>2 DEF AvailInv, AvailTypes, Mergeable, Sound
    <3> QED
      BY <2>2, <3>1, InsertAvail DEF AvailInv, Tables
  <2> QED
    BY <1>1, <2>1, <2>2
<1> QED
  BY <1>1, <1>2, <1>3 DEF AvailInv, AvailTypes, Sound, Away, Mergeable

LEMMA DeleteStepsAvail ==
  ASSUME AvailInv, "read" \notin Faults, NEW c \in Call,
         \/ DeleteChecksCalendar(c) \/ DeleteReadsImported(c)
         \/ \E imp \in todo[c] : DeleteCopies(c, imp)
         \/ DeleteRow(c)
  PROVE  AvailInv'
<1>1. CASE DeleteChecksCalendar(c)
  <2>1. /\ UNCHANGED <<tables, arg, seen, todo, plan, buf>>
        /\ pc' = [pc EXCEPT ![c] = "refused"] \/ pc' = [pc EXCEPT ![c] = "deleteImported"]
    BY <1>1 DEF DeleteChecksCalendar, CheckCalendar, Goto
  <2>2. pc' \in [Call -> Used] /\ pc'[c] \in {"refused", "deleteImported"}
        /\ \A d \in Call \ {c} : pc'[d] = pc[d]
    BY <2>1 DEF AvailInv, AvailTypes, Used, Final, Deleting
  <2> QED
    BY <2>1, <2>2 DEF AvailInv, AvailTypes, Sound, Away, Mergeable, tables
<1>2. CASE DeleteReadsImported(c)
  <2>1. PICK row \in seen[c] :
          todo' = [todo EXCEPT ![c] = {r \in InTable("imported") : OverlapsInside(row, r)}]
    BY <1>2 DEF DeleteReadsImported
  <2>2. UNCHANGED <<tables, arg, seen, plan, buf>> /\ pc' = [pc EXCEPT ![c] = "copy"]
    BY <1>2 DEF DeleteReadsImported, Goto
  <2>3. pc' \in [Call -> Used] /\ pc'[c] = "copy" /\ \A d \in Call \ {c} : pc'[d] = pc[d]
    BY <2>2 DEF AvailInv, AvailTypes, Used, Deleting
  <2>4. todo' \in [Call -> SUBSET Stored] /\ todo'[c] \subseteq rows /\ \A d \in Call \ {c} : todo'[d] = todo[d]
    BY <2>1 DEF AvailInv, AvailTypes, InTable
  <2> QED
    BY <2>2, <2>3, <2>4 DEF AvailInv, AvailTypes, Sound, Away, Mergeable, tables
<1>3. CASE \E imp \in todo[c] : DeleteCopies(c, imp)
  <2>1. PICK imp \in todo[c] : DeleteCopies(c, imp)
    BY <1>3
  <2>2. /\ UNCHANGED <<calendar, buffer, pc, arg, seen, plan, buf>>
        /\ pc[c] = "copy"
        /\ todo' = [todo EXCEPT ![c] = @ \ {imp}]
        /\ UNCHANGED <<rows, nextId>> \/ Insert("manual", imp)
    BY <2>1 DEF DeleteCopies, At
  <2>3. imp \in Stored /\ Sound(imp)
    BY <2>2 DEF AvailInv, AvailTypes
  <2>4. rows' \subseteq Stored /\ nextId' \in Nat /\ \A row \in rows' : Sound(row)
    <3>1. CASE UNCHANGED <<rows, nextId>>
      BY <3>1 DEF AvailInv, AvailTypes
    <3>2. CASE Insert("manual", imp)
      BY <2>3, <3>2, InsertAvail DEF AvailInv, Tables, Stored, Sound
    <3> QED
      BY <2>2, <3>1, <3>2
  <2>5. todo' \in [Call -> SUBSET Stored] /\ \A d \in Call : todo'[d] \subseteq todo[d]
    BY <2>2 DEF AvailInv, AvailTypes
  <2> QED
    BY <2>2, <2>4, <2>5 DEF AvailInv, AvailTypes, Sound, Away, Mergeable
<1>4. CASE DeleteRow(c)
  <2>1. /\ UNCHANGED <<nextId, calendar, buffer, arg, seen, todo, plan, buf>>
        /\ rows' \subseteq rows
        /\ pc' = [pc EXCEPT ![c] = "deleted"]
    BY <1>4 DEF DeleteRow, Goto, Without
  <2>2. pc' \in [Call -> Used] /\ pc'[c] = "deleted" /\ \A d \in Call \ {c} : pc'[d] = pc[d]
    BY <2>1 DEF AvailInv, AvailTypes, Used, Final
  <2> QED
    BY <2>1, <2>2 DEF AvailInv, AvailTypes, Sound, Away, Mergeable
<1> QED
  BY <1>1, <1>2, <1>3, <1>4

\* A fault changes nothing but where calls are, and leads to an end.
LEMMA FaultsAvail ==
  ASSUME AvailInv, (\E c \in Call : CallFails(c) \/ ImportTimesOut(c)) \/ Crash
  PROVE  AvailInv'
<1>1. /\ UNCHANGED <<tables, arg, seen, todo, plan, buf>>
      /\ pc' \in [Call -> Used]
      /\ \A d \in Call : pc'[d] = pc[d] \/ pc'[d] \in Final
  <2>1. ASSUME NEW c \in Call, CallFails(c) \/ ImportTimesOut(c)
        PROVE  /\ UNCHANGED <<tables, arg, seen, todo, plan, buf>>
               /\ pc' = [pc EXCEPT ![c] = "failed"] \/ pc' = [pc EXCEPT ![c] = "importLost"]
    BY <2>1 DEF CallFails, ImportTimesOut, Goto
  <2>2. CASE \E c \in Call : CallFails(c) \/ ImportTimesOut(c)
    <3>1. PICK c \in Call : CallFails(c) \/ ImportTimesOut(c)
      BY <2>2
    <3> QED
      BY <2>1, <3>1 DEF AvailInv, AvailTypes, Used, Final
  <2>3. CASE Crash
    BY <2>3 DEF Crash, AvailInv, AvailTypes, Used, Final
  <2> QED
    BY <2>2, <2>3
<1> QED
  BY <1>1 DEF AvailInv, AvailTypes, Sound, Away, Mergeable, tables, Final

\* The steps that posts and deletions take.
LEMMA StepsOfPosts ==
  ASSUME AvailInv, NEW c \in Call, CallSteps(c)
  PROVE  \/ PostReadsBuffer(c) \/ PostChecksConflicts(c) \/ PostReadsOverlapping(c)
         \/ (\E row \in todo[c] : PostMerges(c, row)) \/ PostCreates(c) \/ PostCreateRefused(c)
         \/ DeleteChecksCalendar(c) \/ DeleteReadsImported(c)
         \/ (\E imp \in todo[c] : DeleteCopies(c, imp)) \/ DeleteRow(c)
<1>1. pc[c] \in Used
  BY DEF AvailInv, AvailTypes
<1> QED
  BY <1>1 DEF CallSteps, Used, Posting, Deleting, Final, At, Tables,
     UpdateReadsBuffer, UpdateChecksConflicts, UpdateWrites, BufferLists, BufferCleansUp,
     BufferRemovesNested, BufferTakes, BufferTableDone, BufferReadsForStart, BufferReadsForEnd,
     BufferErases, BufferSetsStart, BufferSetsEnd, ImportSetsStatus, ImportClears, ImportFetches,
     ImportFetchFails, ImportInserts, ImportCompletes, UnlinkDeletesRows, UnlinkDeletesStatus

LEMMA NextAvail ==
  ASSUME AvailInv, Kinds \subseteq {"post", "remove", "delete"}, "read" \notin Faults, [Next]_vars
  PROVE  AvailInv'
<1>1. CASE UNCHANGED vars
  BY <1>1 DEF vars, tables, callVars, AvailInv, AvailTypes, Sound, Away, Mergeable
<1>2. CASE (\E c \in Call : CallFails(c) \/ ImportTimesOut(c)) \/ Crash
  BY <1>2, FaultsAvail
<1>3. ASSUME NEW c \in Call, CallBegins(c)
      PROVE  AvailInv'
  BY <1>3, BeginsAvail
<1>4. ASSUME NEW c \in Call, CallSteps(c)
      PROVE  AvailInv'
  <2>1. \/ PostReadsBuffer(c) \/ PostChecksConflicts(c) \/ PostReadsOverlapping(c)
        \/ (\E row \in todo[c] : PostMerges(c, row)) \/ PostCreates(c) \/ PostCreateRefused(c)
        \/ DeleteChecksCalendar(c) \/ DeleteReadsImported(c)
        \/ (\E imp \in todo[c] : DeleteCopies(c, imp)) \/ DeleteRow(c)
    BY <1>4, StepsOfPosts
  <2> QED
    BY <2>1, PostChecksAvail, PostMergesAvail, PostEndsAvail, DeleteStepsAvail
<1> QED
  BY <1>1, <1>2, <1>3, <1>4 DEF Next

\* However posts and deletions overlap, and whatever statement, deletion or
\* process fails, no range the moderator offers comes closer to an interview
\* than the buffer: the check of PostModeratorAvailabilityMRA and its merging
\* are enough.  The buffer is read (a failed read would give 15 minutes).
THEOREM PostsAvoidInterviews ==
  ASSUME InitialIsSound, Kinds \subseteq {"post", "remove", "delete"}, "read" \notin Faults
  PROVE  Spec => []RowsAvoidInterviews
<1>1. Init => AvailInv
  BY InitAvail
<1>2. AvailInv /\ [Next]_vars => AvailInv'
  BY NextAvail
<1>3. AvailInv => RowsAvoidInterviews
  BY DEF AvailInv, RowsAvoidInterviews, Sound, Away
<1> QED
  BY <1>1, <1>2, <1>3, PTL DEF Spec

-----------------------------------------------------------------------------
(* Posted ranges stay apart *)

InitialIsApart ==
  \A i \in Initial :
    /\ \A x \in i.rows : x.table = "manual"
    /\ \A x, y \in i.rows : x # y => ~Meets(x, y)

OneAtATime == \A c, d \in Call : Running(c) /\ Running(d) => c = d

\* A range to be created meets no row but those it is still to be merged with,
\* which are apart from all others.
MergeIsApart(c) ==
  /\ plan[c].from # Zero
  /\ \A row \in todo[c], r \in rows : row # r => ~Meets(row, r)
  /\ plan[c].do => \A r \in rows \ todo[c] : ~Meets(plan[c], r)

ApartInv ==
  /\ AvailInv
  /\ \A r \in rows : r.table = "manual"
  /\ \A x, y \in rows : x # y => ~Meets(x, y)
  /\ OneAtATime
  /\ \A c \in Call : pc[c] = "merge" => MergeIsApart(c)
  /\ \A c \in Call : pc[c] = "copy" => todo[c] = {}

\* The positions are words of their own.
LEMMA ActiveIs ==
  /\ {"readBuffer", "conflicts", "overlaps", "merge", "deleteCalendar", "deleteImported", "copy"} \subseteq Active
  /\ Active \cap (Final \cup {"idle"}) = {}
BY DEF Active, Posting, Updating, Deleting, Adjusting, Starting, Importing, Unlinking, Final

\* Whatever meets neither a range nor a row does not meet what the two make.
LEMMA MergeMeetsNoOther ==
  ASSUME ~ParseTime,
         NEW m \in [from : Nat \cup {Zero}, to : Nat, do : BOOLEAN], m.from # Zero, m.from < m.to,
         NEW row \in Stored, row.from < row.to, Meets(m, row)
  PROVE  /\ Merged(m, Parsed(row)).from # Zero
         /\ Wraps(Parsed(row), m) => ~Merged(m, Parsed(row)).do
         /\ Merged(m, Parsed(row)).do =>
              /\ m.do
              /\ \A z \in Stored : z.from < z.to /\ ~Meets(m, z) /\ ~Meets(row, z) => ~Meets(Merged(m, Parsed(row)), z)
<1> DEFINE o == Parsed(row)
           n == Merged(m, o)
<1>1. /\ o.from = row.from /\ o.to = row.to /\ row.from \in Nat /\ row.to \in Nat
      /\ m.from \in Nat /\ m.to \in Nat /\ m.from <= row.to /\ row.from <= m.to
  BY DEF Parsed, Span, Stored, Meets
<1>2. \/ n = m /\ ~Wraps(o, m)
      \/ n = [m EXCEPT !.do = FALSE]
      \/ n = [m EXCEPT !.from = o.from] /\ ~Wraps(o, m)
      \/ n = [m EXCEPT !.to = o.to] /\ ~Wraps(o, m)
  BY <1>1 DEF Merged, Within, Wraps
<1> HIDE DEF n, o
<1>3. \/ n.do = m.do /\ ~Wraps(o, m) /\ n.from \in {m.from, row.from} /\ n.to \in {m.to, row.to}
      \/ ~n.do /\ n.from = m.from
  BY <1>1, <1>2
<1>4. n.from # Zero
  BY <1>1, <1>3 DEF Zero
<1>5. ASSUME n.do, NEW z \in Stored, z.from < z.to, ~Meets(m, z), ~Meets(row, z), Meets(n, z)
      PROVE  FALSE
  <2>1. z.from \in Nat /\ z.to \in Nat
    BY DEF Stored
  <2>2. ~(m.from <= z.to /\ z.from <= m.to) /\ ~(row.from <= z.to /\ z.from <= row.to)
        /\ n.from <= z.to /\ z.from <= n.to
    BY <1>5 DEF Meets
  <2> QED
    BY <1>1, <1>3, <1>5, <2>1, <2>2
<1> QED
  BY <1>3, <1>4, <1>5 DEF n, o

\* A step of a call that writes nothing, and is not at the merging of rows after it.
LEMMA QuietStepApart ==
  ASSUME ApartInv, AvailInv', NEW c \in Call,
         rows' \subseteq rows, UNCHANGED plan,
         \A d \in Call \ {c} : pc'[d] = pc[d] /\ todo'[d] = todo[d],
         Running(c) \/ Quiet,
         pc'[c] # "merge", pc'[c] = "copy" => todo'[c] = {}
  PROVE  ApartInv'
<1>1. \A d \in Call \ {c} : ~Running(d)
  BY DEF ApartInv, OneAtATime, Quiet
<1>2. \A d \in Call \ {c} : pc[d] \notin {"merge", "copy"}
  BY <1>1, ActiveIs DEF Running
<1>3. OneAtATime'
  BY <1>1 DEF OneAtATime, Running
<1>4. \A x, y \in rows' : x # y => ~Meets(x, y)
  BY DEF ApartInv
<1>5. \A r \in rows' : r.table = "manual"
  BY DEF ApartInv
<1>6. \A d \in Call : pc'[d] # "merge" /\ (pc'[d] = "copy" => todo'[d] = {})
  BY <1>2
<1> QED
  BY <1>3, <1>4, <1>5, <1>6 DEF ApartInv

\* The rows that the query finds are all that meet the range.
LEMMA PostReadsOverlappingApart ==
  ASSUME ApartInv, AvailInv', NEW c \in Call, PostReadsOverlapping(c)
  PROVE  ApartInv'
<1> DEFINE near == {r \in InTable("manual") : Overlaps(arg[c], r)}
           new == [from |-> arg[c].from, to |-> arg[c].to, do |-> TRUE]
<1>1. /\ UNCHANGED <<rows, arg>>
      /\ pc[c] = "overlaps"
      /\ pc' = [pc EXCEPT ![c] = "merge"]
      /\ todo' = [todo EXCEPT ![c] = near]
      /\ plan' = [plan EXCEPT ![c] = new]
  BY DEF PostReadsOverlapping, Goto, At, tables
<1>2. /\ pc'[c] = "merge" /\ todo'[c] = near /\ plan'[c] = new
      /\ \A d \in Call \ {c} : pc'[d] = pc[d]
  BY <1>1 DEF ApartInv, AvailInv, AvailTypes
<1>3. arg[c] \in [from : Nat, to : Nat] /\ arg[c].from < arg[c].to
  BY <1>1, TimesAssumption DEF ApartInv, AvailInv, AvailTypes, AnyRange, Times
<1>4. \A r \in rows \ near : ~Meets(new, r)
  <2> SUFFICES ASSUME NEW r \in rows \ near
               PROVE  ~Meets(new, r)
    OBVIOUS
  <2>1. r \in Stored /\ r.from < r.to /\ r.table = "manual"
    BY DEF ApartInv, AvailInv, AvailTypes, Sound
  <2>2. ~Overlaps(arg[c], r)
    BY <2>1 DEF InTable
  <2> QED
    BY <1>3, <2>1, <2>2 DEF Overlaps, Meets, Stored
<1>5. new.from # Zero /\ near \subseteq rows
  BY <1>3 DEF Zero, InTable
<1> HIDE DEF near, new
<1>6. MergeIsApart(c)'
  BY <1>1, <1>2, <1>4, <1>5 DEF MergeIsApart, ApartInv, Meets
<1>7. Running(c) /\ \A d \in Call \ {c} : ~Running(d)
  BY <1>1, ActiveIs DEF ApartInv, OneAtATime, Running
<1>8. \A d \in Call \ {c} : pc'[d] \notin {"merge", "copy"}
  BY <1>2, <1>7, ActiveIs DEF Running
<1>9. OneAtATime'
  BY <1>2, <1>7 DEF OneAtATime, Running
<1> QED
  BY <1>1, <1>2, <1>6, <1>8, <1>9 DEF ApartInv, Meets

\* A row is deleted as it is merged, or is around the range, which is not created.
LEMMA PostMergesApart ==
  ASSUME ApartInv, AvailInv', ~ParseTime, "statement" \notin Faults,
         NEW c \in Call, NEW row \in todo[c], PostMerges(c, row)
  PROVE  ApartInv'
<1> DEFINE n == Merged(plan[c], Parsed(row))
<1>1. /\ pc' = pc /\ pc[c] = "merge"
      /\ plan' = [plan EXCEPT ![c] = n]
      /\ todo' = [todo EXCEPT ![c] = @ \ {row}]
      /\ rows' = IF Wraps(Parsed(row), plan[c]) THEN rows ELSE Without(row)
  BY DEF PostMerges, At
<1>2. plan'[c] = n /\ todo'[c] = todo[c] \ {row} /\ rows' \subseteq rows
      /\ (Wraps(Parsed(row), plan[c]) \/ row \notin rows')
  BY <1>1 DEF ApartInv, AvailInv, AvailTypes, Without
<1>3. /\ row \in Stored /\ row.from < row.to
      /\ plan[c] \in [from : Nat \cup {Zero}, to : Nat, do : BOOLEAN]
      /\ plan[c].from # Zero /\ plan[c].from < plan[c].to /\ Meets(plan[c], row)
      /\ MergeIsApart(c)
  BY <1>1 DEF ApartInv, AvailInv, AvailTypes, MergeIsApart, Mergeable, Sound
<1>4. /\ n.from # Zero
      /\ Wraps(Parsed(row), plan[c]) => ~n.do
      /\ n.do => /\ plan[c].do
                 /\ \A z \in Stored : z.from < z.to /\ ~Meets(plan[c], z) /\ ~Meets(row, z) => ~Meets(n, z)
  BY <1>3, MergeMeetsNoOther
<1> HIDE DEF n
<1>5. ASSUME n.do, NEW z \in rows' \ todo'[c]
      PROVE  ~Meets(n, z)
  <2>1. z \in rows /\ z # row /\ z \notin todo[c]
    BY <1>2, <1>4, <1>5
  <2>2. z \in Stored /\ z.from < z.to
    BY <2>1 DEF ApartInv, AvailInv, AvailTypes, Sound
  <2>3. ~Meets(plan[c], z) /\ ~Meets(row, z)
    BY <1>3, <1>4, <1>5, <2>1 DEF MergeIsApart
  <2> QED
    BY <1>4, <1>5, <2>2, <2>3
<1>6. MergeIsApart(c)'
  <2>1. \A x \in todo'[c], r \in rows' : x # r => ~Meets(x, r)
    BY <1>2, <1>3 DEF MergeIsApart
  <2> QED
    BY <1>2, <1>4, <1>5, <2>1 DEF MergeIsApart, Meets
<1>7. \A d \in Call \ {c} : pc[d] \notin {"merge", "copy"}
  BY <1>1, ActiveIs DEF ApartInv, OneAtATime, Running
<1>8. OneAtATime'
  BY <1>1 DEF ApartInv, OneAtATime, Running
<1> QED
  BY <1>1, <1>2, <1>6, <1>7, <1>8 DEF ApartInv, Meets

\* Nothing is left that the range would meet when it is created.
LEMMA PostCreatesApart ==
  ASSUME ApartInv, AvailInv', NEW c \in Call, PostCreates(c)
  PROVE  ApartInv'
<1>1. /\ UNCHANGED <<todo, plan>>
      /\ pc[c] = "merge" /\ todo[c] = {}
      /\ pc' = [pc EXCEPT ![c] = "posted"]
      /\ IF plan[c].do THEN Insert("manual", plan[c]) ELSE UNCHANGED rows
  BY DEF PostCreates, Goto, At
<1>2. pc'[c] = "posted" /\ \A d \in Call \ {c} : pc'[d] = pc[d]
  BY <1>1 DEF ApartInv, AvailInv, AvailTypes
<1>3. Running(c) /\ \A d \in Call \ {c} : ~Running(d)
  BY <1>1, ActiveIs DEF ApartInv, OneAtATime, Running
<1>4. \A d \in Call : pc'[d] \notin {"merge", "copy"}
  BY <1>2, <1>3, ActiveIs DEF Running
<1>5. OneAtATime'
  BY <1>2, <1>3 DEF OneAtATime, Running
<1>6. (\A r \in rows' : r.table = "manual") /\ \A x, y \in rows' : x # y => ~Meets(x, y)
  <2>1. CASE ~plan[c].do
    BY <1>1, <2>1 DEF ApartInv
  <2>2. CASE plan[c].do
    <3> DEFINE new == [id |-> nextId, table |-> "manual", from |-> plan[c].from, to |-> plan[c].to]
    <3>1. rows' = rows \cup {new} /\ new.table = "manual" /\ new.from = plan[c].from /\ new.to = plan[c].to
      BY <1>1, <2>2 DEF Insert
    <3> HIDE DEF new
    <3>2. \A r \in rows : ~Meets(plan[c], r)
      BY <1>1, <2>2 DEF ApartInv, MergeIsApart
    <3>3. \A r \in rows : ~Meets(new, r) /\ ~Meets(r, new)
      BY <3>1, <3>2 DEF Meets
    <3> QED
      BY <3>1, <3>3 DEF ApartInv
  <2> QED
    BY <2>1, <2>2
<1> QED
  BY <1>4, <1>5, <1>6 DEF ApartInv

\* A call that begins finds none running.
LEMMA BeginsApart ==
  ASSUME ApartInv, AvailInv', ~Overlap, Kinds \subseteq {"post", "remove", "delete"}, "read" \notin Faults,
         NEW c \in Call, CallBegins(c)
  PROVE  ApartInv'
<1> DEFINE Begun ==
             /\ Quiet /\ rows' \subseteq rows /\ UNCHANGED <<plan, todo>>
             /\ \/ pc' = [pc EXCEPT ![c] = "refused"] \/ pc' = [pc EXCEPT ![c] = "readBuffer"]
                \/ pc' = [pc EXCEPT ![c] = "removed"] \/ pc' = [pc EXCEPT ![c] = "deleteCalendar"]
<1>1. Begun
  <2>1. ASSUME NEW r \in TimeRange, PostBegins(c, r)
        PROVE  Begun
    BY <2>1 DEF PostBegins, Begin, CheckCalendar, Goto, tables
  <2>2. ASSUME NEW row \in rows, DeleteModeratorAvailability(c, row)
        PROVE  Begun
    BY <2>2 DEF DeleteModeratorAvailability, Begin, Goto, Without
  <2>3. ASSUME NEW row \in rows, DeleteFinds(c, row)
        PROVE  Begun
    BY <2>3 DEF DeleteFinds, Begin, Goto, tables
  <2> QED
    BY <2>1, <2>2, <2>3 DEF CallBegins, Begin, PostModeratorAvailability, UpdateFinds, BufferSets,
       ImportBegins, UnlinkBegins
<1>2. pc'[c] \notin {"merge", "copy"} /\ \A d \in Call \ {c} : pc'[d] = pc[d]
  BY <1>1 DEF ApartInv, AvailInv, AvailTypes
<1> QED
  BY <1>1, <1>2, QuietStepApart

\* The other steps of a call, none of which creates a row.
LEMMA OtherStepsApart ==
  ASSUME ApartInv, AvailInv', "read" \notin Faults, NEW c \in Call,
         \/ PostReadsBuffer(c) \/ PostChecksConflicts(c) \/ PostCreateRefused(c)
         \/ DeleteChecksCalendar(c) \/ DeleteReadsImported(c) \/ DeleteRow(c)
  PROVE  ApartInv'
<1>1. /\ rows' \subseteq rows /\ UNCHANGED plan
      /\ pc[c] \in Active
      /\ \E l \in {"conflicts", "refused", "overlaps", "failed", "deleteImported", "copy", "deleted"} :
           /\ pc' = [pc EXCEPT ![c] = l]
           /\ \/ UNCHANGED todo /\ l # "copy"
              \/ todo' = [todo EXCEPT ![c] = {}]
  <2>1. InTable("imported") = {}
    BY DEF InTable, ApartInv
  <2>2. CASE PostReadsBuffer(c)
    BY <2>2, ActiveIs DEF PostReadsBuffer, Goto, At, tables
  <2>3. CASE PostChecksConflicts(c)
    BY <2>3, ActiveIs DEF PostChecksConflicts, Goto, At, tables
  <2>4. CASE PostCreateRefused(c)
    BY <2>4, ActiveIs DEF PostCreateRefused, Goto, At, tables
  <2>5. CASE DeleteChecksCalendar(c)
    BY <2>5, ActiveIs DEF DeleteChecksCalendar, CheckCalendar, Goto, At, tables
  <2>6. CASE DeleteReadsImported(c)
    <3>1. PICK row \in seen[c] : todo' = [todo EXCEPT ![c] = {r \in InTable("imported") : OverlapsInside(row, r)}]
      BY <2>6 DEF DeleteReadsImported
    <3>2. todo' = [todo EXCEPT ![c] = {}]
      BY <2>1, <3>1
    <3> QED
      BY <2>6, <3>2, ActiveIs DEF DeleteReadsImported, Goto, At, tables
  <2>7. CASE DeleteRow(c)
    BY <2>7, ActiveIs DEF DeleteRow, Goto, At, Without
  <2> QED
    BY <2>2, <2>3, <2>4, <2>5, <2>6, <2>7
<1>2. /\ pc'[c] # "merge" /\ (pc'[c] = "copy" => todo'[c] = {})
      /\ \A d \in Call \ {c} : pc'[d] = pc[d] /\ todo'[d] = todo[d]
  BY <1>1 DEF ApartInv, AvailInv, AvailTypes
<1> QED
  BY <1>1, <1>2, QuietStepApart DEF Running

LEMMA NextApart ==
  ASSUME ApartInv, ~ParseTime, ~Overlap, Kinds \subseteq {"post", "remove", "delete"},
         Faults \cap {"read", "statement"} = {}, [Next]_vars
  PROVE  ApartInv'
<1>1. AvailInv'
  BY NextAvail DEF ApartInv
<1>2. CASE UNCHANGED vars
  BY <1>1, <1>2 DEF vars, tables, callVars, ApartInv, OneAtATime, Running, MergeIsApart, Meets
<1>3. ASSUME NEW c \in Call, CallFails(c) \/ ImportTimesOut(c)
      PROVE  ApartInv'
  <2>1. /\ UNCHANGED <<rows, plan, todo>> /\ pc[c] \in Active
        /\ pc' = [pc EXCEPT ![c] = "importLost"]
    BY <1>3 DEF CallFails, ImportTimesOut, Goto, tables, Active
  <2>2. pc'[c] = "importLost" /\ \A d \in Call \ {c} : pc'[d] = pc[d]
    BY <2>1 DEF ApartInv, AvailInv, AvailTypes
  <2> QED
    BY <1>1, <2>1, <2>2, QuietStepApart DEF Running
<1>4. CASE Crash
  <2>1. /\ UNCHANGED <<rows, plan, todo>>
        /\ \A d \in Call : pc'[d] \notin Active
    BY <1>4, ActiveIs DEF Crash, tables, Running, Final
  <2>2. \A d \in Call : pc'[d] \notin {"merge", "copy"}
    BY <2>1, ActiveIs
  <2> QED
    BY <1>1, <2>1, <2>2 DEF ApartInv, OneAtATime, Running
<1>5. ASSUME NEW c \in Call, CallBegins(c)
      PROVE  ApartInv'
  BY <1>1, <1>5, BeginsApart
<1>6. ASSUME NEW c \in Call, CallSteps(c)
      PROVE  ApartInv'
  <2>1. \/ PostReadsBuffer(c) \/ PostChecksConflicts(c) \/ PostReadsOverlapping(c)
        \/ (\E row \in todo[c] : PostMerges(c, row)) \/ PostCreates(c) \/ PostCreateRefused(c)
        \/ DeleteChecksCalendar(c) \/ DeleteReadsImported(c)
        \/ (\E imp \in todo[c] : DeleteCopies(c, imp)) \/ DeleteRow(c)
    BY <1>6, StepsOfPosts DEF ApartInv
  <2>2. ~\E imp \in todo[c] : DeleteCopies(c, imp)
    BY DEF DeleteCopies, At, ApartInv
  <2> QED
    BY <1>1, <2>1, <2>2, PostReadsOverlappingApart, PostMergesApart, PostCreatesApart, OtherStepsApart
<1> QED
  BY <1>2, <1>3, <1>4, <1>5, <1>6 DEF Next

\* Where nothing is imported, posts and deletions that come one after the other
\* leave rows of which no two overlap or touch, however many rows a post merges
\* and in whatever order, even if the process ends in the middle of one
\* (PostModeratorAvailabilityMRA).  The rows' times must be parsed and no
\* statement fail.
THEOREM PostsKeepApart ==
  ASSUME InitialIsSound, InitialIsApart, ~ParseTime, ~Overlap,
         Kinds \subseteq {"post", "remove", "delete"}, Faults \cap {"read", "statement"} = {}
  PROVE  Spec => []RowsApart
<1>1. Init => ApartInv
  BY InitAvail DEF Init, InitialIsApart, ApartInv, OneAtATime, Running, Active, Posting, Updating, Deleting,
     Adjusting, Starting, Importing, Unlinking
<1>2. ApartInv /\ [Next]_vars => ApartInv'
  BY NextApart
<1>3. ApartInv => RowsApart
  BY DEF ApartInv, RowsApart
<1> QED
  BY <1>1, <1>2, <1>3, PTL DEF Spec

-----------------------------------------------------------------------------
(* A deletion copies what was imported *)

\* Ids are handed out once.
InitialIsNumbered ==
  \A i \in Initial :
    /\ \A r \in i.rows : r.id <= Cardinality(i.rows)
    /\ \A x, y \in i.rows : x.id = y.id => x = y

Numbered ==
  /\ \A r \in rows : r.id < nextId
  /\ \A x, y \in rows : x.id = y.id => x = y

\* The row that a deletion has found is there until it deletes it.
FoundIsThere(c) == \E row \in rows : seen[c] = {row}

HeldInv ==
  /\ AvailInv
  /\ OneAtATime
  /\ Numbered
  /\ \A c \in Call : pc[c] \in Deleting => FoundIsThere(c)

\* A copy is a row of its own.
Copied(row, imp) == \E r \in rows : r.table = "manual" /\ r.id # row.id /\ Span(r) = Span(imp)

CopiedInv ==
  /\ HeldInv
  /\ \A c \in Call : pc[c] = "copy" =>
       \A row \in seen[c], imp \in InTable("imported") :
         imp.from < row.to /\ row.from < imp.to => imp \in todo[c] \/ Copied(row, imp)

LEMMA InitHeld ==
  ASSUME InitialIsSound, InitialIsNumbered, Init
  PROVE  HeldInv
<1>1. PICK i \in Initial : rows = i.rows /\ buffer = i.buffer
  BY DEF Init
<1>2. IsFiniteSet(rows) /\ \A r \in rows : r.id \in Nat
  BY <1>1 DEF InitialIsSound, Stored
<1>3. Cardinality(rows) \in Nat
  BY <1>2, FS_CardinalityType
<1>4. Numbered
  BY <1>1, <1>2, <1>3 DEF Numbered, InitialIsNumbered, Init
<1>5. \A c \in Call : pc[c] \notin Active
  BY ActiveIs DEF Init
<1> QED
  BY <1>4, <1>5, InitAvail, ActiveIs DEF HeldInv, OneAtATime, Running, Active

\* Only the call that runs may disturb what is held.
LEMMA StepHeld ==
  ASSUME HeldInv, AvailInv', NEW c \in Call, Running(c) \/ Quiet,
         \A d \in Call \ {c} : pc'[d] = pc[d],
         (rows' \subseteq rows /\ UNCHANGED nextId) \/ (\E t \in Tables, r \in [from : Nat, to : Nat] : Insert(t, r)),
         pc'[c] \in Deleting => FoundIsThere(c)'
  PROVE  HeldInv'
<1>1. \A d \in Call \ {c} : ~Running(d)
  BY DEF HeldInv, OneAtATime, Quiet
<1>2. OneAtATime'
  BY <1>1 DEF OneAtATime, Running
<1>3. Numbered'
  <2>1. CASE rows' \subseteq rows /\ UNCHANGED nextId
    BY <2>1 DEF HeldInv, Numbered
  <2>2. ASSUME NEW t \in Tables, NEW r \in [from : Nat, to : Nat], Insert(t, r)
        PROVE  Numbered'
    <3> DEFINE new == [id |-> nextId, table |-> t, from |-> r.from, to |-> r.to]
    <3>1. rows' = rows \cup {new} /\ new.id = nextId /\ nextId' = nextId + 1
      BY <2>2 DEF Insert
    <3>2. nextId \in Nat /\ \A x \in rows : x.id \in Nat /\ x.id < nextId
      BY DEF HeldInv, AvailInv, AvailTypes, Stored, Numbered
    <3> HIDE DEF new
    <3> QED
      BY <3>1, <3>2 DEF HeldInv, Numbered
  <2> QED
    BY <2>1, <2>2
<1>4. \A d \in Call \ {c} : pc'[d] \notin Deleting
  BY <1>1 DEF Running, Active
<1> QED
  BY <1>2, <1>3, <1>4 DEF HeldInv

\* A call that begins finds none running.
LEMMA BeginsHeld ==
  ASSUME HeldInv, AvailInv', ~Overlap, Kinds \subseteq {"post", "remove", "delete"}, "read" \notin Faults,
         NEW c \in Call, CallBegins(c)
  PROVE  /\ HeldInv' /\ Quiet
         /\ pc'[c] \notin {"merge", "copy"} /\ \A d \in Call \ {c} : pc'[d] = pc[d]
<1> DEFINE Begun ==
             /\ Quiet /\ rows' \subseteq rows /\ UNCHANGED nextId
             /\ \/ \E l \in {"refused", "readBuffer", "removed"} : pc' = [pc EXCEPT ![c] = l]
                \/ \E row \in rows : /\ pc' = [pc EXCEPT ![c] = "deleteCalendar"] /\ rows' = rows
                                     /\ seen' = [seen EXCEPT ![c] = {row}]
<1>1. Begun
  <2>1. ASSUME NEW r \in TimeRange, PostBegins(c, r)
        PROVE  Begun
    BY <2>1 DEF PostBegins, Begin, CheckCalendar, Goto, tables
  <2>2. ASSUME NEW row \in rows, DeleteModeratorAvailability(c, row)
        PROVE  Begun
    BY <2>2 DEF DeleteModeratorAvailability, Begin, Goto, Without
  <2>3. ASSUME NEW row \in rows, DeleteFinds(c, row)
        PROVE  Begun
    BY <2>3 DEF DeleteFinds, Begin, Goto, tables
  <2> QED
    BY <2>1, <2>2, <2>3 DEF CallBegins, Begin, PostModeratorAvailability, UpdateFinds, BufferSets,
       ImportBegins, UnlinkBegins
<1>2. /\ pc'[c] \in {"refused", "readBuffer", "removed", "deleteCalendar"}
      /\ \A d \in Call \ {c} : pc'[d] = pc[d]
      /\ pc'[c] = "deleteCalendar" => \E row \in rows : rows' = rows /\ seen'[c] = {row}
  BY <1>1 DEF HeldInv, AvailInv, AvailTypes
<1>3. pc'[c] \in Deleting => FoundIsThere(c)'
  BY <1>2 DEF Deleting, FoundIsThere
<1> QED
  BY <1>1, <1>2, <1>3, StepHeld

\* Of a call's steps only the merge, the insert and the deletion change rows;
\* who deletes leaves its row until the end.
LEMMA StepsHeld ==
  ASSUME HeldInv, AvailInv', NEW c \in Call, CallSteps(c), "statement" \notin Faults, ~ParseTime
  PROVE  HeldInv' /\ Running(c) /\ \A d \in Call \ {c} : pc'[d] = pc[d]
<1> DEFINE NoInsert == rows' \subseteq rows /\ UNCHANGED nextId
           AnInsert == \E t \in Tables, r \in [from : Nat, to : Nat] : Insert(t, r)
           Moves == /\ NoInsert \/ AnInsert
                    /\ pc[c] \in Active
                    /\ \/ \E l \in {"conflicts", "refused", "overlaps", "merge", "posted", "failed", "deleted"} :
                            pc' = [pc EXCEPT ![c] = l]
                       \/ pc[c] = "merge" /\ pc' = pc
                       \/ /\ pc[c] \in Deleting /\ rows \subseteq rows' /\ seen' = seen
                          /\ pc' = pc \/ \E l \in Active \cup Final : pc' = [pc EXCEPT ![c] = l]
<1>1. Moves
  <2>1. CASE PostReadsBuffer(c)
    BY <2>1, ActiveIs DEF PostReadsBuffer, Goto, At, tables
  <2>2. CASE PostChecksConflicts(c)
    BY <2>2, ActiveIs DEF PostChecksConflicts, Goto, At, tables
  <2>3. CASE PostReadsOverlapping(c)
    BY <2>3, ActiveIs DEF PostReadsOverlapping, Goto, At, tables
  <2>4. ASSUME NEW row \in todo[c], PostMerges(c, row)
        PROVE  Moves
    BY <2>4, ActiveIs DEF PostMerges, At, Without
  <2>5. CASE PostCreates(c)
    <3>1. /\ pc[c] = "merge" /\ pc' = [pc EXCEPT ![c] = "posted"]
          /\ IF plan[c].do THEN Insert("manual", plan[c]) ELSE NoInsert
          /\ plan[c].do => plan[c].from # Zero
      BY <2>5 DEF PostCreates, Goto, At
    <3>2. plan[c] \in [from : Nat \cup {Zero}, to : Nat, do : BOOLEAN]
      BY DEF HeldInv, AvailInv, AvailTypes
    <3>3. ASSUME plan[c].do
          PROVE  AnInsert
      <4> DEFINE r == [from |-> plan[c].from, to |-> plan[c].to]
      <4>1. r \in [from : Nat, to : Nat] /\ r.from = plan[c].from /\ r.to = plan[c].to
        BY <3>1, <3>2, <3>3
      <4>2. Insert("manual", r)
        BY <3>1, <3>3, <4>1 DEF Insert
      <4> QED
        BY <4>1, <4>2 DEF Tables
    <3> QED
      BY <3>1, <3>3, ActiveIs
  <2>6. CASE PostCreateRefused(c)
    BY <2>6, ActiveIs DEF PostCreateRefused, Goto, At, tables
  <2>7. CASE DeleteChecksCalendar(c)
    BY <2>7, ActiveIs DEF DeleteChecksCalendar, CheckCalendar, Goto, At, tables, Deleting, Final
  <2>8. CASE DeleteReadsImported(c)
    BY <2>8, ActiveIs DEF DeleteReadsImported, Goto, At, tables, Deleting
  <2>9. ASSUME NEW imp \in todo[c], DeleteCopies(c, imp)
        PROVE  Moves
    <3>1. pc[c] = "copy" /\ pc' = pc /\ seen' = seen /\ Insert("manual", imp)
      BY <2>9 DEF DeleteCopies, At
    <3>2. imp \in Stored
      BY DEF HeldInv, AvailInv, AvailTypes
    <3> DEFINE r == [from |-> imp.from, to |-> imp.to]
    <3>3. r \in [from : Nat, to : Nat] /\ Insert("manual", r)
      BY <3>1, <3>2 DEF Insert, Stored
    <3>4. AnInsert /\ rows \subseteq rows'
      BY <3>1, <3>3 DEF Tables, Insert
    <3> QED
      BY <3>1, <3>4, ActiveIs DEF Deleting
  <2>10. CASE DeleteRow(c)
    BY <2>10, ActiveIs DEF DeleteRow, Goto, At, Without
  <2> QED
    BY <2>1, <2>2, <2>3, <2>4, <2>5, <2>6, <2>7, <2>8, <2>9, <2>10, StepsOfPosts DEF HeldInv
<1>2. /\ \A d \in Call \ {c} : pc'[d] = pc[d]
      /\ \/ pc'[c] \in {"conflicts", "refused", "overlaps", "merge", "posted", "failed", "deleted"}
         \/ pc[c] \in Deleting /\ rows \subseteq rows' /\ seen' = seen
  BY <1>1 DEF HeldInv, AvailInv, AvailTypes
<1>3. pc'[c] \in Deleting => FoundIsThere(c)'
  BY <1>2 DEF Deleting, FoundIsThere, HeldInv
<1> QED
  BY <1>1, <1>2, <1>3, StepHeld DEF Running

\* A call that fails or crashes leaves the rows, and holds nothing.
LEMMA FaultsHeld ==
  ASSUME HeldInv, AvailInv', (\E c \in Call : CallFails(c) \/ ImportTimesOut(c)) \/ Crash \/ UNCHANGED vars
  PROVE  HeldInv' /\ UNCHANGED <<tables, seen, todo, plan>> /\ \A d \in Call : pc'[d] = pc[d] \/ pc'[d] \notin Active
<1>1. /\ UNCHANGED <<tables, seen, todo, plan>>
      /\ \A d \in Call : pc'[d] = pc[d] \/ pc'[d] \notin Active
  <2>1. ASSUME NEW c \in Call, CallFails(c) \/ ImportTimesOut(c)
        PROVE  /\ UNCHANGED <<tables, seen, todo, plan>>
               /\ \E l \in Final : pc' = [pc EXCEPT ![c] = l]
    BY <2>1 DEF CallFails, ImportTimesOut, Goto, Final
  <2>2. ASSUME NEW c \in Call, CallFails(c) \/ ImportTimesOut(c)
        PROVE  \A d \in Call : pc'[d] = pc[d] \/ pc'[d] \notin Active
    BY <2>1, <2>2, ActiveIs DEF HeldInv, AvailInv, AvailTypes
  <2>3. CASE Crash
    BY <2>3, ActiveIs DEF Crash, Final
  <2>4. CASE UNCHANGED vars
    BY <2>4 DEF vars, tables, callVars
  <2> QED
    BY <2>1, <2>2, <2>3, <2>4
<1>2. OneAtATime'
  BY <1>1 DEF HeldInv, OneAtATime, Running
<1>3. Numbered' /\ \A c \in Call : pc'[c] \in Deleting => FoundIsThere(c)'
  BY <1>1 DEF HeldInv, Numbered, FoundIsThere, tables, Active
<1> QED
  BY <1>1, <1>2, <1>3 DEF HeldInv

\* What overlaps the row in any way is found by the query's three disjuncts.
LEMMA OverlappedIsFound ==
  ASSUME NEW r \in Stored, NEW imp \in Stored, r.from < r.to, imp.from < imp.to,
         imp.from < r.to, r.from < imp.to
  PROVE  OverlapsInside(r, imp)
BY DEF OverlapsInside, Stored

\* The two steps of a deletion that this is about.
LEMMA DeleteReadsImportedCopied ==
  ASSUME CopiedInv, "read" \notin Faults, NEW c \in Call, DeleteReadsImported(c),
         NEW row \in seen'[c], NEW imp \in InTable("imported")', imp.from < row.to, row.from < imp.to
  PROVE  imp \in todo'[c]
<1>1. /\ UNCHANGED <<rows, seen>> /\ pc[c] = "deleteImported"
      /\ \E s \in seen[c] : todo' = [todo EXCEPT ![c] = {r \in InTable("imported") : OverlapsInside(s, r)}]
  BY DEF DeleteReadsImported, At, tables
<1>2. FoundIsThere(c)
  BY <1>1 DEF CopiedInv, HeldInv, Deleting
<1>3. row \in rows /\ seen[c] = {row}
  BY <1>1, <1>2 DEF FoundIsThere
<1>4. imp \in InTable("imported") /\ imp \in rows
  BY <1>1 DEF InTable
<1>5. OverlapsInside(row, imp)
  BY <1>3, <1>4, OverlappedIsFound DEF CopiedInv, HeldInv, AvailInv, AvailTypes, Sound
<1> QED
  BY <1>1, <1>3, <1>4, <1>5 DEF CopiedInv, HeldInv, AvailInv, AvailTypes

LEMMA DeleteCopiesCopied ==
  ASSUME CopiedInv, ~ParseTime, "statement" \notin Faults, NEW c \in Call, NEW cur \in todo[c], DeleteCopies(c, cur),
         NEW row \in seen'[c], NEW imp \in InTable("imported")', imp.from < row.to, row.from < imp.to
  PROVE  imp \in todo'[c] \/ Copied(row, imp)'
<1> DEFINE new == [id |-> nextId, table |-> "manual", from |-> cur.from, to |-> cur.to]
<1>1. /\ pc[c] = "copy" /\ UNCHANGED seen
      /\ rows' = rows \cup {new}
      /\ todo'[c] = todo[c] \ {cur}
  BY DEF DeleteCopies, At, Insert, CopiedInv, HeldInv, AvailInv, AvailTypes
<1>2. new.id = nextId /\ new.table = "manual" /\ Span(new) = Span(cur)
  BY DEF Span
<1> HIDE DEF new
<1>3. imp \in InTable("imported")
  BY <1>1, <1>2 DEF InTable
<1>4. row.id # nextId
  <2>1. FoundIsThere(c)
    BY <1>1 DEF CopiedInv, HeldInv, Deleting
  <2>2. row \in rows
    BY <1>1, <2>1 DEF FoundIsThere
  <2> QED
    BY <2>2 DEF CopiedInv, HeldInv, Numbered, AvailInv, AvailTypes, Stored
<1>5. imp \in todo[c] \/ Copied(row, imp)
  BY <1>1, <1>3 DEF CopiedInv
<1>6. CASE imp = cur
  BY <1>1, <1>2, <1>4, <1>6 DEF Copied
<1>7. CASE imp # cur
  BY <1>1, <1>5, <1>7 DEF Copied
<1> QED
  BY <1>6, <1>7

LEMMA NextCopied ==
  ASSUME CopiedInv, ~ParseTime, ~Overlap, Kinds \subseteq {"post", "remove", "delete"},
         Faults \cap {"read", "statement"} = {}, [Next]_vars
  PROVE  CopiedInv'
<1>1. AvailInv'
  BY NextAvail DEF CopiedInv, HeldInv
<1>2. ASSUME NEW c \in Call, CallBegins(c)
      PROVE  CopiedInv'
  <2>1. HeldInv' /\ Quiet /\ pc'[c] # "copy" /\ \A d \in Call \ {c} : pc'[d] = pc[d]
    BY <1>1, <1>2, BeginsHeld DEF CopiedInv
  <2>2. \A d \in Call : pc'[d] # "copy"
    BY <2>1, ActiveIs DEF Quiet, Running
  <2> QED
    BY <2>1, <2>2 DEF CopiedInv
<1>3. ASSUME NEW c \in Call, CallSteps(c)
      PROVE  CopiedInv'
  <2>1. HeldInv' /\ Running(c) /\ \A d \in Call \ {c} : pc'[d] = pc[d]
    BY <1>1, <1>3, StepsHeld DEF CopiedInv
  <2>2. \A d \in Call \ {c} : pc'[d] # "copy"
    BY <2>1, ActiveIs DEF CopiedInv, HeldInv, OneAtATime, Running
  <2>3. \/ pc'[c] # "copy" \/ DeleteReadsImported(c)
        \/ \E cur \in todo[c] : DeleteCopies(c, cur)
    <3>1. pc \in [Call -> Used]
      BY DEF CopiedInv, HeldInv, AvailInv, AvailTypes
    <3> QED
      BY <1>3, <3>1, StepsOfPosts DEF CopiedInv, HeldInv, PostReadsBuffer, PostChecksConflicts, PostReadsOverlapping,
         PostMerges, PostCreates, PostCreateRefused, DeleteChecksCalendar, CheckCalendar, DeleteRow, Goto, At
  <2> QED
    BY <2>1, <2>2, <2>3, DeleteReadsImportedCopied, DeleteCopiesCopied DEF CopiedInv
<1>4. ASSUME (\E c \in Call : CallFails(c) \/ ImportTimesOut(c)) \/ Crash \/ UNCHANGED vars
      PROVE  CopiedInv'
  <2>1. HeldInv' /\ UNCHANGED <<tables, seen, todo, plan>> /\ \A d \in Call : pc'[d] = pc[d] \/ pc'[d] \notin Active
    BY <1>1, <1>4, FaultsHeld DEF CopiedInv
  <2>2. \A d \in Call : pc'[d] = "copy" => pc[d] = "copy"
    BY <2>1, ActiveIs
  <2> QED
    BY <2>1, <2>2 DEF CopiedInv, InTable, Copied, Span, tables
<1> QED
  BY <1>2, <1>3, <1>4 DEF Next

\* A deletion leaves a manual copy of each imported row that the deleted one
\* overlaps in any way, however many there are, also where one of them has the
\* same times (DeleteModeratorAvailabilityMRA).  Calls come one after the other,
\* reads and statements do not fail and times are handed over as MySQL prints
\* them.
THEOREM DeletionsCopy ==
  ASSUME InitialIsSound, InitialIsNumbered, ~ParseTime, ~Overlap,
         Kinds \subseteq {"post", "remove", "delete"}, Faults \cap {"read", "statement"} = {}
  PROVE  Spec => ImportedIsCopied
<1> DEFINE Kept == \A c \in Call : DeleteRow(c) =>
             \A row \in seen[c], imp \in InTable("imported") :
               imp.from < row.to /\ row.from < imp.to =>
                 \E r \in rows' : r.table = "manual" /\ Span(r) = Span(imp)
<1>1. Init => CopiedInv
  BY InitHeld DEF Init, CopiedInv
<1>2. CopiedInv /\ [Next]_vars => CopiedInv'
  BY NextCopied
<1>3. CopiedInv => Kept
  <2> SUFFICES ASSUME CopiedInv, NEW c \in Call, DeleteRow(c), NEW row \in seen[c], NEW imp \in InTable("imported"),
                      imp.from < row.to, row.from < imp.to
               PROVE  \E r \in rows' : r.table = "manual" /\ Span(r) = Span(imp)
    OBVIOUS
  <2>1. pc[c] = "copy" /\ todo[c] = {} /\ \E s \in seen[c] : rows' = Without(s)
    BY DEF DeleteRow, At
  <2>2. seen[c] = {row}
    BY <2>1 DEF CopiedInv, HeldInv, FoundIsThere, Deleting
  <2>3. Copied(row, imp)
    BY <2>1 DEF CopiedInv
  <2> QED
    BY <2>1, <2>2, <2>3 DEF Copied, Without
<1> QED
  BY <1>1, <1>2, <1>3, PTL DEF Spec, ImportedIsCopied

-----------------------------------------------------------------------------
(* Merging keeps the offers *)

InitialIsInTime == \A i \in Initial : \A r \in i.rows : r.to <= Horizon

\* The rows a post is still to merge are there; a range that is not going to be
\* created lies within a row that stays.
MergeIsWhole(c) ==
  /\ todo[c] \subseteq rows
  /\ plan[c].to <= Horizon
  /\ ~plan[c].do => todo[c] = {} /\ \E r \in rows : r.from <= plan[c].from /\ plan[c].to <= r.to

CoverInv ==
  /\ ApartInv
  /\ HeldInv
  /\ \A r \in rows : r.to <= Horizon
  /\ \A c \in Call : pc[c] = "merge" => MergeIsWhole(c)

Removed == {c \in Call : pc[c] \in {"removed", "deleted"}}

\* The rows are offered, and the range that the one post that merges has in hand.
LEMMA OfferedIs ==
  ASSUME NEW rs, NEW p, NEW pl, \A r \in rs : r.table = "manual"
  PROVE  LET os == {r \in rs : r.table = "manual"} \cup {pl[c] : c \in {d \in Call : p[d] = "merge" /\ pl[d].from # Zero}}
         IN /\ (\A c \in Call : p[c] # "merge") => os = rs
            /\ \A c \in Call : p[c] = "merge" /\ pl[c].from # Zero /\ (\A d \in Call \ {c} : p[d] # "merge")
                 => os = rs \cup {pl[c]}
<1> DEFINE ps == {pl[c] : c \in {d \in Call : p[d] = "merge" /\ pl[d].from # Zero}}
<1>1. {r \in rs : r.table = "manual"} = rs
  OBVIOUS
<1>2. (\A c \in Call : p[c] # "merge") => ps = {}
  OBVIOUS
<1>3. ASSUME NEW c \in Call, p[c] = "merge", pl[c].from # Zero, \A d \in Call \ {c} : p[d] # "merge"
      PROVE  ps = {pl[c]}
  <2>1. {d \in Call : p[d] = "merge" /\ pl[d].from # Zero} = {c}
    BY <1>3
  <2> QED
    BY <2>1
<1> HIDE DEF ps
<1>4. ({r \in rs : r.table = "manual"} \cup ps) = (rs \cup ps)
  BY <1>1
<1> QED
  BY <1>2, <1>3, <1>4 DEF ps

LEMMA CellsOf ==
  ASSUME NEW S, NEW x
  PROVE  x \in Cells(S) <=> \E r \in S : x \in r.from .. (r.to - 1)
BY DEF Cells

\* At rest the offers are the rows' cells.
LEMMA RestingOffers ==
  /\ (\A d \in Call : pc[d] # "merge") /\ (\A r \in rows : r.table = "manual") => Offered = Cells(rows)
  /\ (\A d \in Call : pc'[d] # "merge") /\ (\A r \in rows' : r.table = "manual") => Offered' = Cells(rows')
<1> DEFINE Os(rs, p, pl) ==
             {r \in rs : r.table = "manual"} \cup {pl[e] : e \in {d \in Call : p[d] = "merge" /\ pl[d].from # Zero}}
<1>1. Offered = Cells(Os(rows, pc, plan)) /\ Offered' = Cells(Os(rows', pc', plan'))
  BY DEF Offered, InTable, At
<1>2. (\A d \in Call : pc[d] # "merge") /\ (\A r \in rows : r.table = "manual") => Os(rows, pc, plan) = rows
  BY OfferedIs
<1>3. (\A d \in Call : pc'[d] # "merge") /\ (\A r \in rows' : r.table = "manual") => Os(rows', pc', plan') = rows'
  BY OfferedIs
<1> HIDE DEF Os
<1> QED
  BY <1>1, <1>2, <1>3

\* While a post merges its range is offered too.
LEMMA MergingOffers ==
  ASSUME NEW c \in Call
  PROVE  /\ /\ pc[c] = "merge" /\ plan[c].from # Zero
            /\ \A d \in Call \ {c} : pc[d] # "merge"
            /\ \A r \in rows : r.table = "manual"
            => Offered = Cells(rows \cup {plan[c]})
         /\ /\ pc'[c] = "merge" /\ plan'[c].from # Zero
            /\ \A d \in Call \ {c} : pc'[d] # "merge"
            /\ \A r \in rows' : r.table = "manual"
            => Offered' = Cells(rows' \cup {plan'[c]})
<1> DEFINE Os(rs, p, pl) ==
             {r \in rs : r.table = "manual"} \cup {pl[e] : e \in {d \in Call : p[d] = "merge" /\ pl[d].from # Zero}}
<1>1. Offered = Cells(Os(rows, pc, plan)) /\ Offered' = Cells(Os(rows', pc', plan'))
  BY DEF Offered, InTable, At
<1>2. ASSUME pc[c] = "merge", plan[c].from # Zero, \A d \in Call \ {c} : pc[d] # "merge",
             \A r \in rows : r.table = "manual"
      PROVE  Os(rows, pc, plan) = rows \cup {plan[c]}
  BY <1>2, OfferedIs
<1>3. ASSUME pc'[c] = "merge", plan'[c].from # Zero, \A d \in Call \ {c} : pc'[d] # "merge",
             \A r \in rows' : r.table = "manual"
      PROVE  Os(rows', pc', plan') = rows' \cup {plan'[c]}
  BY <1>3, OfferedIs
<1> HIDE DEF Os
<1> QED
  BY <1>1, <1>2, <1>3

\* Merging a row, deleted, into the range makes of both one range.
LEMMA MergeKeepsCells ==
  ASSUME ~ParseTime,
         NEW m \in [from : Nat \cup {Zero}, to : Nat, do : BOOLEAN], m.from # Zero, m.from < m.to,
         NEW row \in Stored, row.from < row.to, Meets(m, row), ~Wraps(Parsed(row), m)
  PROVE  /\ Merged(m, Parsed(row)).do = m.do
         /\ Merged(m, Parsed(row)).to \in {m.to, row.to}
         /\ \A x : x \in Merged(m, Parsed(row)).from .. (Merged(m, Parsed(row)).to - 1)
                     <=> x \in m.from .. (m.to - 1) \/ x \in row.from .. (row.to - 1)
<1> DEFINE o == Parsed(row)
           n == Merged(m, o)
<1>1. /\ o.from = row.from /\ o.to = row.to /\ row.from \in Nat /\ row.to \in Nat
      /\ m.from \in Nat /\ m.to \in Nat /\ m.from <= row.to /\ row.from <= m.to
      /\ ~(row.from < m.from /\ row.to > m.to)
  BY DEF Parsed, Span, Stored, Meets, Wraps
<1>2. \/ n = m /\ m.from <= row.from /\ row.to <= m.to
      \/ n = [m EXCEPT !.from = o.from] /\ row.from <= m.from /\ row.to <= m.to
      \/ n = [m EXCEPT !.to = o.to] /\ m.from <= row.from /\ m.to <= row.to
  BY <1>1 DEF Merged, Within, Wraps
<1> HIDE DEF n, o
<1>3. \/ n.do = m.do /\ n.from = m.from /\ n.to = m.to /\ m.from <= row.from /\ row.to <= m.to
      \/ n.do = m.do /\ n.from = row.from /\ n.to = m.to /\ row.from <= m.from /\ row.to <= m.to
      \/ n.do = m.do /\ n.from = m.from /\ n.to = row.to /\ m.from <= row.from /\ m.to <= row.to
  BY <1>1, <1>2
<1>4. \A x : x \in n.from .. (n.to - 1) <=> x \in m.from .. (m.to - 1) \/ x \in row.from .. (row.to - 1)
  <2> TAKE x
  <2>1. CASE x \in Int
    BY <1>1, <1>3, <2>1
  <2>2. CASE x \notin Int
    BY <2>2
  <2> QED
    BY <2>1, <2>2
<1> QED
  BY <1>3, <1>4 DEF n, o

LEMMA StepCover ==
  ASSUME CoverInv, ApartInv', HeldInv', NEW c \in Call, Running(c) \/ Quiet,
         \A d \in Call \ {c} : pc'[d] = pc[d],
         \A r \in rows' : r.to <= Horizon,
         pc'[c] = "merge" => MergeIsWhole(c)'
  PROVE  CoverInv'
<1>1. \A d \in Call \ {c} : pc'[d] # "merge"
  BY ActiveIs DEF CoverInv, HeldInv, OneAtATime, Quiet, Running
<1> QED
  BY <1>1 DEF CoverInv

\* A step that begins with no merge and ends with none either leaves the rows
\* or deletes one.
CoverStep == [Cover!Next]_<<Offered, Removed>>

LEMMA RestingStep ==
  ASSUME CoverInv, CoverInv', \A d \in Call : pc[d] # "merge", \A d \in Call : pc'[d] # "merge",
         \/ UNCHANGED <<rows, Removed>>
         \/ \E c \in Call \ Removed, row \in rows : rows' = Without(row) /\ Removed' = Removed \cup {c}
  PROVE  CoverStep
<1>1. Offered = Cells(rows) /\ Offered' = Cells(rows')
  BY RestingOffers DEF CoverInv, ApartInv
<1>2. CASE UNCHANGED <<rows, Removed>>
  BY <1>1, <1>2 DEF CoverStep
<1>3. ASSUME NEW c \in Call \ Removed, NEW row \in rows, rows' = Without(row), Removed' = Removed \cup {c}
      PROVE  CoverStep
  <2>1. row.from \in 0 .. Horizon /\ row.to \in 0 .. Horizon /\ row.from < row.to
    BY TimesAssumption DEF CoverInv, HeldInv, AvailInv, AvailTypes, Stored, Sound
  <2>2. rows = rows' \cup {row}
    BY <1>3 DEF Without, CoverInv, HeldInv, Numbered
  <2>3. \A x : x \in Offered <=> x \in Offered' \/ x \in row.from .. (row.to - 1)
    BY <1>1, <2>2, CellsOf
  <2>4. Cover!Withdraw(c, row.from, row.to)
    BY <1>3, <2>3 DEF Cover!Withdraw, Cover!Units, Removed
  <2> QED
    BY <2>1, <2>4 DEF CoverStep, Cover!Next, Removed
<1> QED
  BY <1>2, <1>3

\* A call that begins takes nothing, or the row it removes.
LEMMA BeginsCover ==
  ASSUME CoverInv, ~Overlap, Kinds \subseteq {"post", "remove", "delete"}, "read" \notin Faults,
         NEW c \in Call, CallBegins(c)
  PROVE  CoverInv' /\ CoverStep
<1>1. AvailInv' /\ ApartInv'
  BY BeginsAvail, BeginsApart DEF CoverInv, ApartInv
<1>2. /\ HeldInv' /\ Quiet
      /\ pc'[c] \notin {"merge", "copy"} /\ \A d \in Call \ {c} : pc'[d] = pc[d]
  BY <1>1, BeginsHeld DEF CoverInv
<1>3. \/ rows' = rows /\ \E l \in {"refused", "readBuffer", "deleteCalendar"} : pc' = [pc EXCEPT ![c] = l]
      \/ \E row \in rows : rows' = Without(row) /\ pc' = [pc EXCEPT ![c] = "removed"]
  <2>1. ASSUME NEW r \in TimeRange, PostBegins(c, r)
        PROVE  rows' = rows /\ \E l \in {"refused", "readBuffer", "deleteCalendar"} : pc' = [pc EXCEPT ![c] = l]
    BY <2>1 DEF PostBegins, Begin, CheckCalendar, Goto, tables
  <2>2. ASSUME NEW row \in rows, DeleteModeratorAvailability(c, row)
        PROVE  rows' = Without(row) /\ pc' = [pc EXCEPT ![c] = "removed"]
    BY <2>2 DEF DeleteModeratorAvailability, Begin, Goto
  <2>3. ASSUME NEW row \in rows, DeleteFinds(c, row)
        PROVE  rows' = rows /\ pc' = [pc EXCEPT ![c] = "deleteCalendar"]
    BY <2>3 DEF DeleteFinds, Begin, Goto, tables
  <2> QED
    BY <2>1, <2>2, <2>3 DEF CallBegins, Begin, PostModeratorAvailability, UpdateFinds, BufferSets,
       ImportBegins, UnlinkBegins
<1>4. pc[c] = "idle" /\ pc \in [Call -> Used]
  BY DEF CallBegins, PostBegins, PostModeratorAvailability, UpdateFinds, DeleteModeratorAvailability, DeleteFinds,
     BufferSets, ImportBegins, UnlinkBegins, Begin, CoverInv, HeldInv, AvailInv, AvailTypes
<1>5. CoverInv'
  BY <1>1, <1>2, <1>3, StepCover DEF CoverInv, Without
<1>6. \A d \in Call : pc[d] # "merge" /\ pc'[d] # "merge"
  BY <1>2, <1>4, ActiveIs DEF Quiet, Running
<1>7. \/ UNCHANGED <<rows, Removed>>
      \/ \E row \in rows : rows' = Without(row) /\ Removed' = Removed \cup {c} /\ c \notin Removed
  BY <1>3, <1>4 DEF Removed
<1> QED
  BY <1>5, <1>6, <1>7, RestingStep

\* The merge that begins offers the posted range.
LEMMA PostReadsOverlappingCover ==
  ASSUME CoverInv, ApartInv', HeldInv', NEW c \in Call, PostReadsOverlapping(c)
  PROVE  CoverInv' /\ CoverStep
<1> DEFINE near == {r \in InTable("manual") : Overlaps(arg[c], r)}
           new == [from |-> arg[c].from, to |-> arg[c].to, do |-> TRUE]
<1>1. /\ UNCHANGED rows
      /\ pc[c] = "overlaps"
      /\ pc' = [pc EXCEPT ![c] = "merge"]
      /\ todo' = [todo EXCEPT ![c] = near]
      /\ plan' = [plan EXCEPT ![c] = new]
  BY DEF PostReadsOverlapping, Goto, At, tables
<1>2. /\ pc'[c] = "merge" /\ todo'[c] = near /\ plan'[c] = new
      /\ \A d \in Call \ {c} : pc'[d] = pc[d]
  BY <1>1 DEF CoverInv, HeldInv, AvailInv, AvailTypes
<1>3. arg[c].from \in 0 .. Horizon /\ arg[c].to \in 0 .. Horizon /\ arg[c].from < arg[c].to
  BY <1>1 DEF CoverInv, HeldInv, AvailInv, AvailTypes, AnyRange, Times
<1>4. near \subseteq rows /\ new.from = arg[c].from /\ new.to = arg[c].to /\ new.do /\ new.from # Zero
  BY <1>3, TimesAssumption DEF InTable, Zero
<1> HIDE DEF near, new
<1>5. Running(c) /\ \A d \in Call \ {c} : pc[d] # "merge" /\ pc'[d] # "merge"
  BY <1>1, <1>2, ActiveIs DEF CoverInv, HeldInv, OneAtATime, Running
<1>6. MergeIsWhole(c)'
  BY <1>1, <1>2, <1>3, <1>4, TimesAssumption DEF MergeIsWhole
<1>7. CoverInv'
  BY <1>1, <1>2, <1>5, <1>6, StepCover DEF CoverInv
<1>8. Offered = Cells(rows) /\ Offered' = Cells(rows \cup {new})
  <2>1. Offered = Cells(rows)
    <3>1. \A d \in Call : pc[d] # "merge"
      BY <1>1, <1>5
    <3> QED
      BY <3>1, RestingOffers DEF CoverInv, ApartInv
  <2>2. Offered' = Cells(rows' \cup {plan'[c]})
    BY <1>1, <1>2, <1>4, <1>5, MergingOffers DEF CoverInv, ApartInv
  <2> QED
    BY <1>1, <1>2, <2>1, <2>2
<1>9. Offered' = Offered \cup Cover!Units(arg[c].from, arg[c].to)
  <2>1. \A x : x \in Offered' <=> x \in Offered \/ x \in new.from .. (new.to - 1)
    BY <1>8, CellsOf
  <2> QED
    BY <2>1, <1>4 DEF Cover!Units
<1>10. UNCHANGED Removed
  BY <1>1, <1>2 DEF Removed
<1> QED
  BY <1>3, <1>7, <1>9, <1>10 DEF CoverStep, Cover!Next, Cover!Offer, Removed

\* What is merged was offered and is.
LEMMA PostMergesCover ==
  ASSUME CoverInv, ApartInv', HeldInv', ~ParseTime, "statement" \notin Faults,
         NEW c \in Call, NEW row \in todo[c], PostMerges(c, row)
  PROVE  CoverInv' /\ CoverStep
<1> DEFINE n == Merged(plan[c], Parsed(row))
<1>1. /\ pc' = pc /\ pc[c] = "merge"
      /\ plan' = [plan EXCEPT ![c] = n]
      /\ todo' = [todo EXCEPT ![c] = @ \ {row}]
      /\ rows' = IF Wraps(Parsed(row), plan[c]) THEN rows ELSE Without(row)
  BY DEF PostMerges, At
<1>2. plan'[c] = n /\ todo'[c] = todo[c] \ {row}
  BY <1>1 DEF CoverInv, HeldInv, AvailInv, AvailTypes
<1>3. /\ row \in rows /\ row \in Stored /\ row.from < row.to /\ row.to <= Horizon
      /\ plan[c] \in [from : Nat \cup {Zero}, to : Nat, do : BOOLEAN]
      /\ plan[c].from # Zero /\ plan[c].from < plan[c].to /\ plan[c].to <= Horizon /\ Meets(plan[c], row)
      /\ MergeIsApart(c) /\ MergeIsWhole(c)
  BY <1>1 DEF CoverInv, ApartInv, HeldInv, AvailInv, AvailTypes, MergeIsApart, MergeIsWhole, Mergeable, Sound
<1>4. plan[c].do
  BY <1>3 DEF MergeIsWhole
<1>5. Running(c) /\ \A d \in Call \ {c} : pc[d] # "merge" /\ pc'[d] # "merge"
  BY <1>1, ActiveIs DEF CoverInv, HeldInv, OneAtATime, Running
<1>6. rows' \subseteq rows
  BY <1>1 DEF Without
<1>7. UNCHANGED Removed
  BY <1>1 DEF Removed
<1>8. n.from # Zero
  BY <1>3, MergeMeetsNoOther
<1>9. /\ Offered = Cells(rows \cup {plan[c]})
      /\ Offered' = Cells(rows' \cup {n})
  BY <1>1, <1>2, <1>3, <1>5, <1>6, <1>8, MergingOffers DEF CoverInv, ApartInv
<1>10. CASE Wraps(Parsed(row), plan[c])
  <2>1. /\ row.from <= plan[c].from /\ plan[c].to <= row.to
        /\ row.from \in Nat /\ row.to \in Nat /\ plan[c].from \in Nat /\ plan[c].to \in Nat
    BY <1>3, <1>10 DEF Wraps, Parsed, Span, Stored
  <2>2. n = [plan[c] EXCEPT !.do = FALSE] /\ rows' = rows
    <3>1. ~Within(Parsed(row), plan[c])
      BY <1>3, <1>10, <2>1 DEF Wraps, Within, Parsed, Span
    <3> QED
      BY <1>1, <1>10, <3>1 DEF Merged
  <2>3. n.from = plan[c].from /\ n.to = plan[c].to /\ ~n.do
    BY <1>3, <2>2
  <2> HIDE DEF n
  <2>4. todo'[c] = {}
    <3> SUFFICES ASSUME NEW z \in todo[c], z # row
                 PROVE  FALSE
      BY <1>2
    <3>1. ~Meets(row, z) /\ z \in Stored /\ Meets(plan[c], z)
      BY <1>1, <1>3 DEF MergeIsApart, MergeIsWhole, CoverInv, HeldInv, AvailInv, AvailTypes
    <3> QED
      BY <2>1, <3>1 DEF Meets, Stored
  <2>5. MergeIsWhole(c)'
    BY <1>2, <1>3, <2>1, <2>2, <2>3, <2>4 DEF MergeIsWhole
  <2>6. CoverInv'
    BY <1>1, <1>5, <1>6, <2>5, StepCover DEF CoverInv
  <2>7. \A x : x \in Offered' <=> x \in Offered
    <3>1. Offered = Cells(rows \cup {plan[c]}) /\ Offered' = Cells(rows \cup {n})
      BY <1>9, <2>2
    <3>2. \A x : x \in n.from .. (n.to - 1) <=> x \in plan[c].from .. (plan[c].to - 1)
      BY <2>3
    <3> QED
      BY <3>1, <3>2, CellsOf
  <2>8. Offered' = Offered
    <3>1. Offered' \subseteq Offered /\ Offered \subseteq Offered'
      BY <2>7
    <3> QED
      BY <3>1
  <2> QED
    BY <1>7, <2>6, <2>8 DEF CoverStep
<1>11. CASE ~Wraps(Parsed(row), plan[c])
  <2>1. /\ n.do = plan[c].do
        /\ n.to \in {plan[c].to, row.to}
        /\ \A x : x \in n.from .. (n.to - 1)
                    <=> x \in plan[c].from .. (plan[c].to - 1) \/ x \in row.from .. (row.to - 1)
    BY <1>3, <1>11, MergeKeepsCells
  <2> HIDE DEF n
  <2>2. rows = rows' \cup {row} /\ row \notin rows'
    BY <1>1, <1>3, <1>11 DEF Without, CoverInv, HeldInv, Numbered
  <2>3. MergeIsWhole(c)'
    BY <1>2, <1>3, <1>4, <2>1, <2>2 DEF MergeIsWhole
  <2>4. CoverInv'
    BY <1>1, <1>5, <1>6, <2>3, StepCover DEF CoverInv
  <2>5. \A x : x \in Offered' <=> x \in Offered
    BY <1>9, <2>1, <2>2, CellsOf
  <2>6. Offered' = Offered
    <3>1. Offered' \subseteq Offered /\ Offered \subseteq Offered'
      BY <2>5
    <3> QED
      BY <3>1
  <2> QED
    BY <1>7, <2>4, <2>6 DEF CoverStep
<1> QED
  BY <1>10, <1>11

\* The range that was offered becomes a row, or is within one.
LEMMA PostCreatesCover ==
  ASSUME CoverInv, ApartInv', HeldInv', NEW c \in Call, PostCreates(c)
  PROVE  CoverInv' /\ CoverStep
<1> DEFINE new == [id |-> nextId, table |-> "manual", from |-> plan[c].from, to |-> plan[c].to]
<1>1. /\ pc[c] = "merge"
      /\ pc' = [pc EXCEPT ![c] = "posted"]
      /\ rows' = IF plan[c].do THEN rows \cup {new} ELSE rows
  BY DEF PostCreates, Goto, At, Insert
<1>2. pc'[c] = "posted" /\ \A d \in Call \ {c} : pc'[d] = pc[d]
  BY <1>1 DEF CoverInv, HeldInv, AvailInv, AvailTypes
<1>3. /\ plan[c].from # Zero /\ plan[c].to <= Horizon /\ MergeIsWhole(c)
      /\ plan[c].from \in Nat /\ plan[c].to \in Nat
  BY <1>1 DEF CoverInv, ApartInv, MergeIsApart, MergeIsWhole, HeldInv, AvailInv, AvailTypes
<1>4. new.from = plan[c].from /\ new.to = plan[c].to
  OBVIOUS
<1> HIDE DEF new
<1>5. Running(c) /\ \A d \in Call \ {c} : pc[d] # "merge" /\ pc'[d] # "merge"
  BY <1>1, <1>2, ActiveIs DEF CoverInv, HeldInv, OneAtATime, Running
<1>6. CoverInv'
  BY <1>1, <1>2, <1>3, <1>4, <1>5, StepCover DEF CoverInv
<1>7. Offered = Cells(rows \cup {plan[c]}) /\ Offered' = Cells(rows')
  <2>1. Offered = Cells(rows \cup {plan[c]})
    BY <1>1, <1>3, <1>5, MergingOffers DEF CoverInv, ApartInv
  <2>2. Offered' = Cells(rows')
    <3>1. \A d \in Call : pc'[d] # "merge"
      BY <1>2, <1>5
    <3> QED
      BY <1>6, <3>1, RestingOffers DEF CoverInv, ApartInv
  <2> QED
    BY <2>1, <2>2
<1>8. \A x : x \in Offered' <=> x \in Offered
  <2>1. CASE plan[c].do
    BY <1>1, <1>4, <1>7, <2>1, CellsOf
  <2>2. CASE ~plan[c].do
    <3>1. PICK r \in rows : r.from <= plan[c].from /\ plan[c].to <= r.to
      BY <1>3, <2>2 DEF MergeIsWhole
    <3>2. r.from \in Nat /\ r.to \in Nat
      BY DEF CoverInv, HeldInv, AvailInv, AvailTypes, Stored
    <3>3. \A x : x \in plan[c].from .. (plan[c].to - 1) => x \in r.from .. (r.to - 1)
      BY <1>3, <3>1, <3>2
    <3> QED
      BY <1>1, <1>7, <2>2, <3>3, CellsOf
  <2> QED
    BY <2>1, <2>2
<1>9. Offered' = Offered
  <2>1. Offered' \subseteq Offered /\ Offered \subseteq Offered'
    BY <1>8
  <2> QED
    BY <2>1
<1>10. UNCHANGED Removed
  BY <1>1, <1>2 DEF Removed
<1> QED
  BY <1>6, <1>9, <1>10 DEF CoverStep

\* The other steps leave the rows, but for the deletion.
LEMMA OtherStepsCover ==
  ASSUME CoverInv, ApartInv', HeldInv', "read" \notin Faults, NEW c \in Call,
         \/ PostReadsBuffer(c) \/ PostChecksConflicts(c)
         \/ DeleteChecksCalendar(c) \/ DeleteReadsImported(c) \/ DeleteRow(c)
  PROVE  CoverInv' /\ CoverStep
<1>1. \/ /\ rows' = rows /\ pc[c] \in {"readBuffer", "conflicts", "deleteCalendar", "deleteImported"}
         /\ \E l \in {"conflicts", "refused", "overlaps", "deleteImported", "copy"} : pc' = [pc EXCEPT ![c] = l]
      \/ /\ \E row \in seen[c] : rows' = Without(row)
         /\ pc[c] = "copy" /\ pc' = [pc EXCEPT ![c] = "deleted"]
  BY DEF PostReadsBuffer, PostChecksConflicts, DeleteChecksCalendar, CheckCalendar, DeleteReadsImported, DeleteRow,
     Goto, At, tables
<1>2. pc[c] \in {"copy", "readBuffer", "conflicts", "deleteCalendar", "deleteImported"} /\ Running(c)
  BY <1>1, ActiveIs DEF Running
<1>3. /\ pc'[c] # "merge" /\ \A d \in Call \ {c} : pc'[d] = pc[d]
      /\ rows' \subseteq rows
      /\ \/ rows' = rows /\ pc'[c] \in {"conflicts", "refused", "overlaps", "deleteImported", "copy"}
         \/ pc[c] = "copy" /\ pc'[c] = "deleted" /\ \E row \in seen[c] : rows' = Without(row)
  BY <1>1 DEF CoverInv, HeldInv, AvailInv, AvailTypes, Without
<1>4. CoverInv'
  BY <1>2, <1>3, StepCover DEF CoverInv
<1>5. \A d \in Call : pc[d] # "merge" /\ pc'[d] # "merge"
  BY <1>2, <1>3, ActiveIs DEF CoverInv, HeldInv, OneAtATime, Running
<1>6. \/ UNCHANGED <<rows, Removed>>
      \/ \E row \in rows : rows' = Without(row) /\ Removed' = Removed \cup {c} /\ c \notin Removed
  <2>1. CASE pc'[c] # "deleted"
    BY <1>2, <1>3, <2>1 DEF Removed
  <2>2. CASE pc'[c] = "deleted"
    <3>1. FoundIsThere(c)
      BY <1>3, <2>2 DEF CoverInv, HeldInv, Deleting
    <3> QED
      BY <1>2, <1>3, <2>2, <3>1 DEF FoundIsThere, Removed
  <2> QED
    BY <2>1, <2>2
<1> QED
  BY <1>4, <1>5, <1>6, RestingStep

LEMMA NextCover ==
  ASSUME CoverInv, ~ParseTime, ~Overlap, Kinds \subseteq {"post", "remove", "delete"}, Faults = {}, [Next]_vars
  PROVE  CoverInv' /\ CoverStep
<1>1. AvailInv' /\ ApartInv'
  BY NextAvail, NextApart DEF CoverInv, ApartInv
<1>2. CASE UNCHANGED vars
  <2>1. HeldInv'
    BY <1>1, <1>2, FaultsHeld DEF CoverInv
  <2> QED
    BY <1>1, <1>2, <2>1 DEF vars, tables, callVars, CoverInv, MergeIsWhole, CoverStep, Removed, Offered, InTable, At
<1>3. ASSUME NEW c \in Call, CallBegins(c)
      PROVE  CoverInv' /\ CoverStep
  BY <1>3, BeginsCover
<1>4. ASSUME NEW c \in Call, CallSteps(c)
      PROVE  CoverInv' /\ CoverStep
  <2>1. HeldInv'
    BY <1>1, <1>4, StepsHeld DEF CoverInv
  <2>2. \/ PostReadsBuffer(c) \/ PostChecksConflicts(c) \/ PostReadsOverlapping(c)
        \/ (\E row \in todo[c] : PostMerges(c, row)) \/ PostCreates(c) \/ PostCreateRefused(c)
        \/ DeleteChecksCalendar(c) \/ DeleteReadsImported(c)
        \/ (\E imp \in todo[c] : DeleteCopies(c, imp)) \/ DeleteRow(c)
    BY <1>4, StepsOfPosts DEF CoverInv, HeldInv
  <2>3. ~PostCreateRefused(c) /\ ~\E imp \in todo[c] : DeleteCopies(c, imp)
    BY DEF PostCreateRefused, DeleteCopies, At, CoverInv, ApartInv, MergeIsApart
  <2> QED
    BY <1>1, <2>1, <2>2, <2>3, PostReadsOverlappingCover, PostMergesCover, PostCreatesCover, OtherStepsCover
<1>5. ~Crash /\ ~\E c \in Call : CallFails(c) \/ ImportTimesOut(c)
  BY DEF Crash, CallFails, ImportTimesOut
<1> QED
  BY <1>2, <1>3, <1>4, <1>5 DEF Next

\* Whatever ranges are posted and deleted one after the other, a post offers its
\* range and, in the middle of deleting and merging any number of rows, takes
\* nothing back; a deletion takes no more than its range
\* (PostModeratorAvailabilityMRA, DeleteModeratorAvailabilityMRA): the rows
\* implement ModeratorCover.  Nothing is imported, times are handed over as
\* MySQL prints them and there are no faults: a merge that is cut off loses
\* what it has deleted.
THEOREM MergingKeepsOffers ==
  ASSUME InitialIsSound, InitialIsNumbered, InitialIsApart, InitialIsInTime, ~ParseTime, ~Overlap,
         Kinds \subseteq {"post", "remove", "delete"}, Faults = {}
  PROVE  Spec => OffersAreKept
<1>1. Init => CoverInv /\ Cover!Init
  <2> SUFFICES ASSUME Init
               PROVE  CoverInv /\ Cover!Init
    OBVIOUS
  <2>1. HeldInv /\ AvailInv
    BY InitHeld DEF HeldInv
  <2>2. \A c \in Call : pc[c] = "idle"
    BY DEF Init
  <2>3. /\ \A r \in rows : r.table = "manual" /\ r.to <= Horizon
        /\ \A x, y \in rows : x # y => ~Meets(x, y)
    BY DEF Init, InitialIsApart, InitialIsInTime
  <2>4. ApartInv
    BY <2>1, <2>2, <2>3 DEF ApartInv, HeldInv
  <2>5. CoverInv
    BY <2>1, <2>2, <2>3, <2>4 DEF CoverInv
  <2>6. Offered = Cells(rows)
    BY <2>2, <2>3, RestingOffers
  <2>7. \A r \in rows : r.from \in Nat /\ r.to \in Nat
    BY <2>1 DEF AvailInv, AvailTypes, Stored
  <2>8. \A x \in Offered : x \in 0 .. (Horizon - 1)
    BY <2>3, <2>6, <2>7, CellsOf, TimesAssumption
  <2> QED
    BY <2>2, <2>5, <2>8 DEF Cover!Init, Cover!Units
<1>2. CoverInv /\ [Next]_vars => CoverInv' /\ [Cover!Next]_<<Offered, Removed>>
  BY NextCover DEF CoverStep
<1> QED
  BY <1>1, <1>2, PTL DEF Spec, OffersAreKept, Cover!Spec, Removed

-----------------------------------------------------------------------------
(* A change of the buffer *)

AnyRow == [id : Nat, table : Tables, from : Int, to : Int]
Positions == {"idle"} \cup Posting \cup Deleting \cup Adjusting \cup Unlinking \cup Final
Passes == {"pass1", "pass2", "erase", "setFrom", "setTo"}

\* A row as it was before the change, of whatever buffer; one that is adjusted,
\* or has no length and is going to be cleaned up.
Whole(r) == r.from < r.to /\ \A i \in Interview : i.to <= r.from \/ r.to <= i.from
Kept(r) == r.from < r.to => Away(r)

\* A start and an end for the row that keep the buffer from the interviews before
\* and after it.
FrontClear(row, t) == \A i \in Interview : i.to <= row.from => i.to + buffer <= t
BackClear(row, t) == \A i \in Interview : row.to <= i.from => t <= i.from - buffer

\* A row that a change has still to come to, and the one that it is at.
Waiting(c, r) ==
  \/ pc[c] = "listManual"
  \/ pc[c] \in {"listImported", "manual"} /\ r.table = "imported"
  \/ pc[c] \in Tables \cup Passes /\ r \in todo[c]
  \/ pc[c] \in Passes /\ r.table = "imported" /\ \E s \in seen[c] : s.table = "manual"
InWork(c, r) == pc[c] \in Passes /\ \E s \in seen[c] : s.id = r.id

\* What the passes know: the row as it was listed, and as it is now.
PassKnows(c, row, al) ==
  /\ al.id = row.id /\ al.table = row.table
  /\ pc[c] \in {"pass1", "setFrom"} => al = row
  /\ pc[c] = "setFrom" => plan[c].from <= row.to /\ FrontClear(row, plan[c].from)
  /\ pc[c] = "pass2" => al.from <= al.to
  /\ pc[c] \in {"pass2", "setTo"} => al.to = row.to /\ FrontClear(row, al.from)
  /\ pc[c] = "setTo" => BackClear(row, plan[c].to)

Adjusts(c) ==
  pc[c] \in Adjusting =>
    /\ buf[c] = buffer /\ buffer <= Hour
    /\ \A r \in rows : Waiting(c, r) /\ ~InWork(c, r) => Whole(r)
    /\ \A r \in rows : ~Waiting(c, r) /\ ~InWork(c, r) => Kept(r)
    /\ pc[c] \in Tables => \A r \in todo[c] : r \in InTable(pc[c])
    /\ pc[c] \in Passes =>
         \E row \in AnyRow, al \in rows :
           /\ seen[c] = {row} /\ Whole(row) /\ PassKnows(c, row, al)
           /\ \A r \in todo[c] : r \in InTable(row.table) /\ r.id # row.id
    /\ pc[c] = "cleanManual" => \A r \in InTable("imported") : r.from < r.to
    /\ pc[c] \in {"nestManual", "nestImported"} => \A r \in rows : r.from < r.to

\* With parseTime=true a post that merges anything creates nothing.
Posts(c) ==
  /\ pc[c] \in {"readBuffer", "conflicts", "overlaps"} => arg[c].from < arg[c].to
  /\ pc[c] = "conflicts" => buf[c] = buffer
  /\ pc[c] = "overlaps" => Away(arg[c])
  /\ pc[c] = "merge" => plan[c].to \in Nat /\ Mergeable(plan[c])

BufferTypes ==
  /\ rows \subseteq AnyRow
  /\ nextId \in Nat
  /\ buffer \in Nat
  /\ pc \in [Call -> Positions]
  /\ arg \in [Call -> AnyRange]
  /\ seen \in [Call -> SUBSET AnyRow]
  /\ todo \in [Call -> SUBSET AnyRow]
  /\ plan \in [Call -> [from : Int, to : Int, do : BOOLEAN]]
  /\ buf \in [Call -> Nat]

BufferInv ==
  /\ BufferTypes
  /\ OneAtATime
  /\ Numbered
  /\ (\A c \in Call : pc[c] \notin Adjusting) => \A r \in rows : Sound(r)
  /\ \A c \in Call : Adjusts(c) /\ Posts(c)

\* Of natural numbers there is a least one.
LEMMA LeastNatural ==
  ASSUME NEW T \in SUBSET Nat, T # {}
  PROVE  \E x \in T : \A y \in T : x <= y
<1> DEFINE R == OpToRel(<, Nat)
<1>1. IsWellFoundedOn(R, Nat)
  BY NatLessThanWellFounded
<1>2. \A x, y \in Nat : x < y => <<x, y>> \in R
  BY DEF OpToRel
<1> HIDE DEF R
<1>3. \E x \in T : \A y \in T : ~(<<y, x>> \in R)
  BY <1>1, WFMin
<1>4. ASSUME NEW x \in T, \A y \in T : ~(<<y, x>> \in R), NEW y \in T
      PROVE  x <= y
  <2>1. x \in Nat /\ y \in Nat /\ ~(<<y, x>> \in R)
    BY <1>4
  <2>2. ~(y < x)
    BY <1>2, <2>1
  <2> QED
    BY <2>1, <2>2
<1> QED
  BY <1>3, <1>4

\* If there is a time within the hour there is a nearest one.
LEMMA NearestIsThere ==
  ASSUME NEW t \in Int, NEW ts \in SUBSET Int, NEW v \in ts, Distance(t, v) <= Hour
  PROVE  Nearest(t, ts) # {}
<1> DEFINE far == {Distance(t, u) : u \in ts}
<1>1. far \in SUBSET Nat /\ Hour \in Nat
  <2>1. \A u \in ts : Distance(t, u) \in Nat
    BY DEF Distance
  <2> QED
    BY <2>1, TimesAssumption
<1>2. PICK d \in far : \A e \in far : d <= e
  <2>1. far # {}
    OBVIOUS
  <2> HIDE DEF far
  <2> QED
    BY <1>1, <2>1, LeastNatural
<1>3. PICK u \in ts : d = Distance(t, u)
  BY <1>2
<1>4. \A w \in ts : Distance(t, u) <= Distance(t, w)
  BY <1>2, <1>3
<1>5. Distance(t, u) <= Hour
  BY <1>1, <1>3, <1>4
<1> QED
  BY <1>4, <1>5 DEF Nearest

\* A row of which no interview is within the hour is far enough from all.
LEMMA FarIsKept ==
  ASSUME buffer \in Nat, buffer <= Hour, NEW r \in AnyRow, ~NearInterview(r)
  PROVE  Kept(r)
BY TimesAssumption, InterviewAssumption DEF NearInterview, Kept, Away, Intrudes, AnyRow

\* The first pass: where no interview ends within the hour, or the nearest that
\* does is after the row, which is not too short, the row's start may stay;
\* otherwise it keeps the buffer from the nearest, and no more of the row is left
\* out than there is.
LEMMA StartIsRight ==
  ASSUME buffer \in Nat, buffer <= Hour, NEW row \in AnyRow, Whole(row)
  PROVE  LET ends == Nearest(row.from, {i.to : i \in Interview})
         IN /\ ends = {} => FrontClear(row, row.from)
            /\ \A e \in ends :
                 /\ e \in Int
                 /\ ~TooShort(row, buffer, row.to <= e + buffer) =>
                      IF e < row.to /\ Distance(e, row.from) <= Hour
                      THEN e + buffer <= row.to /\ FrontClear(row, e + buffer)
                      ELSE FrontClear(row, row.from)
<1> DEFINE ts == {i.to : i \in Interview}
           ends == Nearest(row.from, ts)
<1>1. /\ row.from \in Int /\ row.to \in Int /\ row.from < row.to /\ Hour \in Nat /\ ts \in SUBSET Int
      /\ \A i \in Interview : i.from \in Int /\ i.to \in Int /\ i.from < i.to /\ i.to \in ts
      /\ \A i \in Interview : i.to <= row.from \/ row.to <= i.from
  BY TimesAssumption, InterviewAssumption DEF AnyRow, Whole
<1>2. ASSUME ends = {}
      PROVE  FrontClear(row, row.from)
  <2> SUFFICES ASSUME NEW i \in Interview, i.to <= row.from
               PROVE  i.to + buffer <= row.from
    BY DEF FrontClear
  <2>1. ~(Distance(row.from, i.to) <= Hour)
    BY <1>1, <1>2, NearestIsThere
  <2> QED
    BY <1>1, <2>1 DEF Distance
<1>3. ASSUME NEW e \in ends
      PROVE  /\ e \in Int
             /\ ~TooShort(row, buffer, row.to <= e + buffer) =>
                  IF e < row.to /\ Distance(e, row.from) <= Hour
                  THEN e + buffer <= row.to /\ FrontClear(row, e + buffer)
                  ELSE FrontClear(row, row.from)
  <2>1. e \in ts /\ Distance(row.from, e) <= Hour /\ \A v \in ts : Distance(row.from, e) <= Distance(row.from, v)
    BY <1>3 DEF Nearest
  <2>2. e \in Int /\ e \notin row.from + 1 .. row.to - 1 /\ e # row.to
    BY <1>1, <2>1
  <2> SUFFICES ASSUME ~TooShort(row, buffer, row.to <= e + buffer)
               PROVE  IF e < row.to /\ Distance(e, row.from) <= Hour
                      THEN e + buffer <= row.to /\ FrontClear(row, e + buffer)
                      ELSE FrontClear(row, row.from)
    BY <2>2
  <2>3. row.to - row.from < Hour /\ buffer > row.to - row.from => ~(row.to <= e + buffer)
    BY <1>1 DEF TooShort, Length
  <2>4. ASSUME NEW i \in Interview, i.to <= row.from
        PROVE  /\ e < row.to => i.to <= e
               /\ e >= row.to => i.to + buffer <= row.from
    <3>1. Distance(row.from, e) <= Distance(row.from, i.to)
      BY <1>1, <2>1
    <3>2. CASE e < row.to
      <4>1. e <= row.from
        BY <1>1, <2>2, <3>2
      <4> QED
        BY <1>1, <2>2, <2>4, <3>1, <3>2, <4>1 DEF Distance
    <3>3. CASE e >= row.to
      <4>1. e - row.from <= row.from - i.to
        BY <1>1, <2>2, <2>4, <3>1, <3>3 DEF Distance
      <4>2. e - row.from <= Hour
        BY <1>1, <2>1, <2>2, <3>3 DEF Distance
      <4> QED
        BY <1>1, <2>2, <2>3, <2>4, <3>3, <4>1, <4>2
    <3> QED
      BY <1>1, <2>2, <3>2, <3>3
  <2>5. CASE e < row.to
    <3>1. e <= row.from /\ Distance(e, row.from) <= Hour
      BY <1>1, <2>1, <2>2, <2>5 DEF Distance
    <3>2. e + buffer <= row.to
      BY <1>1, <2>2, <2>3, <3>1
    <3>3. FrontClear(row, e + buffer)
      BY <1>1, <2>2, <2>4, <2>5 DEF FrontClear
    <3> QED
      BY <2>5, <3>1, <3>2, <3>3
  <2>6. CASE ~(e < row.to)
    <3>1. FrontClear(row, row.from)
      BY <1>1, <2>2, <2>4, <2>6 DEF FrontClear
    <3> QED
      BY <2>6, <3>1
  <2> QED
    BY <2>5, <2>6
<1> QED
  BY <1>2, <1>3

\* The second pass, of a row whose start has been adjusted: either the end is
\* set, and keeps the buffer, or the row may stay as it is.
LEMMA EndIsRight ==
  ASSUME buffer \in Nat, buffer <= Hour, NEW row \in AnyRow, Whole(row),
         NEW al \in AnyRow, al.to = row.to, al.from <= al.to, FrontClear(row, al.from)
  PROVE  LET starts == Nearest(row.to, {i.from : i \in Interview})
         IN /\ starts = {} => Kept(al)
            /\ \A s \in starts :
                 /\ s \in Int
                 /\ IF s > al.from /\ Distance(s, al.to) <= Hour THEN BackClear(row, s - buffer) ELSE Kept(al)
<1> DEFINE ts == {i.from : i \in Interview}
           starts == Nearest(row.to, ts)
<1>1. /\ row.from \in Int /\ row.to \in Int /\ row.from < row.to /\ Hour \in Nat /\ ts \in SUBSET Int
      /\ al.from \in Int /\ al.to \in Int
      /\ \A i \in Interview : i.from \in Int /\ i.to \in Int /\ i.from < i.to /\ i.from \in ts
      /\ \A i \in Interview : i.to <= row.from \/ row.to <= i.from
      /\ \A i \in Interview : i.to <= row.from => i.to + buffer <= al.from
  BY TimesAssumption, InterviewAssumption DEF AnyRow, Whole, FrontClear
<1>2. ASSUME \A i \in Interview : row.to <= i.from => row.to <= i.from - buffer
      PROVE  Kept(al)
  BY <1>1, <1>2 DEF Kept, Away, Intrudes
<1>3. ASSUME starts = {}
      PROVE  Kept(al)
  <2> SUFFICES ASSUME NEW i \in Interview, row.to <= i.from
               PROVE  row.to <= i.from - buffer
    BY <1>2
  <2>1. ~(Distance(row.to, i.from) <= Hour)
    BY <1>1, <1>3, NearestIsThere
  <2> QED
    BY <1>1, <2>1 DEF Distance
<1>4. ASSUME NEW s \in starts
      PROVE  /\ s \in Int
             /\ IF s > al.from /\ Distance(s, al.to) <= Hour THEN BackClear(row, s - buffer) ELSE Kept(al)
  <2>1. s \in ts /\ Distance(row.to, s) <= Hour /\ \A v \in ts : Distance(row.to, s) <= Distance(row.to, v)
    BY <1>4 DEF Nearest
  <2>2. PICK j \in Interview : s = j.from
    BY <2>1
  <2>3. s \in Int /\ Distance(s, al.to) <= Hour
    BY <1>1, <2>1, <2>2 DEF Distance
  <2>4. CASE s > al.from
    <3>1. row.to <= s
      BY <1>1, <2>2, <2>3, <2>4
    <3>2. ASSUME NEW i \in Interview, row.to <= i.from
          PROVE  s - buffer <= i.from - buffer
      <4>1. Distance(row.to, s) <= Distance(row.to, i.from)
        BY <1>1, <2>1
      <4> QED
        BY <1>1, <2>3, <3>1, <3>2, <4>1 DEF Distance
    <3>3. BackClear(row, s - buffer)
      BY <3>2 DEF BackClear
    <3> QED
      BY <2>3, <2>4, <3>3
  <2>5. CASE ~(s > al.from)
    <3>1. ASSUME al.from < al.to, NEW i \in Interview, row.to <= i.from
          PROVE  row.to <= i.from - buffer
      <4>1. Distance(row.to, s) <= Distance(row.to, i.from)
        BY <1>1, <2>1
      <4>2. s < row.to /\ j.to <= row.from
        BY <1>1, <2>2, <2>3, <2>5, <3>1
      <4>3. s + buffer < row.to
        BY <1>1, <2>2, <2>3, <3>1, <4>2
      <4> QED
        BY <1>1, <2>3, <3>1, <4>1, <4>2, <4>3 DEF Distance
    <3>2. Kept(al)
      BY <1>1, <1>2, <3>1 DEF Kept
    <3> QED
      BY <2>3, <2>5, <3>2
  <2> QED
    BY <2>3, <2>4, <2>5
<1> QED
  BY <1>3, <1>4

\* A step is of the one call that runs; of the others there is nothing to show.
LEMMA OneSteps ==
  ASSUME BufferInv, BufferTypes', Numbered', NEW c \in Call, Running(c) \/ Quiet,
         \A d \in Call \ {c} : pc'[d] = pc[d],
         Adjusts(c)', Posts(c)', pc'[c] \notin Adjusting => \A r \in rows' : Sound(r)'
  PROVE  BufferInv'
<1>1. \A d \in Call \ {c} : pc'[d] \notin Active
  BY DEF BufferInv, OneAtATime, Quiet, Running
<1>2. OneAtATime'
  BY <1>1 DEF OneAtATime, Running
<1>3. ASSUME NEW d \in Call \ {c}
      PROVE  Adjusts(d)' /\ Posts(d)'
  <2>1. pc'[d] \notin Adjusting /\ pc'[d] \notin Posting
    BY <1>1 DEF Active
  <2> QED
    BY <2>1 DEF Adjusts, Posts, Posting
<1> QED
  BY <1>2, <1>3 DEF BufferInv

\* Unless a change of the buffer is under way the rows are sound.
LEMMA RestingIsSound ==
  ASSUME BufferInv, NEW c \in Call, (Running(c) /\ pc[c] \notin Adjusting) \/ Quiet
  PROVE  \A r \in rows : Sound(r)
BY DEF BufferInv, OneAtATime, Quiet, Running, Active

\* A step that is no part of a change of the buffer and creates no row.
LEMMA PlainStep ==
  ASSUME BufferInv, NEW c \in Call, (Running(c) /\ pc[c] \notin Adjusting) \/ Quiet,
         NEW l \in Positions \ Adjusting, pc' = [pc EXCEPT ![c] = l],
         rows' \subseteq rows, UNCHANGED <<nextId, buffer>>,
         arg' \in [Call -> AnyRange], seen' \in [Call -> SUBSET AnyRow], todo' \in [Call -> SUBSET AnyRow],
         plan' \in [Call -> [from : Int, to : Int, do : BOOLEAN]], buf' \in [Call -> Nat],
         pc'[c] = l => Posts(c)'
  PROVE  BufferInv'
<1>1. pc' \in [Call -> Positions] /\ pc'[c] = l /\ \A d \in Call \ {c} : pc'[d] = pc[d]
  BY DEF BufferInv, BufferTypes
<1>2. BufferTypes' /\ Numbered'
  BY <1>1 DEF BufferInv, BufferTypes, Numbered
<1>3. \A r \in rows' : Sound(r)'
  BY RestingIsSound DEF Sound, Away
<1> QED
  BY <1>1, <1>2, <1>3, OneSteps DEF Adjusts

LEMMA PostChecksBuffer ==
  ASSUME BufferInv, ParseTime, "read" \notin Faults, NEW c \in Call,
         PostReadsBuffer(c) \/ PostChecksConflicts(c) \/ PostReadsOverlapping(c)
  PROVE  BufferInv'
<1>1. CASE PostReadsBuffer(c)
  <2>1. /\ UNCHANGED <<tables, arg, seen, todo, plan>> /\ pc[c] = "readBuffer"
        /\ buf' = [buf EXCEPT ![c] = buffer] /\ pc' = [pc EXCEPT ![c] = "conflicts"]
    BY <1>1 DEF PostReadsBuffer, Goto, At
  <2>2. buf' \in [Call -> Nat] /\ buf'[c] = buffer
    BY <2>1 DEF BufferInv, BufferTypes
  <2>3. arg[c].from < arg[c].to
    BY <2>1 DEF BufferInv, Posts
  <2>4. Running(c) /\ pc[c] \notin Adjusting /\ "conflicts" \in Positions \ Adjusting
    BY <2>1 DEF Running, Active, Adjusting, Posting, Positions
  <2> QED
    BY <2>1, <2>2, <2>3, <2>4, PlainStep DEF BufferInv, BufferTypes, Posts, tables
<1>2. CASE PostChecksConflicts(c)
  <2>1. /\ UNCHANGED <<tables, arg, seen, todo, plan, buf>> /\ pc[c] = "conflicts"
        /\ \/ pc' = [pc EXCEPT ![c] = "refused"]
           \/ pc' = [pc EXCEPT ![c] = "overlaps"] /\ \A i \in Interview : ~Conflicts(arg[c], i, buf[c])
    BY <1>2 DEF PostChecksConflicts, Goto, At
  <2>2. arg[c] \in [from : Int, to : Int] /\ arg[c].from < arg[c].to /\ buf[c] = buffer /\ buffer \in Nat
    BY <2>1, TimesAssumption DEF BufferInv, BufferTypes, Posts, AnyRange, Times
  <2>3. Running(c) /\ pc[c] \notin Adjusting /\ {"refused", "overlaps"} \subseteq Positions \ Adjusting
    BY <2>1 DEF Running, Active, Adjusting, Posting, Positions, Final
  <2>4. CASE pc' = [pc EXCEPT ![c] = "refused"]
    BY <2>1, <2>3, <2>4, PlainStep DEF BufferInv, BufferTypes, Posts, tables
  <2>5. CASE pc' = [pc EXCEPT ![c] = "overlaps"] /\ \A i \in Interview : ~Conflicts(arg[c], i, buf[c])
    <3>1. Away(arg[c])
      BY <2>2, <2>5, InterviewAssumption, ConflictsMissNothing DEF Away
    <3>2. Away(arg[c])'
      BY <2>1, <3>1 DEF Away, tables
    <3> QED
      BY <2>1, <2>2, <2>3, <2>5, <3>2, PlainStep DEF BufferInv, BufferTypes, Posts, tables
  <2> QED
    BY <2>1, <2>4, <2>5
<1>3. CASE PostReadsOverlapping(c)
  <2> DEFINE near == {r \in InTable("manual") : Overlaps(arg[c], r)}
             new == [from |-> arg[c].from, to |-> arg[c].to, do |-> TRUE]
  <2>1. /\ UNCHANGED <<tables, arg, seen, buf>> /\ pc[c] = "overlaps"
        /\ pc' = [pc EXCEPT ![c] = "merge"]
        /\ todo' = [todo EXCEPT ![c] = near] /\ plan' = [plan EXCEPT ![c] = new]
    BY <1>3 DEF PostReadsOverlapping, Goto, At
  <2>2. arg[c] \in [from : Nat, to : Nat] /\ arg[c].from < arg[c].to /\ Away(arg[c])
    BY <2>1, TimesAssumption DEF BufferInv, BufferTypes, Posts, AnyRange, Times
  <2>3. near \subseteq AnyRow /\ new \in [from : Int, to : Int, do : BOOLEAN]
    BY <2>2 DEF InTable, BufferInv, BufferTypes
  <2>4. new.from \in Nat /\ new.to \in Nat /\ new.from < new.to /\ Away(new)
    BY <2>2 DEF Away, Intrudes
  <2> HIDE DEF near, new
  <2>5. /\ todo' \in [Call -> SUBSET AnyRow]
        /\ plan' \in [Call -> [from : Int, to : Int, do : BOOLEAN]] /\ plan'[c] = new
    BY <2>1, <2>3 DEF BufferInv, BufferTypes
  <2>6. Running(c) /\ pc[c] \notin Adjusting /\ "merge" \in Positions \ Adjusting
    BY <2>1 DEF Running, Active, Adjusting, Posting, Positions
  <2>7. pc'[c] = "merge" => Posts(c)'
    BY <2>1, <2>4, <2>5 DEF Posts, Mergeable, Sound, Away, tables
  <2> QED
    BY <2>1, <2>5, <2>6, <2>7, PlainStep DEF BufferInv, BufferTypes, tables
<1> QED
  BY <1>1, <1>2, <1>3

\* A row that is met leaves a range that is not created, its start is the zero time.
LEMMA PostMergesBuffer ==
  ASSUME BufferInv, ParseTime, NEW c \in Call, NEW row \in todo[c], PostMerges(c, row)
  PROVE  BufferInv'
<1> DEFINE n == Merged(plan[c], Parsed(row))
<1>1. /\ UNCHANGED <<nextId, calendar, buffer, pc, arg, seen, buf>> /\ pc[c] = "merge"
      /\ plan' = [plan EXCEPT ![c] = n] /\ todo' = [todo EXCEPT ![c] = @ \ {row}]
      /\ rows' \subseteq rows
  BY DEF PostMerges, At, Without
<1>2. /\ plan[c] \in [from : Int, to : Int, do : BOOLEAN] /\ plan[c].to \in Nat
      /\ plan[c].from = Zero \/ plan[c].from \in Nat
  BY <1>1 DEF BufferInv, BufferTypes, Posts, Mergeable
<1>3. n \in [from : Int, to : Int, do : BOOLEAN] /\ n.from = Zero /\ n.to \in Nat
  BY <1>2 DEF Merged, Parsed, Within, Wraps, Zero
<1> HIDE DEF n
<1>4. /\ plan' \in [Call -> [from : Int, to : Int, do : BOOLEAN]] /\ plan'[c] = n
      /\ todo' \in [Call -> SUBSET AnyRow]
  BY <1>1, <1>3 DEF BufferInv, BufferTypes
<1>5. Running(c) /\ pc[c] \notin Adjusting /\ "merge" \in Positions \ Adjusting /\ pc' = [pc EXCEPT ![c] = "merge"]
  BY <1>1 DEF Running, Active, Adjusting, Posting, Positions, BufferInv, BufferTypes
<1>6. pc'[c] = "merge" => Posts(c)'
  BY <1>3, <1>4 DEF Posts, Mergeable
<1> QED
  BY <1>1, <1>4, <1>5, <1>6, PlainStep DEF BufferInv, BufferTypes

LEMMA PostEndsBuffer ==
  ASSUME BufferInv, NEW c \in Call, PostCreates(c) \/ PostCreateRefused(c)
  PROVE  BufferInv'
<1>1. /\ UNCHANGED <<calendar, buffer, arg, seen, todo, plan, buf>> /\ pc[c] = "merge"
      /\ \E l \in {"posted", "failed"} : pc' = [pc EXCEPT ![c] = l]
      /\ \/ UNCHANGED <<rows, nextId>>
         \/ plan[c].from # Zero /\ Insert("manual", plan[c])
  BY DEF PostCreates, PostCreateRefused, Goto, At, tables
<1>2. Running(c) /\ pc[c] \notin Adjusting /\ {"posted", "failed"} \subseteq Positions \ Adjusting
  BY <1>1 DEF Running, Active, Adjusting, Posting, Positions, Final
<1>3. CASE UNCHANGED <<rows, nextId>>
  BY <1>1, <1>2, <1>3, PlainStep DEF BufferInv, BufferTypes, Posts
<1>4. CASE plan[c].from # Zero /\ Insert("manual", plan[c])
  <2> DEFINE new == [id |-> nextId, table |-> "manual", from |-> plan[c].from, to |-> plan[c].to]
  <2>1. rows' = rows \cup {new} /\ nextId' = nextId + 1
    BY <1>4 DEF Insert
  <2>2. plan[c].from \in Nat /\ plan[c].to \in Nat /\ Sound(plan[c]) /\ nextId \in Nat
    BY <1>1, <1>4 DEF BufferInv, BufferTypes, Posts, Mergeable
  <2>3. new \in AnyRow /\ Sound(new) /\ new.id = nextId
    BY <2>2 DEF AnyRow, Tables, Sound, Away, Intrudes
  <2> HIDE DEF new
  <2>4. \A r \in rows : Sound(r)
    BY <1>2, RestingIsSound
  <2>5. \A r \in rows' : Sound(r)'
    BY <1>1, <2>1, <2>3, <2>4 DEF Sound, Away
  <2>6. Numbered'
    <3>1. \A r \in rows : r.id \in Nat /\ r.id < nextId
      BY DEF BufferInv, BufferTypes, Numbered, AnyRow
    <3> QED
      BY <2>1, <2>2, <2>3, <3>1 DEF BufferInv, Numbered
  <2>7. pc' \in [Call -> Positions] /\ pc'[c] \in {"posted", "failed"} /\ \A d \in Call \ {c} : pc'[d] = pc[d]
    BY <1>1, <1>2 DEF BufferInv, BufferTypes
  <2>8. BufferTypes'
    BY <1>1, <2>1, <2>2, <2>3, <2>7 DEF BufferInv, BufferTypes
  <2> QED
    BY <1>2, <2>5, <2>6, <2>7, <2>8, OneSteps DEF Adjusts, Posts
<1> QED
  BY <1>1, <1>3, <1>4

\* Deletions copy nothing with parseTime=true; unlinking removes imported rows.
LEMMA RemovalsBuffer ==
  ASSUME BufferInv, ParseTime, Faults \cap {"read", "statement"} = {}, NEW c \in Call,
         \/ DeleteChecksCalendar(c) \/ DeleteReadsImported(c)
         \/ (\E imp \in todo[c] : DeleteCopies(c, imp)) \/ DeleteRow(c)
         \/ UnlinkDeletesRows(c) \/ UnlinkDeletesStatus(c)
  PROVE  BufferInv'
<1>1. /\ rows' \subseteq rows /\ UNCHANGED <<nextId, buffer, arg, seen, plan, buf>>
      /\ todo' \in [Call -> SUBSET AnyRow]
      /\ pc[c] \in Deleting \cup Unlinking
      /\ \E l \in {"refused", "deleteImported", "copy", "deleted", "unlinkStatus", "unlinked"} :
           pc' = [pc EXCEPT ![c] = l]
  <2>1. CASE DeleteChecksCalendar(c)
    BY <2>1 DEF DeleteChecksCalendar, CheckCalendar, Goto, At, tables, Deleting, BufferInv, BufferTypes
  <2>2. CASE DeleteReadsImported(c)
    <3>1. PICK row \in seen[c] : todo' = [todo EXCEPT ![c] = {r \in InTable("imported") : OverlapsInside(row, r)}]
      BY <2>2 DEF DeleteReadsImported
    <3>2. todo' \in [Call -> SUBSET AnyRow]
      BY <3>1 DEF InTable, BufferInv, BufferTypes
    <3> QED
      BY <2>2, <3>2 DEF DeleteReadsImported, Goto, At, tables, Deleting
  <2>3. CASE \E imp \in todo[c] : DeleteCopies(c, imp)
    <3>1. PICK imp \in todo[c] : DeleteCopies(c, imp)
      BY <2>3
    <3>2. todo' \in [Call -> SUBSET AnyRow]
      BY <3>1 DEF DeleteCopies, BufferInv, BufferTypes
    <3>3. pc[c] = "copy" /\ pc' = [pc EXCEPT ![c] = "copy"]
      BY <3>1 DEF DeleteCopies, At, BufferInv, BufferTypes
    <3> QED
      BY <3>1, <3>2, <3>3 DEF DeleteCopies, Deleting
  <2>4. CASE DeleteRow(c)
    BY <2>4 DEF DeleteRow, Goto, At, Without, Deleting, BufferInv, BufferTypes
  <2>5. CASE UnlinkDeletesRows(c) \/ UnlinkDeletesStatus(c)
    BY <2>5 DEF UnlinkDeletesRows, UnlinkDeletesStatus, Goto, At, InTable, Unlinking, BufferInv, BufferTypes
  <2> QED
    BY <2>1, <2>2, <2>3, <2>4, <2>5
<1>2. Running(c) /\ pc[c] \notin Adjusting
  BY <1>1 DEF Running, Active, Adjusting, Deleting, Unlinking
<1>3. {"refused", "deleteImported", "copy", "deleted", "unlinkStatus", "unlinked"} \subseteq Positions \ Adjusting
  BY DEF Adjusting, Deleting, Unlinking, Positions, Final
<1>4. pc'[c] \in {"refused", "deleteImported", "copy", "deleted", "unlinkStatus", "unlinked"} => Posts(c)'
  BY DEF Posts
<1> QED
  BY <1>1, <1>2, <1>3, <1>4, PlainStep DEF BufferInv, BufferTypes

-----------------------------------------------------------------------------
(* The steps of the change *)

\* A step of the change that leaves the rows: what it knows afterwards follows
\* from what it knew.
LEMMA LookStep ==
  ASSUME BufferInv, NEW c \in Call, pc[c] \in Adjusting,
         NEW l \in Adjusting, pc' = [pc EXCEPT ![c] = l],
         UNCHANGED <<rows, nextId, buffer, arg, buf>>,
         seen' \in [Call -> SUBSET AnyRow], todo' \in [Call -> SUBSET AnyRow],
         plan' \in [Call -> [from : Int, to : Int, do : BOOLEAN]],
         pc'[c] = l => Adjusts(c)'
  PROVE  BufferInv'
<1>1. pc' \in [Call -> Positions] /\ pc'[c] = l /\ \A d \in Call \ {c} : pc'[d] = pc[d]
  BY DEF BufferInv, BufferTypes, Positions
<1>2. BufferTypes' /\ Numbered'
  BY <1>1 DEF BufferInv, BufferTypes, Numbered
<1>3. Posts(c)'
  BY <1>1 DEF Posts, Adjusting
<1> QED
  BY <1>1, <1>2, <1>3, OneSteps DEF Running, Active

LEMMA BufferListsBuffer ==
  ASSUME BufferInv, NEW c \in Call, NEW t \in Tables, BufferLists(c, t)
  PROVE  BufferInv'
<1> DEFINE near == {r \in InTable(t) : NearInterview(r)}
<1>1. /\ UNCHANGED <<tables, arg, seen, plan, buf>>
      /\ pc[c] = (IF t = "manual" THEN "listManual" ELSE "listImported")
      /\ todo' = [todo EXCEPT ![c] = near] /\ pc' = [pc EXCEPT ![c] = t]
  BY DEF BufferLists, Goto, At
<1>2. near \subseteq InTable(t) /\ rows \subseteq AnyRow /\ InTable(t) \subseteq rows
  BY DEF InTable, BufferInv, BufferTypes
<1>3. todo' \in [Call -> SUBSET AnyRow] /\ todo'[c] = near
  BY <1>1, <1>2 DEF BufferInv, BufferTypes
<1>4. pc[c] \in Adjusting /\ t \in Adjusting /\ t \notin Passes /\ buf[c] = buffer /\ buffer <= Hour
  BY <1>1 DEF Adjusting, Tables, Passes, BufferInv, Adjusts
<1>5. ASSUME pc'[c] = t
      PROVE  Adjusts(c)'
  <2>1. ASSUME NEW r \in rows, (Waiting(c, r) /\ ~InWork(c, r))'
        PROVE  Whole(r)
    <3>1. r \in near \/ (t = "manual" /\ r.table = "imported")
      BY <1>1, <1>3, <1>4, <1>5, <2>1 DEF Waiting, Tables
    <3>2. Waiting(c, r) /\ ~InWork(c, r)
      BY <1>1, <1>4, <3>1 DEF Waiting, InWork, Tables, Passes, InTable
    <3> QED
      BY <1>4, <3>2 DEF BufferInv, Adjusts
  <2>2. ASSUME NEW r \in rows, (~Waiting(c, r) /\ ~InWork(c, r))'
        PROVE  Kept(r)
    <3>1. r \notin near /\ ~(t = "manual" /\ r.table = "imported")
      BY <1>1, <1>3, <1>5, <2>2 DEF Waiting, Tables
    <3>2. CASE r.table = t
      BY <1>2, <1>4, <3>1, <3>2, FarIsKept DEF InTable, BufferInv, BufferTypes
    <3>3. CASE r.table # t
      <4>1. t = "imported" /\ r.table = "manual"
        BY <1>2, <3>1, <3>3 DEF AnyRow, Tables
      <4>2. ~Waiting(c, r) /\ ~InWork(c, r)
        BY <1>1, <4>1 DEF Waiting, InWork, Tables, Passes
      <4> QED
        BY <1>4, <4>2 DEF BufferInv, Adjusts
    <3> QED
      BY <3>2, <3>3
  <2>3. \A r \in todo'[c] : r \in rows' /\ r.table = pc'[c]
    BY <1>1, <1>2, <1>3, <1>5 DEF InTable, tables
  <2>4. (\A r : Whole(r)' = Whole(r)) /\ (\A r : Kept(r)' = Kept(r))
    BY <1>1 DEF Whole, Kept, Away, tables
  <2>5. pc'[c] \notin Passes \cup {"cleanManual", "nestManual", "nestImported"}
    BY <1>5 DEF Passes, Tables
  <2> QED
    BY <1>1, <1>4, <2>1, <2>2, <2>3, <2>4, <2>5 DEF Adjusts, InTable, tables
<1> HIDE DEF near
<1> QED
  BY <1>1, <1>3, <1>4, <1>5, LookStep DEF BufferInv, BufferTypes, tables

LEMMA BufferTakesBuffer ==
  ASSUME BufferInv, NEW c \in Call, NEW row \in todo[c], BufferTakes(c, row)
  PROVE  BufferInv'
<1>1. /\ UNCHANGED <<tables, arg, plan, buf>> /\ pc[c] \in Tables
      /\ seen' = [seen EXCEPT ![c] = {row}] /\ todo' = [todo EXCEPT ![c] = @ \ {row}]
      /\ pc' = [pc EXCEPT ![c] = "pass1"]
  BY DEF BufferTakes, Goto
<1>2. pc[c] \in Adjusting /\ pc[c] \notin Passes /\ "pass1" \in Adjusting
  BY <1>1 DEF Adjusting, Tables, Passes
<1>3. /\ row \in rows /\ row \in AnyRow /\ row.table = pc[c]
      /\ \A r \in todo[c] : r \in InTable(row.table)
      /\ buf[c] = buffer /\ buffer <= Hour
  BY <1>1, <1>2 DEF BufferInv, BufferTypes, Adjusts, InTable
<1>4. Waiting(c, row) /\ ~InWork(c, row)
  BY <1>1, <1>2 DEF Waiting, InWork
<1>5. Whole(row)
  BY <1>2, <1>3, <1>4 DEF BufferInv, Adjusts
<1>6. /\ seen' \in [Call -> SUBSET AnyRow] /\ seen'[c] = {row}
      /\ todo' \in [Call -> SUBSET AnyRow] /\ todo'[c] = todo[c] \ {row}
  BY <1>1, <1>3 DEF BufferInv, BufferTypes
<1>7. ASSUME pc'[c] = "pass1"
      PROVE  Adjusts(c)'
  <2>1. \A r \in rows : InWork(c, r)' <=> r = row
    BY <1>3, <1>6, <1>7 DEF InWork, Passes, BufferInv, Numbered
  <2>2. ASSUME NEW r \in rows, r # row
        PROVE  Waiting(c, r)' <=> Waiting(c, r)
    <3>1. Waiting(c, r)' <=> (r \in todo'[c] \/ (r.table = "imported" /\ row.table = "manual"))
      BY <1>6, <1>7 DEF Waiting, Passes, Tables
    <3>2. Waiting(c, r) <=> (r \in todo[c] \/ (r.table = "imported" /\ pc[c] = "manual"))
      BY <1>1, <1>2 DEF Waiting, Tables, Passes
    <3> QED
      BY <1>3, <1>6, <2>2, <3>1, <3>2
  <2>3. \A r \in rows : ~InWork(c, r)
    BY <1>2 DEF InWork
  <2>4. (\A r : Whole(r)' = Whole(r)) /\ (\A r : Kept(r)' = Kept(r))
    BY <1>1 DEF Whole, Kept, Away, tables
  <2>5. PassKnows(c, row, row)'
    BY <1>7 DEF PassKnows
  <2>6. \A r \in todo'[c] : r \in InTable(row.table)' /\ r.id # row.id
    BY <1>1, <1>3, <1>6 DEF InTable, tables, BufferInv, Numbered
  <2>7. pc'[c] \in Passes /\ pc'[c] \notin Tables \cup {"cleanManual", "nestManual", "nestImported"}
    BY <1>7 DEF Passes, Tables
  <2>8. \A r \in rows : r # row => (Waiting(c, r) => Whole(r)) /\ (~Waiting(c, r) => Kept(r))
    BY <1>2, <2>3 DEF BufferInv, Adjusts
  <2> QED
    BY <1>1, <1>3, <1>5, <1>6, <2>1, <2>2, <2>4, <2>5, <2>6, <2>7, <2>8 DEF Adjusts, tables
<1> QED
  BY <1>1, <1>2, <1>6, <1>7, LookStep DEF BufferInv, BufferTypes, tables

LEMMA BufferTableDoneBuffer ==
  ASSUME BufferInv, NEW c \in Call, BufferTableDone(c)
  PROVE  BufferInv'
<1>1. /\ UNCHANGED <<tables, arg, seen, todo, plan, buf>> /\ pc[c] \in Tables /\ todo[c] = {}
      /\ pc' = [pc EXCEPT ![c] = IF pc[c] = "manual" THEN "listImported" ELSE "cleanImported"]
  BY DEF BufferTableDone, Goto, At
<1> DEFINE l == IF pc[c] = "manual" THEN "listImported" ELSE "cleanImported"
<1>2. pc[c] \in Adjusting /\ pc[c] \notin Passes /\ l \in Adjusting
  BY <1>1 DEF Adjusting, Tables, Passes
<1>3. ASSUME pc'[c] = l
      PROVE  Adjusts(c)'
  <2>1. ASSUME NEW r \in rows
        PROVE  /\ ~InWork(c, r) /\ ~InWork(c, r)'
               /\ Waiting(c, r)' <=> Waiting(c, r)
    BY <1>1, <1>2, <1>3 DEF InWork, Waiting, Tables, Passes
  <2>2. (\A r : Whole(r)' = Whole(r)) /\ (\A r : Kept(r)' = Kept(r))
    BY <1>1 DEF Whole, Kept, Away, tables
  <2>3. pc'[c] \notin Tables \cup Passes \cup {"cleanManual", "nestManual", "nestImported"}
    BY <1>3 DEF Passes, Tables
  <2> QED
    BY <1>1, <1>2, <2>1, <2>2, <2>3 DEF Adjusts, BufferInv, tables
<1> QED
  BY <1>1, <1>2, <1>3, LookStep DEF BufferInv, BufferTypes, tables

\* The row at hand, as listed and as it is now; of the others what there was to
\* know before it was taken.
LEMMA RowAtHand ==
  ASSUME BufferInv, NEW c \in Call, pc[c] \in Passes
  PROVE  \E row \in AnyRow, al \in AnyRow :
           /\ seen[c] = {row} /\ Whole(row) /\ PassKnows(c, row, al)
           /\ al.id = row.id /\ al.table = row.table
           /\ {r \in rows : r.id = row.id} = {al} /\ rows = Without(row) \cup {al}
           /\ \A r \in todo[c] : r \in Without(row) /\ r.table = row.table
           /\ \A r \in Without(row) : (Waiting(c, r) => Whole(r)) /\ (~Waiting(c, r) => Kept(r))
<1>1. pc[c] \in Adjusting
  BY DEF Passes, Adjusting
<1>2. PICK row \in AnyRow, al \in rows :
        /\ seen[c] = {row} /\ Whole(row) /\ PassKnows(c, row, al)
        /\ \A r \in todo[c] : r \in InTable(row.table) /\ r.id # row.id
  BY <1>1 DEF BufferInv, Adjusts
<1>3. al \in AnyRow /\ al.id = row.id /\ al.table = row.table
  BY <1>2 DEF PassKnows, BufferInv, BufferTypes
<1>4. \A r \in rows : r.id = row.id => r = al
  BY <1>3 DEF BufferInv, Numbered
<1>5. {r \in rows : r.id = row.id} = {al} /\ rows = Without(row) \cup {al}
  BY <1>2, <1>3, <1>4 DEF Without
<1>6. \A r \in todo[c] : r \in Without(row) /\ r.table = row.table
  BY <1>2 DEF Without, InTable
<1>7. \A r \in Without(row) : r \in rows /\ ~InWork(c, r)
  BY <1>2 DEF Without, InWork
<1>8. \A r \in Without(row) : (Waiting(c, r) => Whole(r)) /\ (~Waiting(c, r) => Kept(r))
  BY <1>1, <1>7 DEF BufferInv, Adjusts
<1> QED
  BY <1>2, <1>3, <1>5, <1>6, <1>8

\* The row at hand is replaced by new, which holds one row or none, with its id.
LEMMA OneReplaced ==
  ASSUME BufferInv, NEW row \in AnyRow, NEW al \in rows, al.id = row.id,
         NEW new \in SUBSET AnyRow, \A a \in new : a.id = row.id, \A a, b \in new : a = b,
         rows' = Without(row) \cup new, UNCHANGED nextId
  PROVE  rows' \subseteq AnyRow /\ Numbered'
<1>1. \A r \in Without(row) : r \in rows /\ r \in AnyRow /\ r.id # row.id
  BY DEF Without, BufferInv, BufferTypes
<1>2. rows' \subseteq AnyRow
  BY <1>1
<1>3. \A x, y \in rows : x.id = y.id => x = y
  BY DEF BufferInv, Numbered
<1>4. row.id < nextId /\ \A r \in rows : r.id < nextId
  BY DEF BufferInv, Numbered
<1>5. \A x, y \in rows' : x.id = y.id => x = y
  BY <1>1, <1>3
<1>6. \A r \in rows' : r.id < nextId
  BY <1>1, <1>4
<1> QED
  BY <1>2, <1>5, <1>6 DEF Numbered

\* A step of a pass after which the row is still at hand.
LEMMA PassGoesOn ==
  ASSUME BufferInv, NEW c \in Call, pc[c] \in Passes,
         NEW row \in AnyRow, NEW al \in AnyRow, NEW a \in AnyRow,
         seen[c] = {row}, Whole(row), al.id = row.id, rows = Without(row) \cup {al},
         \A r \in todo[c] : r \in Without(row) /\ r.table = row.table,
         \A r \in Without(row) : (Waiting(c, r) => Whole(r)) /\ (~Waiting(c, r) => Kept(r)),
         rows' = Without(row) \cup {a}, a.id = row.id,
         NEW l \in Passes, pc' = [pc EXCEPT ![c] = l],
         UNCHANGED <<nextId, buffer, arg, seen, todo, buf>>,
         plan' \in [Call -> [from : Int, to : Int, do : BOOLEAN]],
         pc'[c] = l => PassKnows(c, row, a)'
  PROVE  BufferInv'
<1>1. pc[c] \in Adjusting /\ l \in Adjusting /\ pc[c] \in Active
  BY DEF Passes, Adjusting, Active
<1>2. pc' \in [Call -> Positions] /\ pc'[c] = l /\ \A d \in Call \ {c} : pc'[d] = pc[d]
  BY <1>1 DEF BufferInv, BufferTypes, Positions
<1>3. rows' \subseteq AnyRow /\ Numbered'
  <2> DEFINE new == {a}
  <2>1. new \in SUBSET AnyRow /\ (\A x \in new : x.id = row.id) /\ \A x, y \in new : x = y
    OBVIOUS
  <2> HIDE DEF new
  <2>2. al \in rows /\ rows' = Without(row) \cup new
    BY DEF new
  <2> QED
    BY <2>1, <2>2, OneReplaced
<1>4. BufferTypes'
  BY <1>2, <1>3 DEF BufferInv, BufferTypes
<1>5. Posts(c)'
  BY <1>1, <1>2 DEF Posts, Adjusting
<1>6. Adjusts(c)'
  <2>1. \A r \in Without(row) : Waiting(c, r)' <=> Waiting(c, r)
    BY <1>2 DEF Waiting, Passes, Tables
  <2>2. \A r : (Whole(r)' <=> Whole(r)) /\ (Kept(r)' <=> Kept(r))
    BY DEF Whole, Kept, Away
  <2>3. InWork(c, a)'
    BY <1>2 DEF InWork
  <2>4. \A r \in rows' : ~InWork(c, r)' => r \in Without(row)
    BY <2>3
  <2>5. \A r \in todo'[c] : r \in rows' /\ r.table = row.table /\ r.id # row.id
    BY DEF Without
  <2>6. l \notin Tables \cup {"cleanManual", "nestManual", "nestImported"}
    BY DEF Passes, Tables
  <2>7. buf[c] = buffer /\ buffer <= Hour
    BY <1>1 DEF BufferInv, Adjusts
  <2>8. seen'[c] = {row} /\ Whole(row)' /\ PassKnows(c, row, a)' /\ a \in rows'
    BY <1>2, <2>2
  <2> QED
    BY <1>2, <2>1, <2>2, <2>4, <2>5, <2>6, <2>7, <2>8 DEF Adjusts, InTable
<1> QED
  BY <1>1, <1>2, <1>3, <1>4, <1>5, <1>6, OneSteps DEF Running

\* A step after which the row has been dealt with: it is gone, or as it should be.
LEMMA PassEnds ==
  ASSUME BufferInv, NEW c \in Call, pc[c] \in Passes,
         NEW row \in AnyRow, NEW al \in AnyRow, NEW new \in SUBSET AnyRow,
         seen[c] = {row}, al.id = row.id, rows = Without(row) \cup {al},
         \A r \in todo[c] : r \in Without(row) /\ r.table = row.table,
         \A r \in Without(row) : (Waiting(c, r) => Whole(r)) /\ (~Waiting(c, r) => Kept(r)),
         rows' = Without(row) \cup new, \A a, b \in new : a = b,
         \A a \in new : a.id = row.id /\ a.table = row.table /\ Kept(a),
         pc' = [pc EXCEPT ![c] = row.table],
         UNCHANGED <<nextId, buffer, arg, seen, todo, buf>>,
         plan' \in [Call -> [from : Int, to : Int, do : BOOLEAN]]
  PROVE  BufferInv'
<1>1. /\ row.table \in Tables /\ row.table \in Adjusting /\ row.table \notin Passes
      /\ pc[c] \in Adjusting /\ pc[c] \in Active /\ pc[c] \notin Tables \cup {"listManual", "listImported"}
  BY DEF AnyRow, Tables, Passes, Adjusting, Active
<1>2. pc' \in [Call -> Positions] /\ pc'[c] = row.table /\ \A d \in Call \ {c} : pc'[d] = pc[d]
  BY <1>1 DEF BufferInv, BufferTypes, Positions
<1>3. rows' \subseteq AnyRow /\ Numbered'
  BY OneReplaced
<1>4. BufferTypes'
  BY <1>2, <1>3 DEF BufferInv, BufferTypes
<1>5. Posts(c)'
  BY <1>1, <1>2 DEF Posts, Tables
<1>6. Adjusts(c)'
  <2>1. ASSUME NEW r \in rows'
        PROVE  ~InWork(c, r)' /\ (Waiting(c, r)' => Whole(r)) /\ (~Waiting(c, r)' => Kept(r))
    <3>1. ~InWork(c, r)'
      BY <1>1, <1>2 DEF InWork
    <3>2. Waiting(c, r)' <=> (r \in todo[c] \/ (r.table = "imported" /\ row.table = "manual"))
      BY <1>1, <1>2 DEF Waiting, Tables
    <3>3. CASE r \in Without(row)
      <4>1. Waiting(c, r) <=> (r \in todo[c] \/ (r.table = "imported" /\ row.table = "manual"))
        BY <1>1 DEF Waiting, Tables
      <4> QED
        BY <3>1, <3>2, <3>3, <4>1
    <3>4. CASE r \in new
      <4>1. r \notin todo[c] /\ r.table = row.table /\ Kept(r)
        BY <3>4 DEF Without
      <4> QED
        BY <3>1, <3>2, <4>1
    <3> QED
      BY <2>1, <3>3, <3>4
  <2>2. \A r : (Whole(r)' <=> Whole(r)) /\ (Kept(r)' <=> Kept(r))
    BY DEF Whole, Kept, Away
  <2>3. \A r \in todo'[c] : r \in rows' /\ r.table = pc'[c]
    BY <1>2
  <2>4. pc'[c] \notin Passes \cup {"cleanManual", "nestManual", "nestImported"}
    BY <1>1, <1>2 DEF Tables
  <2>5. buf[c] = buffer /\ buffer <= Hour
    BY <1>1 DEF BufferInv, Adjusts
  <2> QED
    BY <2>1, <2>2, <2>3, <2>4, <2>5 DEF Adjusts, InTable
<1> QED
  BY <1>1, <1>2, <1>3, <1>4, <1>5, <1>6, OneSteps DEF Running

LEMMA BufferStartBuffer ==
  ASSUME BufferInv, NEW c \in Call, BufferReadsForStart(c)
  PROVE  BufferInv'
<1>1. /\ UNCHANGED <<tables, arg, seen, todo, buf>> /\ pc[c] = "pass1" /\ pc[c] \in Passes /\ pc[c] \in Adjusting
  BY DEF BufferReadsForStart, At, Passes, Adjusting
<1>2. PICK row \in AnyRow, al \in AnyRow :
        /\ seen[c] = {row} /\ Whole(row) /\ PassKnows(c, row, al)
        /\ al.id = row.id /\ al.table = row.table
        /\ {r \in rows : r.id = row.id} = {al} /\ rows = Without(row) \cup {al}
        /\ \A r \in todo[c] : r \in Without(row) /\ r.table = row.table
        /\ \A r \in Without(row) : (Waiting(c, r) => Whole(r)) /\ (~Waiting(c, r) => Kept(r))
  BY <1>1, RowAtHand
<1>3. al = row
  BY <1>1, <1>2 DEF PassKnows
<1>4. buf[c] = buffer /\ buffer <= Hour /\ buffer \in Nat
  BY <1>1 DEF BufferInv, BufferTypes, Adjusts
<1> DEFINE ends == Nearest(row.from, {i.to : i \in Interview})
           now == {r \in rows : r.id = row.id}
           Next1(e) == IF TooShort(row, buffer, row.to <= e + buffer) THEN "erase"
                       ELSE IF e < row.to /\ Distance(e, row.from) <= Hour THEN "setFrom"
                       ELSE "pass2"
<1>5. \/ ends = {} /\ pc' = [pc EXCEPT ![c] = "pass2"] /\ UNCHANGED plan
      \/ \E e \in ends : plan' = [plan EXCEPT ![c].from = e + buffer] /\ pc' = [pc EXCEPT ![c] = Next1(e)]
  <2>1. \/ ends = {} /\ Goto(c, "pass2") /\ UNCHANGED plan
        \/ ends # {} /\ now = {} /\ Goto(c, "failed") /\ UNCHANGED plan
        \/ \E e \in ends, x \in now :
             /\ plan' = [plan EXCEPT ![c].from = e + buf[c]]
             /\ Goto(c, IF TooShort(x, buf[c], x.to <= e + buf[c]) THEN "erase"
                        ELSE IF e < x.to /\ Distance(e, x.from) <= Hour THEN "setFrom"
                        ELSE "pass2")
    BY <1>2 DEF BufferReadsForStart
  <2>2. now = {row}
    BY <1>2, <1>3
  <2> HIDE DEF ends, now
  <2> QED
    BY <1>4, <2>1, <2>2 DEF Goto
<1>6. /\ ends = {} => FrontClear(row, row.from)
      /\ \A e \in ends :
           /\ e \in Int
           /\ ~TooShort(row, buffer, row.to <= e + buffer) =>
                IF e < row.to /\ Distance(e, row.from) <= Hour
                THEN e + buffer <= row.to /\ FrontClear(row, e + buffer)
                ELSE FrontClear(row, row.from)
  BY <1>2, <1>4, StartIsRight
<1> HIDE DEF ends, now
<1>7. row.from \in Int /\ row.to \in Int /\ row.from <= row.to
  BY <1>2 DEF AnyRow, Whole
<1>8. \A t : FrontClear(row, t)' <=> FrontClear(row, t)
  BY <1>1 DEF FrontClear, tables
<1>9. CASE ends = {} /\ pc' = [pc EXCEPT ![c] = "pass2"] /\ UNCHANGED plan
  <2>1. pc'[c] = "pass2" => PassKnows(c, row, row)'
    BY <1>6, <1>7, <1>8, <1>9 DEF PassKnows
  <2> QED
    BY <1>1, <1>2, <1>3, <1>9, <2>1, PassGoesOn DEF Passes, tables, BufferInv, BufferTypes
<1>10. ASSUME NEW e \in ends, plan' = [plan EXCEPT ![c].from = e + buffer], pc' = [pc EXCEPT ![c] = Next1(e)]
       PROVE  BufferInv'
  <2>1. Next1(e) \in Passes
    BY DEF Passes
  <2>2. e + buffer \in Int /\ plan \in [Call -> [from : Int, to : Int, do : BOOLEAN]]
    BY <1>4, <1>6 DEF BufferInv, BufferTypes
  <2>3. plan' \in [Call -> [from : Int, to : Int, do : BOOLEAN]] /\ plan'[c].from = e + buffer
    BY <1>10, <2>2
  <2>4. ASSUME pc'[c] = Next1(e)
        PROVE  PassKnows(c, row, row)'
    <3>1. CASE Next1(e) = "erase"
      BY <2>4, <3>1 DEF PassKnows
    <3>2. CASE Next1(e) = "setFrom"
      BY <1>6, <1>8, <2>3, <2>4, <3>2 DEF PassKnows
    <3>3. CASE Next1(e) = "pass2"
      BY <1>6, <1>7, <1>8, <2>4, <3>3 DEF PassKnows
    <3> QED
      BY <3>1, <3>2, <3>3
  <2> HIDE DEF Next1
  <2> QED
    BY <1>1, <1>2, <1>3, <1>10, <2>1, <2>3, <2>4, PassGoesOn DEF tables
<1> QED
  BY <1>5, <1>9, <1>10

LEMMA BufferEndBuffer ==
  ASSUME BufferInv, NEW c \in Call, BufferReadsForEnd(c)
  PROVE  BufferInv'
<1>1. /\ UNCHANGED <<tables, arg, seen, todo, buf>> /\ pc[c] = "pass2" /\ pc[c] \in Passes /\ pc[c] \in Adjusting
  BY DEF BufferReadsForEnd, At, Passes, Adjusting
<1>2. PICK row \in AnyRow, al \in AnyRow :
        /\ seen[c] = {row} /\ Whole(row) /\ PassKnows(c, row, al)
        /\ al.id = row.id /\ al.table = row.table
        /\ {r \in rows : r.id = row.id} = {al} /\ rows = Without(row) \cup {al}
        /\ \A r \in todo[c] : r \in Without(row) /\ r.table = row.table
        /\ \A r \in Without(row) : (Waiting(c, r) => Whole(r)) /\ (~Waiting(c, r) => Kept(r))
  BY <1>1, RowAtHand
<1>3. al.from <= al.to /\ al.to = row.to /\ FrontClear(row, al.from)
  BY <1>1, <1>2 DEF PassKnows
<1>4. buf[c] = buffer /\ buffer <= Hour /\ buffer \in Nat
  BY <1>1 DEF BufferInv, BufferTypes, Adjusts
<1> DEFINE starts == Nearest(row.to, {i.from : i \in Interview})
           now == {r \in rows : r.id = row.id}
           Next2(s) == IF TooShort(al, buffer, al.from >= s - buffer) THEN "erase"
                       ELSE IF s > al.from /\ Distance(s, al.to) <= Hour THEN "setTo"
                       ELSE row.table
<1>5. \/ starts = {} /\ pc' = [pc EXCEPT ![c] = row.table] /\ UNCHANGED plan
      \/ \E s \in starts : plan' = [plan EXCEPT ![c].to = s - buffer] /\ pc' = [pc EXCEPT ![c] = Next2(s)]
  <2>1. \/ starts = {} /\ Goto(c, row.table) /\ UNCHANGED plan
        \/ starts # {} /\ now = {} /\ Goto(c, "failed") /\ UNCHANGED plan
        \/ \E s \in starts, x \in now :
             /\ plan' = [plan EXCEPT ![c].to = s - buf[c]]
             /\ Goto(c, IF TooShort(x, buf[c], x.from >= s - buf[c]) THEN "erase"
                        ELSE IF s > x.from /\ Distance(s, x.to) <= Hour THEN "setTo"
                        ELSE row.table)
    BY <1>2 DEF BufferReadsForEnd
  <2>2. now = {al}
    BY <1>2
  <2> HIDE DEF starts, now
  <2> QED
    BY <1>4, <2>1, <2>2 DEF Goto
<1>6. /\ starts = {} => Kept(al)
      /\ \A s \in starts :
           /\ s \in Int
           /\ IF s > al.from /\ Distance(s, al.to) <= Hour THEN BackClear(row, s - buffer) ELSE Kept(al)
  BY <1>2, <1>3, <1>4, EndIsRight
<1> HIDE DEF starts, now
<1>7. plan \in [Call -> [from : Int, to : Int, do : BOOLEAN]]
  BY DEF BufferInv, BufferTypes
<1>8. ASSUME Kept(al), pc' = [pc EXCEPT ![c] = row.table], plan' \in [Call -> [from : Int, to : Int, do : BOOLEAN]]
      PROVE  BufferInv'
  <2> DEFINE new == {al}
  <2>1. new \in SUBSET AnyRow /\ rows' = Without(row) \cup new /\ (\A a, b \in new : a = b)
        /\ \A a \in new : a.id = row.id /\ a.table = row.table /\ Kept(a)
    BY <1>1, <1>2, <1>8 DEF tables
  <2> HIDE DEF new
  <2> QED
    BY <1>1, <1>2, <1>8, <2>1, PassEnds DEF tables
<1>9. ASSUME NEW s \in starts, plan' = [plan EXCEPT ![c].to = s - buffer], pc' = [pc EXCEPT ![c] = Next2(s)]
      PROVE  BufferInv'
  <2>1. s - buffer \in Int
    BY <1>4, <1>6
  <2>2. plan' \in [Call -> [from : Int, to : Int, do : BOOLEAN]] /\ plan'[c].to = s - buffer
    BY <1>7, <1>9, <2>1
  <2>3. \A t : (FrontClear(row, t)' <=> FrontClear(row, t)) /\ (BackClear(row, t)' <=> BackClear(row, t))
    BY <1>1 DEF FrontClear, BackClear, tables
  <2>4. CASE Next2(s) = "erase"
    <3>1. pc' = [pc EXCEPT ![c] = "erase"] /\ "erase" \in Passes
      BY <1>9, <2>4 DEF Passes
    <3>2. pc'[c] = "erase" => PassKnows(c, row, al)'
      BY <1>2 DEF PassKnows
    <3> QED
      BY <1>1, <1>2, <2>2, <3>1, <3>2, PassGoesOn DEF tables
  <2>5. CASE Next2(s) = "setTo" /\ s > al.from /\ Distance(s, al.to) <= Hour
    <3>1. pc' = [pc EXCEPT ![c] = "setTo"] /\ "setTo" \in Passes
      BY <1>9, <2>5 DEF Passes
    <3>2. pc'[c] = "setTo" => PassKnows(c, row, al)'
      BY <1>2, <1>3, <1>6, <2>2, <2>3, <2>5 DEF PassKnows
    <3> QED
      BY <1>1, <1>2, <2>2, <3>1, <3>2, PassGoesOn DEF tables
  <2>6. CASE Next2(s) = row.table /\ ~(s > al.from /\ Distance(s, al.to) <= Hour)
    <3>1. Kept(al)
      BY <1>6, <2>6
    <3> QED
      BY <1>8, <1>9, <2>2, <2>6, <3>1
  <2> QED
    BY <2>4, <2>5, <2>6
<1> QED
  BY <1>5, <1>6, <1>7, <1>8, <1>9

LEMMA BufferWritesBuffer ==
  ASSUME BufferInv, NEW c \in Call, BufferErases(c) \/ BufferSetsStart(c) \/ BufferSetsEnd(c)
  PROVE  BufferInv'
<1>1. /\ UNCHANGED <<nextId, buffer, arg, seen, todo, plan, buf>>
      /\ pc[c] \in {"erase", "setFrom", "setTo"} /\ pc[c] \in Passes
  BY DEF BufferErases, BufferSetsStart, BufferSetsEnd, At, Passes
<1>2. PICK row \in AnyRow, al \in AnyRow :
        /\ seen[c] = {row} /\ Whole(row) /\ PassKnows(c, row, al)
        /\ al.id = row.id /\ al.table = row.table
        /\ {r \in rows : r.id = row.id} = {al} /\ rows = Without(row) \cup {al}
        /\ \A r \in todo[c] : r \in Without(row) /\ r.table = row.table
        /\ \A r \in Without(row) : (Waiting(c, r) => Whole(r)) /\ (~Waiting(c, r) => Kept(r))
  BY <1>1, RowAtHand
<1>3. plan' \in [Call -> [from : Int, to : Int, do : BOOLEAN]] /\ plan[c].from \in Int /\ plan[c].to \in Int
  BY <1>1 DEF BufferInv, BufferTypes
<1>4. row.from \in Int /\ row.to \in Int /\ al.from \in Int /\ al.to \in Int /\ buffer \in Nat
  BY DEF AnyRow, BufferInv, BufferTypes
<1>5. \A r \in Without(row) : r.id # row.id
  BY DEF Without
<1>6. CASE BufferErases(c)
  <2> DEFINE new == {}
  <2>1. new \in SUBSET AnyRow /\ rows' = Without(row) \cup new /\ (\A a, b \in new : a = b)
        /\ (\A a \in new : a.id = row.id /\ a.table = row.table /\ Kept(a))
        /\ pc' = [pc EXCEPT ![c] = row.table]
    BY <1>2, <1>6 DEF BufferErases, Goto
  <2> HIDE DEF new
  <2> QED
    BY <1>1, <1>2, <1>3, <2>1, PassEnds
<1>7. CASE BufferSetsStart(c)
  <2>0. PICK a \in AnyRow : a = [al EXCEPT !.from = plan[c].from]
    BY <1>3 DEF AnyRow
  <2>1. pc[c] = "setFrom" /\ pc' = [pc EXCEPT ![c] = "pass2"] /\ "pass2" \in Passes
    BY <1>7 DEF BufferSetsStart, At, Goto, Passes
  <2>2. rows' = {IF r.id = row.id THEN [r EXCEPT !.from = plan[c].from] ELSE r : r \in rows}
    BY <1>2, <1>7 DEF BufferSetsStart
  <2>3. /\ a \in AnyRow /\ a.id = row.id /\ a.table = row.table /\ a.to = row.to
        /\ a.from = plan[c].from /\ a.from <= a.to
        /\ FrontClear(row, a.from)
    BY <1>2, <1>3, <2>0, <2>1 DEF AnyRow, PassKnows
  <2>4. rows' = Without(row) \cup {a}
    BY <1>2, <1>5, <2>0, <2>2
  <2>5. pc'[c] = "pass2" => PassKnows(c, row, a)'
    BY <1>1, <2>3 DEF PassKnows, FrontClear
  <2> QED
    BY <1>1, <1>2, <1>3, <2>1, <2>3, <2>4, <2>5, PassGoesOn
<1>8. CASE BufferSetsEnd(c)
  <2> DEFINE a == [al EXCEPT !.to = plan[c].to]
             new == {a}
  <2>1. pc[c] = "setTo" /\ pc' = [pc EXCEPT ![c] = row.table]
    BY <1>2, <1>8 DEF BufferSetsEnd, At, Goto
  <2>2. rows' = {IF r.id = row.id THEN [r EXCEPT !.to = plan[c].to] ELSE r : r \in rows}
    BY <1>2, <1>8 DEF BufferSetsEnd
  <2>3. /\ a \in AnyRow /\ a.id = row.id /\ a.table = row.table
        /\ a.from = al.from /\ a.to = plan[c].to
        /\ FrontClear(row, a.from) /\ BackClear(row, a.to)
    BY <1>2, <1>3, <2>1 DEF AnyRow, PassKnows
  <2>4. rows' = Without(row) \cup new
    BY <1>2, <1>5, <2>2
  <2> HIDE DEF a
  <2>5. Kept(a)
    <3> SUFFICES ASSUME NEW i \in Interview
                 PROVE  a.to <= i.from - buffer \/ i.to + buffer <= a.from
      BY <1>3, <1>4, <2>3, InterviewAssumption DEF Kept, Away, Intrudes
    <3> QED
      BY <1>2, <2>3 DEF Whole, FrontClear, BackClear
  <2>6. new \in SUBSET AnyRow /\ (\A x, y \in new : x = y)
        /\ \A x \in new : x.id = row.id /\ x.table = row.table /\ Kept(x)
    BY <2>3, <2>5
  <2> HIDE DEF new
  <2> QED
    BY <1>1, <1>2, <1>3, <2>1, <2>4, <2>6, PassEnds
<1> QED
  BY <1>6, <1>7, <1>8

\* Rows without length, and rows within others, are removed; then all are sound.
LEMMA BufferCleansBuffer ==
  ASSUME BufferInv, NEW c \in Call, NEW t \in Tables, BufferCleansUp(c, t) \/ BufferRemovesNested(c, t)
  PROVE  BufferInv'
<1> DEFINE Cleaning == {"cleanImported", "cleanManual", "nestManual", "nestImported"}
<1>1. /\ rows' \subseteq rows /\ UNCHANGED <<nextId, buffer, arg, seen, todo, plan, buf>>
      /\ \/ /\ pc[c] = "cleanImported" /\ pc' = [pc EXCEPT ![c] = "cleanManual"]
            /\ \A r \in rows' : r.table = "imported" => r.from < r.to
         \/ /\ pc[c] = "cleanManual" /\ pc' = [pc EXCEPT ![c] = "nestManual"]
            /\ \A r \in rows' : r.table = "manual" => r.from < r.to
         \/ pc[c] = "nestManual" /\ pc' = [pc EXCEPT ![c] = "nestImported"]
         \/ pc[c] = "nestImported" /\ pc' = [pc EXCEPT ![c] = "adjusted"]
  BY DEF BufferCleansUp, BufferRemovesNested, At, Goto, Tables
<1>2. /\ pc[c] \in Cleaning /\ Cleaning \subseteq Adjusting
      /\ Cleaning \cap (Tables \cup Passes \cup {"listManual", "listImported"}) = {}
  BY <1>1 DEF Adjusting, Tables, Passes
<1>3. \A r \in rows : Kept(r)
  BY <1>2 DEF BufferInv, Adjusts, Waiting, InWork
<1>4. PICK l \in {"cleanManual", "nestManual", "nestImported", "adjusted"} : pc' = [pc EXCEPT ![c] = l]
  BY <1>1
<1>5. pc' \in [Call -> Positions] /\ pc'[c] = l /\ \A d \in Call \ {c} : pc'[d] = pc[d]
  BY <1>4 DEF BufferInv, BufferTypes, Positions, Adjusting, Final
<1>6. BufferTypes' /\ Numbered'
  BY <1>1, <1>5 DEF BufferInv, BufferTypes, Numbered
<1>7. Posts(c)'
  BY <1>5 DEF Posts
<1>8. l = "cleanManual" => \A r \in rows' : r.table = "imported" => r.from < r.to
  BY <1>1, <1>5
<1>9. l \in {"nestManual", "nestImported", "adjusted"} => \A r \in rows' : r.from < r.to
  <2>1. pc[c] = "cleanManual" => \A r \in rows : r.table = "imported" => r.from < r.to
    BY <1>2 DEF BufferInv, Adjusts, InTable
  <2>2. pc[c] \in {"nestManual", "nestImported"} => \A r \in rows : r.from < r.to
    BY <1>2 DEF BufferInv, Adjusts
  <2>3. \A r \in rows : r.table \in {"manual", "imported"}
    BY DEF BufferInv, BufferTypes, AnyRow, Tables
  <2> QED
    BY <1>1, <1>5, <2>1, <2>2, <2>3
<1>10. \A r : (Kept(r)' <=> Kept(r)) /\ (Away(r)' <=> Away(r))
  BY <1>1 DEF Kept, Away
<1>11. Adjusts(c)'
  <2>1. buf[c] = buffer /\ buffer <= Hour
    BY <1>2 DEF BufferInv, Adjusts
  <2>2. \A r \in rows' : l # "adjusted" => ~Waiting(c, r)'
    BY <1>2, <1>5 DEF Waiting
  <2>3. l \notin Tables \cup Passes
    BY DEF Tables, Passes
  <2>4. l = "adjusted" => l \notin Adjusting
    BY DEF Adjusting
  <2> QED
    BY <1>1, <1>3, <1>5, <1>8, <1>9, <1>10, <2>1, <2>2, <2>3, <2>4 DEF Adjusts, InTable
<1>12. pc'[c] \notin Adjusting => \A r \in rows' : Sound(r)'
  <2>1. l \notin Adjusting => l = "adjusted"
    BY DEF Adjusting
  <2> QED
    BY <1>1, <1>3, <1>5, <1>9, <1>10, <2>1 DEF Sound, Kept
<1>13. Running(c)
  BY <1>2 DEF Running, Active
<1> QED
  BY <1>1, <1>5, <1>6, <1>7, <1>11, <1>12, <1>13, OneSteps

\* A call that begins: a change of the buffer finds rows that were sound.
LEMMA BeginsBuffer ==
  ASSUME BufferInv, ParseTime, ~Overlap, "read" \notin Faults, Buffers \subseteq 0 .. Hour,
         Kinds \subseteq {"post", "remove", "delete", "buffer", "unlink"},
         NEW c \in Call, CallBegins(c)
  PROVE  BufferInv'
<1>1. Quiet
  BY DEF CallBegins, Begin, PostBegins, PostModeratorAvailability, UpdateFinds, DeleteModeratorAvailability,
     DeleteFinds, BufferSets, ImportBegins, UnlinkBegins
<1>2. {"refused", "readBuffer", "removed", "deleteCalendar", "unlinkRows"} \subseteq Positions \ Adjusting
  BY DEF Positions, Posting, Deleting, Unlinking, Final, Adjusting
<1>3. CASE \E r \in TimeRange : PostBegins(c, r)
  <2>1. PICK r \in TimeRange : PostBegins(c, r)
    BY <1>3
  <2>2. /\ UNCHANGED <<tables, seen, todo, plan, buf>>
        /\ arg' = [arg EXCEPT ![c] = r]
        /\ pc' = [pc EXCEPT ![c] = "refused"] \/ pc' = [pc EXCEPT ![c] = "readBuffer"]
    BY <2>1 DEF PostBegins, CheckCalendar, Goto
  <2>3. arg' \in [Call -> AnyRange] /\ arg'[c].from < arg'[c].to
    BY <2>2 DEF BufferInv, BufferTypes, TimeRange
  <2>4. pc'[c] \in {"refused", "readBuffer"} => Posts(c)'
    BY <2>3 DEF Posts
  <2> QED
    BY <1>1, <1>2, <2>2, <2>3, <2>4, PlainStep DEF BufferInv, BufferTypes, tables
<1>4. CASE \E row \in rows : DeleteModeratorAvailability(c, row)
  <2>1. /\ rows' \subseteq rows /\ UNCHANGED <<nextId, calendar, buffer, arg, seen, todo, plan, buf>>
        /\ pc' = [pc EXCEPT ![c] = "removed"]
    BY <1>4 DEF DeleteModeratorAvailability, Goto, Without
  <2>2. pc'[c] = "removed" => Posts(c)'
    BY DEF Posts
  <2> QED
    BY <1>1, <1>2, <2>1, <2>2, PlainStep DEF BufferInv, BufferTypes
<1>5. CASE \E row \in rows : DeleteFinds(c, row)
  <2>1. PICK row \in rows : DeleteFinds(c, row)
    BY <1>5
  <2>2. /\ UNCHANGED <<tables, arg, todo, plan, buf>>
        /\ seen' = [seen EXCEPT ![c] = {row}] /\ pc' = [pc EXCEPT ![c] = "deleteCalendar"]
    BY <2>1 DEF DeleteFinds, Goto
  <2>3. seen' \in [Call -> SUBSET AnyRow]
    BY <2>2 DEF BufferInv, BufferTypes
  <2>4. pc'[c] = "deleteCalendar" => Posts(c)'
    BY DEF Posts
  <2> QED
    BY <1>1, <1>2, <2>2, <2>3, <2>4, PlainStep DEF BufferInv, BufferTypes, tables
<1>6. CASE UnlinkBegins(c)
  <2>1. /\ UNCHANGED <<tables, arg, seen, todo, plan, buf>>
        /\ pc' = [pc EXCEPT ![c] = "refused"] \/ pc' = [pc EXCEPT ![c] = "unlinkRows"]
    BY <1>6 DEF UnlinkBegins, Goto
  <2>2. pc'[c] \in {"refused", "unlinkRows"} => Posts(c)'
    BY DEF Posts
  <2> QED
    BY <1>1, <1>2, <2>1, <2>2, PlainStep DEF BufferInv, BufferTypes, tables
<1>7. CASE \E b \in Buffers : BufferSets(c, b)
  <2>1. PICK b \in Buffers : BufferSets(c, b)
    BY <1>7
  <2>2. /\ UNCHANGED <<rows, nextId, calendar, arg, seen, todo, plan>>
        /\ buffer' = b /\ buf' = [buf EXCEPT ![c] = b] /\ pc' = [pc EXCEPT ![c] = "listManual"]
    BY <2>1 DEF BufferSets, Goto
  <2>3. b \in Nat /\ b <= Hour
    BY TimesAssumption
  <2>4. pc' \in [Call -> Positions] /\ pc'[c] = "listManual" /\ \A d \in Call \ {c} : pc'[d] = pc[d]
    BY <2>2 DEF BufferInv, BufferTypes, Positions, Adjusting
  <2>5. buf' \in [Call -> Nat] /\ buf'[c] = b
    BY <2>2, <2>3 DEF BufferInv, BufferTypes
  <2>6. BufferTypes' /\ Numbered'
    BY <2>2, <2>3, <2>4, <2>5 DEF BufferInv, BufferTypes, Numbered
  <2>7. \A r \in rows : Whole(r)
    <3>1. \A r \in rows : Sound(r) /\ r.from \in Int /\ r.to \in Int
      BY <1>1, RestingIsSound DEF BufferInv, BufferTypes, AnyRow
    <3>2. buffer \in Nat
      BY DEF BufferInv, BufferTypes
    <3> QED
      BY <3>1, <3>2, InterviewAssumption DEF Whole, Sound, Away, Intrudes
  <2>8. Adjusts(c)'
    <3>1. /\ "listManual" \in Adjusting
          /\ "listManual" \notin Tables \cup Passes \cup {"cleanManual", "nestManual", "nestImported"}
      BY DEF Adjusting, Tables, Passes
    <3>2. \A r \in rows' : Waiting(c, r)' /\ Whole(r)'
      BY <2>2, <2>4, <2>7 DEF Waiting, Whole
    <3> QED
      BY <2>2, <2>3, <2>4, <2>5, <3>1, <3>2 DEF Adjusts
  <2>9. Posts(c)' /\ (pc'[c] \notin Adjusting => \A r \in rows' : Sound(r)')
    BY <2>4 DEF Posts, Adjusting
  <2> QED
    BY <1>1, <2>4, <2>6, <2>8, <2>9, OneSteps
<1> QED
  BY <1>3, <1>4, <1>5, <1>6, <1>7 DEF CallBegins, Begin, PostModeratorAvailability, UpdateFinds, ImportBegins

\* The steps of updates and imports are not among the positions there are.
LEMMA StepsBuffer ==
  ASSUME BufferInv, ParseTime, Faults \cap {"read", "statement"} = {}, NEW c \in Call, CallSteps(c)
  PROVE  BufferInv'
<1>1. pc[c] \notin {"updateBuffer", "updateConflicts", "write", "setStatus", "clearImported", "fetch", "insert"}
  BY DEF BufferInv, BufferTypes, Positions, Posting, Deleting, Adjusting, Unlinking, Final
<1>2. /\ ~(UpdateReadsBuffer(c) \/ UpdateChecksConflicts(c) \/ UpdateWrites(c))
      /\ ~(ImportSetsStatus(c) \/ ImportClears(c) \/ ImportFetches(c) \/ ImportFetchFails(c))
      /\ ~((\E block \in todo[c] : ImportInserts(c, block)) \/ ImportCompletes(c))
  BY <1>1 DEF UpdateReadsBuffer, UpdateChecksConflicts, UpdateWrites, ImportSetsStatus, ImportClears,
     ImportFetches, ImportFetchFails, ImportInserts, ImportCompletes, At
<1>3. CASE PostReadsBuffer(c) \/ PostChecksConflicts(c) \/ PostReadsOverlapping(c)
  BY <1>3, PostChecksBuffer
<1>4. CASE (\E row \in todo[c] : PostMerges(c, row)) \/ PostCreates(c) \/ PostCreateRefused(c)
  BY <1>4, PostMergesBuffer, PostEndsBuffer
<1>5. CASE \/ DeleteChecksCalendar(c) \/ DeleteReadsImported(c)
           \/ (\E imp \in todo[c] : DeleteCopies(c, imp)) \/ DeleteRow(c)
           \/ UnlinkDeletesRows(c) \/ UnlinkDeletesStatus(c)
  BY <1>5, RemovalsBuffer
<1>6. CASE \E t \in Tables : BufferLists(c, t) \/ BufferCleansUp(c, t) \/ BufferRemovesNested(c, t)
  BY <1>6, BufferListsBuffer, BufferCleansBuffer
<1>7. CASE (\E row \in todo[c] : BufferTakes(c, row)) \/ BufferTableDone(c)
  BY <1>7, BufferTakesBuffer, BufferTableDoneBuffer
<1>8. CASE BufferReadsForStart(c) \/ BufferReadsForEnd(c)
  BY <1>8, BufferStartBuffer, BufferEndBuffer
<1>9. CASE BufferErases(c) \/ BufferSetsStart(c) \/ BufferSetsEnd(c)
  BY <1>9, BufferWritesBuffer
<1> QED
  BY <1>2, <1>3, <1>4, <1>5, <1>6, <1>7, <1>8, <1>9 DEF CallSteps

LEMMA InitBuffer ==
  ASSUME InitialIsSound, InitialIsNumbered, Init
  PROVE  BufferInv
<1>1. AvailInv /\ OneAtATime /\ Numbered
  BY InitHeld DEF HeldInv
<1>2. \A c \in Call : pc[c] = "idle"
  BY DEF Init
<1>3. BufferTypes
  <2>1. rows \subseteq AnyRow /\ nextId \in Nat /\ buffer \in Nat /\ arg \in [Call -> AnyRange] /\ buf \in [Call -> Nat]
    BY <1>1 DEF AvailInv, AvailTypes, Stored, AnyRow
  <2>2. pc \in [Call -> Positions] /\ seen \in [Call -> SUBSET AnyRow] /\ todo \in [Call -> SUBSET AnyRow]
    BY DEF Init, Positions
  <2>3. plan \in [Call -> [from : Int, to : Int, do : BOOLEAN]]
    BY DEF Init
  <2> QED
    BY <2>1, <2>2, <2>3 DEF BufferTypes
<1> QED
  BY <1>1, <1>2, <1>3 DEF BufferInv, Adjusts, Adjusting, Posts, AvailInv

LEMMA NextBuffer ==
  ASSUME BufferInv, ParseTime, ~Overlap, Faults \cap {"read", "statement", "crash"} = {}, Buffers \subseteq 0 .. Hour,
         Kinds \subseteq {"post", "remove", "delete", "buffer", "unlink"}, [Next]_vars
  PROVE  BufferInv'
<1>1. CASE UNCHANGED vars
  <2>1. UNCHANGED <<rows, nextId, buffer, pc, arg, seen, todo, plan, buf>>
    BY <1>1 DEF vars, tables, callVars
  <2>2. \A r : /\ (Whole(r)' <=> Whole(r)) /\ (Kept(r)' <=> Kept(r))
              /\ (Away(r)' <=> Away(r)) /\ (Sound(r)' <=> Sound(r))
    BY <2>1 DEF Whole, Kept, Sound, Away
  <2>3. ASSUME NEW c \in Call
        PROVE  Adjusts(c)' /\ Posts(c)'
    <3>1. Adjusts(c) /\ Posts(c)
      BY DEF BufferInv
    <3>2. \A r : (Waiting(c, r)' <=> Waiting(c, r)) /\ (InWork(c, r)' <=> InWork(c, r))
      BY <2>1 DEF Waiting, InWork
    <3>3. \A row, al : PassKnows(c, row, al)' <=> PassKnows(c, row, al)
      BY <2>1 DEF PassKnows, FrontClear, BackClear
    <3>4. \A t : InTable(t)' = InTable(t)
      BY <2>1 DEF InTable
    <3>5. Adjusts(c)'
      BY <2>1, <2>2, <3>1, <3>2, <3>3, <3>4 DEF Adjusts
    <3>6. Posts(c)'
      BY <2>1, <2>2, <3>1 DEF Posts, Mergeable
    <3> QED
      BY <3>5, <3>6
  <2>4. BufferTypes' /\ OneAtATime' /\ Numbered'
    BY <2>1 DEF BufferInv, BufferTypes, OneAtATime, Running, Numbered
  <2> QED
    BY <2>1, <2>2, <2>3, <2>4 DEF BufferInv
<1>2. ASSUME NEW c \in Call
      PROVE  ~ImportTimesOut(c) /\ ~CallFails(c) /\ ~Crash
  <2>1. pc[c] \notin Importing
    BY DEF BufferInv, BufferTypes, Positions, Posting, Deleting, Adjusting, Unlinking, Final, Importing
  <2> QED
    BY <2>1 DEF ImportTimesOut, CallFails, Crash
<1>3. ~Crash
  BY DEF Crash
<1> QED
  BY <1>1, <1>2, <1>3, BeginsBuffer, StepsBuffer DEF Next

\* Every row stays as far from every interview as the moderator's buffer, however
\* often it is changed between posts and deletions: a change (UpdateModeratorMRA
\* with processAvailabilityBufferAdjustmentMRA) cuts at both ends, in both tables,
\* what has come too close, and the rows it leaves or erases as too short were
\* right to leave or erase.  No two calls overlap, no statement fails, and the
\* buffer is an hour at most: only interviews within the hour are looked for.
THEOREM BuffersAreKept ==
  ASSUME InitialIsSound, InitialIsNumbered, ParseTime, ~Overlap,
         Faults \cap {"read", "statement", "crash"} = {}, Buffers \subseteq 0 .. Hour,
         Kinds \subseteq {"post", "remove", "delete", "buffer", "unlink"}
  PROVE  Spec => []RowsAvoidInterviews
<1>1. Init => BufferInv
  BY InitBuffer
<1>2. BufferInv /\ [Next]_vars => BufferInv'
  BY NextBuffer
<1>3. BufferInv => RowsAvoidInterviews
  <2>1. Quiet => \A c \in Call : pc[c] \notin Adjusting
    BY DEF Quiet, Running, Active
  <2> QED
    BY <2>1 DEF BufferInv, RowsAvoidInterviews, Sound, Away
<1> QED
  BY <1>1, <1>2, <1>3, PTL DEF Spec
=============================================================================
