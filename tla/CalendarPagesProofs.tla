------------------------ MODULE CalendarPagesProofs ------------------------
(***************************************************************************)
(* The properties of three pages that are read: the times that respondents *)
(* are offered (SlotOffers), lists that come by pages (PagedLists) and the *)
(* calendar of a moderator (AvailabilityListing), for all rows, pages and  *)
(* changes.  The first and the last fold over sequences and sets: a fold   *)
(* is turned into a function that takes one element after the other, and   *)
(* what holds of its values is shown by induction on how many were taken.  *)
(***************************************************************************)
EXTENDS AvailabilityListing, SlotOffers, PagedLists,
        FiniteSetTheorems, NaturalsInduction, WellFoundedInduction, TLAPS

\* A set of numbers has a least one.
LEMMA LeastKey ==
  ASSUME NEW T \in SUBSET Nat, T # {}
  PROVE  \E x \in T : \A y \in T : x <= y
<1> DEFINE R == OpToRel(<, Nat)
<1>1. IsWellFoundedOn(R, Nat)
  BY NatLessThanWellFounded
<1>2. \A x, y \in Nat : x < y => <<x, y>> \in R
  BY DEF OpToRel
<1> HIDE DEF R
<1>3. \E x \in T : \A y \in T : ~(<<y, x>> \in R)
  BY <1>1, WFMin
<1>4. ASSUME NEW x \in T, \A y \in T : ~(<<y, x>> \in R), NEW y \in T
      PROVE  x <= y
  <2>1. x \in Nat /\ y \in Nat /\ ~(<<y, x>> \in R)
    BY <1>4
  <2>2. ~(y < x)
    BY <1>2, <2>1
  <2> QED
    BY <2>1, <2>2
<1> QED
  BY <1>3, <1>4

\* A set that has 0 and with every number the next has all of them.
LEMMA NumbersByInduction ==
  ASSUME NEW X, 0 \in X, \A n \in Nat : n \in X => n + 1 \in X
  PROVE  Nat \subseteq X
<1> SUFFICES ASSUME NEW m \in Nat, m \notin X PROVE FALSE
  OBVIOUS
<1> DEFINE Bad == {n \in Nat : n \notin X}
<1>1. Bad \in SUBSET Nat /\ Bad # {}
  OBVIOUS
<1>2. PICK n \in Bad : \A k \in Bad : n <= k
  BY <1>1, LeastKey
<1>3. n # 0 /\ n - 1 \in Nat /\ ~(n <= n - 1)
  BY <1>2
<1>4. n - 1 \in X
  BY <1>2, <1>3
<1>5. (n - 1) + 1 \in X
  BY <1>3, <1>4
<1> QED
  BY <1>2, <1>5

\* c chooses of every set of elements of S that is not empty.
Chooses(c, S) == \A T \in SUBSET S : T # {} => c[T] \in T

\* A set without its chosen element is smaller by one.
LEMMA OneLess ==
  ASSUME NEW S, IsFiniteSet(S), NEW c, Chooses(c, S), NEW T \in SUBSET S, T # {}
  PROVE  /\ T \ {c[T]} \in SUBSET S /\ Cardinality(T \ {c[T]}) = Cardinality(T) - 1
         /\ Cardinality(T) \in Nat /\ Cardinality(T) - 1 \in Nat /\ c[T] \in S
<1>1. IsFiniteSet(T) /\ c[T] \in T
  BY FS_Subset DEF Chooses
<1>2. Cardinality(T) \in Nat /\ Cardinality(T) # 0
  BY <1>1, FS_CardinalityType, FS_EmptySet
<1>3. Cardinality(T \ {c[T]}) = Cardinality(T) - 1
  BY <1>1, FS_RemoveElement
<1> QED
  BY <1>1, <1>2, <1>3

\* What holds of the empty set, and of a set if of the set less one, holds of all.
LEMMA SetsByInduction ==
  ASSUME NEW S, IsFiniteSet(S), NEW c, Chooses(c, S), NEW X, {} \in X,
         \A T \in SUBSET S : T # {} /\ T \ {c[T]} \in X => T \in X
  PROVE  SUBSET S \subseteq X
<1> DEFINE N == {n \in Nat : \A T \in SUBSET S : Cardinality(T) = n => T \in X}
<1>1. \A T \in SUBSET S : IsFiniteSet(T) /\ Cardinality(T) \in Nat
  BY FS_Subset, FS_CardinalityType
<1>2. 0 \in N
  BY <1>1, FS_EmptySet
<1>3. ASSUME NEW n \in Nat, n \in N PROVE n + 1 \in N
  <2>1. SUFFICES ASSUME NEW T \in SUBSET S, Cardinality(T) = n + 1 PROVE T \in X
    OBVIOUS
  <2>2. T # {}
    <3>1. IsFiniteSet(T) /\ Cardinality(T) # 0
      BY <1>1, <2>1
    <3> QED
      BY <3>1, FS_EmptySet
  <2>3. T \ {c[T]} \in SUBSET S /\ Cardinality(T \ {c[T]}) = n
    BY <2>1, <2>2, OneLess
  <2>4. T \ {c[T]} \in X
    BY <1>3, <2>3
  <2> QED
    BY <2>2, <2>4
<1> HIDE DEF N
<1>4. Nat \subseteq N
  BY <1>2, <1>3, NumbersByInduction
<1> QED
  BY <1>1, <1>4 DEF N

\* g takes one element after another, from base on: the next with h.
Takes(g, S, c, base, h) == \A T \in SUBSET S : g[T] = IF T = {} THEN base ELSE h[<<c[T], g[T \ {c[T]}]>>]

\* There is the function that does so.
LEMMA Recursion ==
  ASSUME NEW S, IsFiniteSet(S), NEW c, Chooses(c, S), NEW V, NEW base \in V, NEW H \in [S \X V -> V]
  PROVE  \E g \in [SUBSET S -> V] : Takes(g, S, c, base, H)
<1> DEFINE Small(n) == {T \in SUBSET S : Cardinality(T) <= n}
           Next(g, T) == IF T = {} THEN base ELSE H[<<c[T], g[T \ {c[T]}]>>]
           N == {n \in Nat : \E g \in [Small(n) -> V] : \A T \in Small(n) : g[T] = Next(g, T)}
<1>1. \A T \in SUBSET S : IsFiniteSet(T) /\ Cardinality(T) \in Nat
  BY FS_Subset, FS_CardinalityType
<1>2. 0 \in N
  <2>1. \A T \in Small(0) : T = {}
    BY <1>1, FS_EmptySet
  <2>2. [T \in Small(0) |-> base] \in [Small(0) -> V]
    OBVIOUS
  <2>3. \A T \in Small(0) : [U \in Small(0) |-> base][T] = Next([U \in Small(0) |-> base], T)
    BY <2>1
  <2> HIDE DEF Small, Next
  <2> QED
    BY <2>2, <2>3
<1>3. ASSUME NEW n \in Nat, n \in N PROVE n + 1 \in N
  <2>1. PICK g \in [Small(n) -> V] : \A T \in Small(n) : g[T] = Next(g, T)
    BY <1>3
  <2> DEFINE f == [T \in Small(n + 1) |-> Next(g, T)]
  <2>2. \A T \in Small(n + 1) : T # {} => T \ {c[T]} \in Small(n) /\ c[T] \in S
    BY <1>1, OneLess
  <2>3. f \in [Small(n + 1) -> V]
    <3>1. ASSUME NEW T \in Small(n + 1) PROVE Next(g, T) \in V
      <4>1. CASE T = {}
        BY <4>1
      <4>2. CASE T # {}
        <5>1. g[T \ {c[T]}] \in V /\ c[T] \in S
          BY <2>2, <4>2
        <5> QED
          BY <4>2, <5>1
      <4> QED
        BY <4>1, <4>2
    <3> HIDE DEF Next, Small
    <3> QED
      BY <3>1
  <2>4. \A T \in Small(n) : T \in Small(n + 1) /\ f[T] = g[T]
    <3>1. \A T \in Small(n) : T \in Small(n + 1)
      BY <1>1
    <3> HIDE DEF Small, Next
    <3> QED
      BY <2>1, <3>1
  <2>5. \A T \in Small(n + 1) : f[T] = Next(f, T)
    <3>1. ASSUME NEW T \in Small(n + 1) PROVE Next(f, T) = Next(g, T)
      <4>1. CASE T = {}
        BY <4>1
      <4>2. CASE T # {}
        <5>1. f[T \ {c[T]}] = g[T \ {c[T]}]
          BY <2>2, <2>4, <4>2
        <5> HIDE DEF f
        <5> QED
          BY <5>1
      <4> QED
        BY <4>1, <4>2
    <3>2. \A T \in Small(n + 1) : f[T] = Next(g, T)
      OBVIOUS
    <3> HIDE DEF Small, Next, f
    <3> QED
      BY <3>1, <3>2
  <2> HIDE DEF Small, Next, f
  <2> QED
    BY <2>3, <2>5
<1>4. Nat \subseteq N
  <2> HIDE DEF N
  <2> QED
    BY <1>2, <1>3, NumbersByInduction
<1>5. Cardinality(S) \in N
  <2>1. Cardinality(S) \in Nat
    BY <1>1
  <2> HIDE DEF N
  <2> QED
    BY <1>4, <2>1
<1>6. Small(Cardinality(S)) = SUBSET S
  BY FS_Subset
<1> QED
  BY <1>5, <1>6 DEF Takes

\* A finite set in a strict order can be numbered in this order.
Orders(R, S) ==
  /\ \A x, y \in S : x # y => <<x, y>> \in R \/ <<y, x>> \in R
  /\ \A x, y, z \in S : <<x, y>> \in R /\ <<y, z>> \in R => <<x, z>> \in R
  /\ \A x \in S : <<x, x>> \notin R

\* An order of a finite set has a last element.
LEMMA LastOfAll ==
  ASSUME NEW S, IsFiniteSet(S), NEW R, Orders(R, S), S # {}
  PROVE  \E x \in S : \A y \in S : y # x => <<y, x>> \in R
<1> DEFINE c == [T \in SUBSET S |-> CHOOSE x \in T : TRUE]
           X == {T \in SUBSET S : T # {} => \E x \in T : \A y \in T : y # x => <<y, x>> \in R}
<1>1. Chooses(c, S)
  BY DEF Chooses
<1>2. {} \in X
  OBVIOUS
<1>3. ASSUME NEW T \in SUBSET S, T # {}, T \ {c[T]} \in X PROVE T \in X
  <2>1. PICK e : e = c[T]
    OBVIOUS
  <2>2. e \in T
    BY <1>1, <1>3, <2>1 DEF Chooses
  <2> HIDE DEF c
  <2>3. CASE T \ {e} = {}
    BY <2>2, <2>3
  <2>4. CASE T \ {e} # {}
    <3>1. PICK x \in T \ {e} : \A y \in T \ {e} : y # x => <<y, x>> \in R
      BY <1>3, <2>1, <2>4
    <3>2. CASE <<e, x>> \in R
      BY <3>1, <3>2
    <3>3. CASE <<x, e>> \in R
      <4>1. \A y \in T : y # e => <<y, e>> \in R
        BY <2>2, <3>1, <3>3 DEF Orders
      <4> QED
        BY <2>2, <4>1
    <3> QED
      BY <2>2, <3>1, <3>2, <3>3 DEF Orders
  <2> QED
    BY <2>3, <2>4
<1> HIDE DEF X, c
<1>4. SUBSET S \subseteq X
  BY <1>1, <1>2, <1>3, SetsByInduction
<1> QED
  BY <1>4 DEF X

\* A finite set that is ordered can be numbered in its order.
LEMMA Numbering ==
  ASSUME NEW S, IsFiniteSet(S), NEW R, Orders(R, S)
  PROVE  \E q \in [1 .. Cardinality(S) -> S] :
           /\ \A j, k \in 1 .. Cardinality(S) : j # k => q[j] # q[k]
           /\ \A j, k \in 1 .. Cardinality(S) : j < k => <<q[j], q[k]>> \in R
<1> DEFINE Fine(q, n) == \A j, k \in 1 .. n : j < k => <<q[j], q[k]>> \in R
           N == {n \in Nat : \A T \in SUBSET S : Cardinality(T) = n => \E q \in [1 .. n -> T] : Fine(q, n)}
<1>1. \A T \in SUBSET S : IsFiniteSet(T) /\ Cardinality(T) \in Nat
  BY FS_Subset, FS_CardinalityType
<1>2. 0 \in N
  <2>1. 1 .. 0 = {}
    OBVIOUS
  <2>2. \A T : [i \in 1 .. 0 |-> T] \in [1 .. 0 -> T] /\ Fine([i \in 1 .. 0 |-> T], 0)
    BY <2>1
  <2> HIDE DEF Fine
  <2> QED
    BY <2>2
<1>3. ASSUME NEW n \in Nat, n \in N PROVE n + 1 \in N
  <2>1. SUFFICES ASSUME NEW T \in SUBSET S, Cardinality(T) = n + 1 PROVE \E q \in [1 .. n + 1 -> T] : Fine(q, n + 1)
    OBVIOUS
  <2>2. T # {} /\ IsFiniteSet(T)
    BY <1>1, <2>1, FS_EmptySet
  <2>3. PICK x \in T : \A y \in T : y # x => <<y, x>> \in R
    <3>1. Orders(R, T)
      BY DEF Orders
    <3> QED
      BY <2>2, <3>1, LastOfAll
  <2>4. Cardinality(T \ {x}) = n /\ T \ {x} \in SUBSET S
    <3>1. Cardinality(T \ {x}) = Cardinality(T) - 1
      BY <2>2, FS_RemoveElement
    <3> QED
      BY <2>1, <3>1
  <2>5. PICK q \in [1 .. n -> T \ {x}] : Fine(q, n)
    BY <1>3, <2>4
  <2> DEFINE p == [i \in 1 .. n + 1 |-> IF i = n + 1 THEN x ELSE q[i]]
  <2>6. \A i \in 1 .. n + 1 : i = n + 1 \/ i \in 1 .. n
    OBVIOUS
  <2>7. p \in [1 .. n + 1 -> T]
    BY <2>6
  <2>8. ASSUME NEW j \in 1 .. n + 1, NEW k \in 1 .. n + 1, j < k PROVE <<p[j], p[k]>> \in R
    <3>1. j \in 1 .. n /\ p[j] = q[j] /\ q[j] \in T \ {x}
      BY <2>8
    <3>2. CASE k = n + 1
      BY <2>3, <3>1, <3>2
    <3>3. CASE k \in 1 .. n
      BY <2>5, <2>8, <3>1, <3>3
    <3> QED
      BY <2>6, <3>2, <3>3
  <2> QED
    BY <2>7, <2>8
<1> HIDE DEF N
<1>4. Nat \subseteq N
  BY <1>2, <1>3, NumbersByInduction
<1>5. PICK q \in [1 .. Cardinality(S) -> S] : Fine(q, Cardinality(S))
  <2>1. Cardinality(S) \in N
    BY <1>1, <1>4
  <2> QED
    BY <2>1 DEF N
<1>6. Cardinality(S) \in Nat
  BY <1>1
<1>7. ASSUME NEW j \in 1 .. Cardinality(S), NEW k \in 1 .. Cardinality(S), j # k PROVE q[j] # q[k]
  <2>1. <<q[j], q[k]>> \in R \/ <<q[k], q[j]>> \in R
    BY <1>5, <1>6, <1>7
  <2> QED
    BY <2>1 DEF Orders
<1> QED
  BY <1>5, <1>7

\* The last place of a sequence is the greatest of its places.
LastPlace(n) == [T \in SUBSET (1 .. n) |-> Max(T)]

\* The last place is a choice of places.
LEMMA LastIsChosen ==
  ASSUME NEW n \in Nat
  PROVE  /\ IsFiniteSet(1 .. n) /\ Chooses(LastPlace(n), 1 .. n)
         /\ \A T \in SUBSET (1 .. n) : LastPlace(n)[T] = Max(T)
         /\ \A k \in 1 .. n : Max(1 .. k) = k /\ (1 .. k) \ {k} = 1 .. (k - 1)
<1>1. IsFiniteSet(1 .. n)
  BY FS_Interval
<1>2. ASSUME NEW T \in SUBSET (1 .. n), T # {} PROVE Max(T) \in T
  <2> DEFINE Far == {n - x : x \in T}
  <2>1. Far \in SUBSET Nat /\ Far # {}
    <3>1. \A x \in T : n - x \in Nat
      OBVIOUS
    <3>2. Far \subseteq Nat
      BY <3>1
    <3> QED
      BY <1>2, <3>2
  <2>2. PICK d \in Far : \A e \in Far : d <= e
    BY <2>1, LeastKey
  <2>3. PICK x \in T : d = n - x
    BY <2>2
  <2>4. \A y \in T : x >= y
    BY <2>2, <2>3
  <2> QED
    BY <2>4 DEF Max
<1>3. ASSUME NEW k \in 1 .. n PROVE Max(1 .. k) = k /\ (1 .. k) \ {k} = 1 .. (k - 1)
  <2>1. 1 .. k \in SUBSET (1 .. n) /\ 1 .. k # {} /\ k \in 1 .. k
    OBVIOUS
  <2>2. Max(1 .. k) = CHOOSE x \in 1 .. k : \A y \in 1 .. k : x >= y
    BY DEF Max
  <2>3. \A x \in 1 .. k : (\A y \in 1 .. k : x >= y) => x = k
    BY <2>1
  <2>4. \A y \in 1 .. k : k >= y
    OBVIOUS
  <2>5. Max(1 .. k) = k
    BY <2>1, <2>2, <2>3, <2>4
  <2>6. (1 .. k) \ {k} = 1 .. (k - 1)
    OBVIOUS
  <2> QED
    BY <2>5, <2>6
<1> QED
  BY <1>1, <1>2, <1>3 DEF Chooses, LastPlace

-----------------------------------------------------------------------------
(* Hours *)

\* Within one day, the order of times is that of the clock.
LEMMA DaysAndClocks ==
  ASSUME NEW d \in Nat, d > 0, NEW a \in Int, NEW b \in Int, NEW c \in a .. b, a \div d = b \div d
  PROVE  a % d <= c % d /\ c % d <= b % d
  OBVIOUS

\* The clock of the next instant.
LEMMA NextClock ==
  ASSUME NEW d \in Nat, d > 0, NEW a \in Int
  PROVE  /\ a % d \in 0 .. (d - 1)
         /\ a % d = d - 1 => (a + 1) % d = 0
         /\ a % d # d - 1 => (a + 1) % d = (a % d) + 1
<1>1. PICK q, r : q = a \div d /\ r = a % d
  OBVIOUS
<1>2. q \in Int /\ r \in 0 .. (d - 1) /\ a = q * d + r
  BY <1>1
<1>3. \A p \in Int, s \in 0 .. (d - 1) : (p * d + s) % d = s
  OBVIOUS
<1>4. ASSUME r = d - 1 PROVE (a + 1) % d = 0
  <2>1. q + 1 \in Int /\ 0 \in 0 .. (d - 1)
    BY <1>2
  <2>2. a + 1 = (q + 1) * d + 0
    BY <1>2, <1>4
  <2> QED
    BY <1>3, <2>1, <2>2
<1>5. ASSUME r # d - 1 PROVE (a + 1) % d = r + 1
  <2>1. r + 1 \in 0 .. (d - 1)
    BY <1>2, <1>5
  <2>2. a + 1 = q * d + (r + 1)
    BY <1>2
  <2> QED
    BY <1>2, <1>3, <2>1, <2>2
<1> QED
  BY <1>1, <1>2, <1>4, <1>5

-----------------------------------------------------------------------------
(* The times that respondents are offered: SlotOffers *)

TimesInv == free \in Offerable /\ now \in Nat

\* Moderators are free at the times there may be, and the clock runs on.
LEMMA TimesHold ==
  OffersSpec => []TimesInv
<1>1. OffersInit => TimesInv
  BY DEF OffersInit, TimesInv
<1>2. TimesInv /\ [OffersNext]_offersVars => TimesInv'
  BY DEF TimesInv, OffersNext, offersVars, Ask, Book, Recorded, Cancelled, Invalidated, TimePasses
<1> QED
  BY <1>1, <1>2, PTL DEF OffersSpec

\* An offer is a start in a row, in which the interview fits.
LEMMA OfferFits ==
  ASSUME TimesInv, NEW o \in Offers
  PROVE  \E row \in free.rows :
           /\ row.from \in Int /\ row.to \in Int
           /\ o.moderator = row.moderator /\ row.moderator \in DOMAIN free.hours
           /\ o.from \in Nat /\ row.from <= o.from /\ o.from + Length <= row.to
           /\ o.flag = HasImportedOverlap(row, o.from)
           /\ WithinHours(free.hours[row.moderator], o.from, o.from + Length)
           /\ o = [moderator |-> o.moderator, from |-> o.from, flag |-> o.flag]
<1>0. PICK row \in free.rows : \E t \in ToSet(Starts(row)) :
        o = [moderator |-> row.moderator, from |-> t, flag |-> HasImportedOverlap(row, t)] /\ Fits(row, t)
  BY DEF Offers
<1>1. PICK t \in ToSet(Starts(row)) :
        o = [moderator |-> row.moderator, from |-> t, flag |-> HasImportedOverlap(row, t)] /\ Fits(row, t)
  BY <1>0
<1>2. row.from \in Int /\ row.to \in Int /\ row.moderator \in DOMAIN free.hours
  BY OfferableAssumption DEF TimesInv
<1>3. Step \in Nat /\ Buffer \in Nat
  BY UnitsAssumption
<1>4. t \in Int /\ row.from <= t
  <2> DEFINE last == (row.to - row.from) \div Step
  <2>1. PICK i \in 1 .. last : t = row.from + (i - 1) * Step
    BY <1>1 DEF ToSet, Starts
  <2>2. i - 1 \in Nat
    OBVIOUS
  <2>3. \A k, n \in Nat : k * n \in Nat
    OBVIOUS
  <2>4. (i - 1) * Step \in Nat
    BY <1>3, <2>2, <2>3
  <2> QED
    BY <1>2, <2>1, <2>4
<1>5. /\ o.moderator = row.moderator /\ o.from = t /\ o.flag = HasImportedOverlap(row, t)
  BY <1>1
<1>6. t \in Nat
  BY <1>1, <1>3, <1>4 DEF Fits, TimesInv
<1> QED
  BY <1>1, <1>2, <1>4, <1>5, <1>6 DEF Fits

\* The query looks at the row, the comparison at the start: together they find
\* every imported row that the interview meets, and no other
\* (GetModeratorsAvailabilityMRA).
LEMMA FlagIsRight ==
  ASSUME TimesInv, NEW o \in Offers
  PROVE  o.flag <=> Taken(o) \cap Cells({i \in free.imported : i.moderator = o.moderator}) # {}
<1>1. PICK row \in free.rows :
        /\ row.from \in Int /\ row.to \in Int
        /\ o.moderator = row.moderator
        /\ o.from \in Nat /\ row.from <= o.from /\ o.from + Length <= row.to
        /\ o.flag = HasImportedOverlap(row, o.from)
  BY OfferFits
<1> DEFINE t == o.from
           mine == {i \in free.imported : i.moderator = o.moderator}
<1>2. Length \in Nat /\ Length > 0
  BY UnitsAssumption
<1>3. \A i \in mine : i.from \in Int /\ i.to \in Int /\ i.from < i.to
  BY OfferableAssumption DEF TimesInv
<1>4. ASSUME o.flag
      PROVE  \E x \in Taken(o) : x \in Cells(mine)
  <2>1. PICK i \in mine :
          \/ i.from > t /\ i.from < t + Length
          \/ i.to > t /\ i.to < t + Length
          \/ i.from <= t /\ i.to >= t + Length
    BY <1>1, <1>4 DEF HasImportedOverlap
  <2>2. \E x \in t .. (t + Length - 1) : x \in i.from .. (i.to - 1)
    <3>1. CASE i.from > t /\ i.from < t + Length
      BY <1>1, <1>2, <1>3, <3>1
    <3>2. CASE i.to > t /\ i.to < t + Length
      <4>1. i.to - 1 \in t .. (t + Length - 1) /\ i.to - 1 \in i.from .. (i.to - 1)
        BY <1>1, <1>2, <1>3, <3>2
      <4> QED
        BY <4>1
    <3>3. CASE i.from <= t /\ i.to >= t + Length
      BY <1>1, <1>2, <1>3, <3>3
    <3> QED
      BY <2>1, <3>1, <3>2, <3>3
  <2> QED
    BY <2>2 DEF Taken, Cells
<1>5. ASSUME NEW x \in Taken(o), x \in Cells(mine)
      PROVE  o.flag
  <2>1. PICK i \in mine : x \in i.from .. (i.to - 1)
    BY <1>5 DEF Cells
  <2>2. x \in Int /\ t <= x /\ x < t + Length /\ i.from <= x /\ x < i.to
    BY <1>1, <1>2, <1>3, <2>1 DEF Taken
  <2>3. OverlapsInside(row, i)
    BY <1>1, <1>2, <1>3, <2>2 DEF OverlapsInside
  <2>4. \/ i.from > t /\ i.from < t + Length
        \/ i.to > t /\ i.to < t + Length
        \/ i.from <= t /\ i.to >= t + Length
    BY <1>1, <1>2, <1>3, <2>2
  <2> QED
    BY <1>1, <2>3, <2>4 DEF HasImportedOverlap
<1> QED
  BY <1>4, <1>5

\* Every offer there can be is flagged if and only if the moderator's imported
\* calendar has something during that interview, for any rows, calendars, steps
\* and lengths (GetModeratorsAvailabilityMRA).
THEOREM FlagsAreRight ==
  OffersSpec => []OverlapIsFlagged
<1>1. TimesInv => OverlapIsFlagged
  BY FlagIsRight DEF OverlapIsFlagged
<1> QED
  BY <1>1, TimesHold, PTL

\* An interview within one day keeps, minute for minute, to the hours.
LEMMA HoursKept ==
  ASSUME TimesInv, NEW o \in Offers, NEW h \in free.hours[o.moderator],
         (o.from + h.zone) \div Day = (o.from + Length - 1 + h.zone) \div Day
  PROVE  \A t \in Taken(o) : Clock(t, h.zone) \in h.from .. (h.to - 1)
<1>1. PICK row \in free.rows :
        /\ o.moderator = row.moderator /\ row.moderator \in DOMAIN free.hours
        /\ o.from \in Nat
        /\ WithinHours(free.hours[row.moderator], o.from, o.from + Length)
  BY OfferFits
<1>2. h.from \in Int /\ h.to \in Int /\ h.zone \in Int
  BY <1>1, OfferableAssumption DEF TimesInv
<1>3. Length \in Nat /\ Length > 0 /\ Day \in Nat /\ Day > 0
  BY UnitsAssumption
<1>4. PICK a \in Int, b \in Int : a = o.from + h.zone /\ b = o.from + Length - 1 + h.zone
  BY <1>1, <1>2, <1>3
<1>5. /\ h.from <= a % Day
      /\ h.to >= (IF (b + 1) % Day = 0 THEN Day ELSE (b + 1) % Day)
  <2>1. LET end == Clock(o.from + Length, h.zone)
        IN h.from <= Clock(o.from, h.zone) /\ h.to >= (IF end = 0 THEN Day ELSE end)
    BY <1>1 DEF WithinHours
  <2>2. o.from + Length + h.zone = b + 1
    BY <1>1, <1>2, <1>3, <1>4
  <2> QED
    BY <1>4, <2>1, <2>2 DEF Clock
<1>6. b % Day \in 0 .. (Day - 1) /\ h.to - 1 >= b % Day
  <2>1. /\ b % Day \in 0 .. (Day - 1)
        /\ b % Day = Day - 1 => (b + 1) % Day = 0
        /\ b % Day # Day - 1 => (b + 1) % Day = (b % Day) + 1
    BY <1>3, <1>4, NextClock
  <2> QED
    BY <1>2, <1>3, <1>5, <2>1
<1>7. ASSUME NEW t \in Taken(o) PROVE Clock(t, h.zone) \in h.from .. (h.to - 1)
  <2>1. t \in Int /\ o.from <= t /\ t <= o.from + Length - 1
    BY <1>1, <1>3 DEF Taken
  <2>2. t + h.zone \in a .. b
    BY <1>1, <1>2, <1>3, <1>4, <2>1
  <2>3. a % Day <= (t + h.zone) % Day /\ (t + h.zone) % Day <= b % Day
    BY <1>3, <1>4, <2>2, DaysAndClocks
  <2>4. (t + h.zone) % Day \in Int /\ a % Day \in Int
    BY <1>2, <1>3, <1>4, <2>1, NextClock
  <2> QED
    BY <1>2, <1>5, <1>6, <2>3, <2>4 DEF Clock
<1> QED
  BY <1>7

-----------------------------------------------------------------------------
(* The number of interviews that there is time for *)

\* An offer is within a row.
InRow(o, row) == o.moderator = row.moderator /\ row.from <= o.from /\ o.from + Length <= row.to
TimeFor(row) == (row.to - row.from) \div Length

\* Interviews of one row that do not meet are no more than there is time for.
LEMMA RowBoundsOffers ==
  ASSUME TimesInv, NEW row \in free.rows, NEW S, IsFiniteSet(S), S \subseteq Offers, Disjoint(S),
         \A o \in S : InRow(o, row)
  PROVE  TimeFor(row) \in Nat /\ Cardinality(S) <= TimeFor(row)
<1>1. /\ row.from \in Int /\ row.to \in Int /\ row.to - row.from \in Nat
      /\ Length \in Nat /\ Length > 0
  BY UnitsAssumption, OfferableAssumption DEF TimesInv
<1>2. \A o \in S : o.from \in Int /\ o.moderator = row.moderator /\ row.from <= o.from /\ o.from + Length <= row.to
  BY OfferFits DEF InRow
<1>3. TimeFor(row) \in Nat
  <2>1. PICK d \in Nat : d = row.to - row.from
    BY <1>1
  <2>2. d \div Length \in Nat
    BY <1>1
  <2> QED
    BY <2>1, <2>2 DEF TimeFor
<1> DEFINE place == [o \in S |-> (o.from - row.from) \div Length]
<1>4. ASSUME NEW o \in S PROVE place[o] \in 0 .. (TimeFor(row) - 1)
  <2>1. PICK a \in Nat, d \in Nat : a = o.from - row.from /\ d = row.to - row.from /\ a + Length <= d
    BY <1>1, <1>2
  <2>2. a \div Length \in Nat /\ a \div Length <= (d \div Length) - 1
    <3>1. PICK q, r, p, u : q = a \div Length /\ r = a % Length /\ p = d \div Length /\ u = d % Length
      OBVIOUS
    <3>2. /\ q \in Nat /\ r \in 0 .. (Length - 1) /\ a = q * Length + r
          /\ p \in Nat /\ u \in 0 .. (Length - 1) /\ d = p * Length + u
      BY <1>1, <3>1
    <3>3. (q + 1) * Length <= p * Length + u
      BY <1>1, <2>1, <3>2
    <3>4. q + 1 <= p
      <4>1. SUFFICES ASSUME q >= p PROVE FALSE
        BY <3>2
      <4>2. PICK e \in Nat : q = p + e
        BY <3>2, <4>1
      <4>3. (q + 1) * Length = p * Length + e * Length + Length /\ e * Length \in Nat
        BY <1>1, <3>2, <4>2
      <4> QED
        BY <1>1, <3>2, <3>3, <4>3
    <3> QED
      BY <3>1, <3>2, <3>4
  <2> QED
    BY <1>3, <2>1, <2>2 DEF TimeFor
<1>5. ASSUME NEW o \in S, NEW q \in S, place[o] = place[q] PROVE o = q
  <2>1. SUFFICES ASSUME o # q PROVE FALSE
    OBVIOUS
  <2>2. Taken(o) \cap Taken(q) = {}
    BY <1>2, <2>1 DEF Disjoint
  <2>3. o.from \in Taken(o) /\ q.from \in Taken(q)
    BY <1>1, <1>2 DEF Taken
  <2>4. ~(o.from \in Taken(q)) /\ ~(q.from \in Taken(o))
    BY <2>2, <2>3
  <2>5. o.from >= q.from + Length \/ q.from >= o.from + Length
    BY <1>1, <1>2, <2>4 DEF Taken
  <2>6. PICK a \in Nat, b \in Nat : a = o.from - row.from /\ b = q.from - row.from
    BY <1>1, <1>2
  <2>7. a \div Length = b \div Length
    BY <1>5, <2>6
  <2>8. a >= b + Length \/ b >= a + Length
    BY <1>1, <1>2, <2>5, <2>6
  <2> QED
    BY <1>1, <2>7, <2>8
<1>6. place \in [S -> 0 .. (TimeFor(row) - 1)]
  BY <1>4
<1>7. place \in Injection(S, 0 .. (TimeFor(row) - 1))
  BY <1>5, <1>6 DEF Injection, IsInjective
<1>8. IsFiniteSet(0 .. (TimeFor(row) - 1)) /\ Cardinality(0 .. (TimeFor(row) - 1)) = TimeFor(row)
  BY <1>3, FS_Interval
<1>9. Cardinality(S) <= TimeFor(row)
  BY <1>7, <1>8, FS_Injection
<1> QED
  BY <1>3, <1>9

\* The sum over rows bounds the interviews that are within them.
LEMMA RowsBoundOffers ==
  ASSUME TimesInv, NEW R \in SUBSET free.rows, NEW S, IsFiniteSet(S), S \subseteq Offers, Disjoint(S),
         \A o \in S : \E row \in R : InRow(o, row)
  PROVE  /\ MapThenSumSet(LAMBDA row : (row.to - row.from) \div Length, R) \in Nat
         /\ Cardinality(S) <= MapThenSumSet(LAMBDA row : (row.to - row.from) \div Length, R)
<1> DEFINE some(T) == CHOOSE x \in T : TRUE
           Sums(it) == it = [T \in SUBSET R |-> IF T = {} THEN 0
                                                ELSE ((some(T).to - some(T).from) \div Length) + it[T \ {some(T)}]]
           c == [T \in SUBSET R |-> some(T)]
           H == [p \in R \X Nat |-> TimeFor(p[1]) + p[2]]
<1>1. IsFiniteSet(R)
  BY FS_Subset, OfferableAssumption DEF TimesInv
<1>2. Chooses(c, R)
  BY DEF Chooses
<1>3. \A row \in R : TimeFor(row) \in Nat
  <2>1. IsFiniteSet({}) /\ Disjoint({})
    BY FS_EmptySet DEF Disjoint
  <2> QED
    BY <2>1, RowBoundsOffers
<1>4. H \in [R \X Nat -> Nat]
  <2>1. \A p \in R \X Nat : TimeFor(p[1]) + p[2] \in Nat
    BY <1>3
  <2> QED
    BY <2>1
<1>5. PICK g \in [SUBSET R -> Nat] : Takes(g, R, c, 0, H)
  <2> HIDE DEF c, H
  <2>1. 0 \in Nat
    OBVIOUS
  <2> QED
    BY <1>1, <1>2, <1>4, <2>1, Recursion, Zenon
<1>6. \A T \in SUBSET R : T # {} => c[T] = some(T) /\ some(T) \in T /\ T \ {some(T)} \in SUBSET R
  OBVIOUS
<1>7. Sums(g)
  <2>1. ASSUME NEW T \in SUBSET R, T # {}
        PROVE  H[<<c[T], g[T \ {c[T]}]>>] = ((some(T).to - some(T).from) \div Length) + g[T \ {some(T)}]
    <3>1. PICK x : x = some(T)
      OBVIOUS
    <3>2. x \in R /\ c[T] = x /\ T \ {x} \in SUBSET R
      BY <1>6, <2>1, <3>1
    <3> HIDE DEF some, c
    <3>3. g[T \ {x}] \in Nat
      BY <3>2
    <3>4. H[<<x, g[T \ {x}]>>] = TimeFor(x) + g[T \ {x}]
      BY <3>2, <3>3
    <3> QED
      BY <3>1, <3>2, <3>4 DEF TimeFor
  <2>2. \A T \in SUBSET R : g[T] = IF T = {} THEN 0 ELSE ((some(T).to - some(T).from) \div Length) + g[T \ {some(T)}]
    <3> HIDE DEF some, c, H
    <3> QED
      BY <1>5, <2>1 DEF Takes
  <2> HIDE DEF some, c, H
  <2> QED
    BY <2>2
<1>8. PICK iter : iter = CHOOSE it : Sums(it)
  OBVIOUS
<1>9. Sums(iter)
  <2> HIDE DEF Sums
  <2> QED
    BY <1>7, <1>8
<1>10. MapThenSumSet(LAMBDA row : (row.to - row.from) \div Length, R) = iter[R]
  BY <1>8, Zenon DEF MapThenSumSet, MapThenFoldSet
<1> DEFINE X == {T \in SUBSET R :
                   /\ iter[T] \in Nat
                   /\ \A Q \in SUBSET S : (\A o \in Q : \E row \in T : InRow(o, row)) => Cardinality(Q) <= iter[T]}
<1>11. {} \in X
  <2>1. iter[{}] = 0
    BY <1>9
  <2>2. ASSUME NEW Q \in SUBSET S, \A o \in Q : \E row \in {} : InRow(o, row) PROVE Cardinality(Q) <= 0
    <3>1. Q = {}
      BY <2>2
    <3> QED
      BY <3>1, FS_EmptySet
  <2> HIDE DEF Sums
  <2> QED
    BY <2>1, <2>2
<1>12. ASSUME NEW T \in SUBSET R, T # {}, T \ {c[T]} \in X PROVE T \in X
  <2>1. PICK x : x = some(T)
    OBVIOUS
  <2>2. x \in T /\ x \in R /\ c[T] = x
    BY <1>6, <1>12, <2>1
  <2>3. iter[T] = TimeFor(x) + iter[T \ {x}]
    <3> HIDE DEF some, c, X
    <3> QED
      BY <1>9, <1>12, <2>1 DEF TimeFor
  <2> HIDE DEF some, c, Sums
  <2>4. iter[T \ {x}] \in Nat /\ iter[T] \in Nat
    BY <1>3, <1>12, <2>2, <2>3
  <2>5. ASSUME NEW Q \in SUBSET S, \A o \in Q : \E row \in T : InRow(o, row) PROVE Cardinality(Q) <= iter[T]
    <3> DEFINE A == {o \in Q : InRow(o, x)}
               B == Q \ A
    <3>1. A \in SUBSET S /\ B \in SUBSET S /\ Q = A \cup B /\ A \cap B = {}
      OBVIOUS
    <3>2. \A o \in B : \E row \in T \ {x} : InRow(o, row)
      BY <2>5
    <3>3. \A o \in A : InRow(o, x)
      OBVIOUS
    <3> HIDE DEF A, B
    <3>4. IsFiniteSet(A) /\ IsFiniteSet(B) /\ Cardinality(A) \in Nat /\ Cardinality(B) \in Nat
      BY <3>1, FS_Subset, FS_CardinalityType
    <3>5. Cardinality(B) <= iter[T \ {x}]
      BY <1>12, <2>2, <3>1, <3>2
    <3>6. Disjoint(A) /\ A \subseteq Offers
      BY <3>1 DEF Disjoint
    <3>7. Cardinality(A) <= TimeFor(x)
      BY <2>2, <3>3, <3>4, <3>6, RowBoundsOffers
    <3>8. Cardinality(Q) = Cardinality(A) + Cardinality(B) - Cardinality({})
      BY <3>1, <3>4, FS_Union
    <3>9. Cardinality({}) = 0
      BY FS_EmptySet
    <3> QED
      BY <1>3, <2>2, <2>3, <2>4, <3>4, <3>5, <3>7, <3>8, <3>9
  <2> QED
    BY <2>4, <2>5
<1> HIDE DEF X, c
<1>13. SUBSET R \subseteq X
  BY <1>1, <1>2, <1>11, <1>12, SetsByInduction
<1>14. R \in X
  BY <1>13
<1> QED
  BY <1>10, <1>14 DEF X

\* A respondent is offered finitely many times.
LEMMA OffersAreFinite ==
  ASSUME TimesInv
  PROVE  IsFiniteSet(Offers)
<1> DEFINE Given(row) == {[moderator |-> row.moderator, from |-> t, flag |-> HasImportedOverlap(row, t)] :
                         t \in {u \in ToSet(Starts(row)) : Fits(row, u)}}
           All == {Given(row) : row \in free.rows}
<1>1. ASSUME NEW row \in free.rows PROVE IsFiniteSet(Given(row))
  <2> DEFINE offer(t) == [moderator |-> row.moderator, from |-> t, flag |-> HasImportedOverlap(row, t)]
             all == {offer(Starts(row)[i]) : i \in DOMAIN Starts(row)}
             f == [i \in DOMAIN Starts(row) |-> offer(Starts(row)[i])]
  <2>1. (row.to - row.from) \div Step \in Int
    BY UnitsAssumption, OfferableAssumption DEF TimesInv
  <2>2. DOMAIN Starts(row) = 1 .. ((row.to - row.from) \div Step)
    BY DEF Starts
  <2>3. IsFiniteSet(DOMAIN Starts(row))
    BY <2>1, <2>2, FS_Interval
  <2>4. f \in Surjection(DOMAIN Starts(row), all)
    <3> HIDE DEF offer
    <3> QED
      BY DEF Surjection
  <2>5. Given(row) \in SUBSET all
    BY DEF ToSet
  <2> HIDE DEF f, all, Given
  <2>6. IsFiniteSet(all)
    BY <2>3, <2>4, FS_Surjection
  <2> QED
    BY <2>5, <2>6, FS_Subset
<1>2. IsFiniteSet(All)
  <2> DEFINE f == [row \in free.rows |-> Given(row)]
  <2> HIDE DEF Given
  <2>1. f \in Surjection(free.rows, All)
    BY DEF Surjection
  <2>2. IsFiniteSet(free.rows)
    BY OfferableAssumption DEF TimesInv
  <2> HIDE DEF f, All
  <2> QED
    BY <2>1, <2>2, FS_Surjection
<1>3. \A T \in All : IsFiniteSet(T)
  BY <1>1
<1>4. Offers = IF ParseTime THEN {} ELSE UNION All
  BY DEF Offers
<1> HIDE DEF All
<1>5. IsFiniteSet(UNION All)
  BY <1>2, <1>3, FS_UNION
<1> QED
  BY <1>4, <1>5, FS_EmptySet

\* The number that the project manager is told, against the offers there are.
LEMMA CountBounds ==
  ASSUME TimesInv
  PROVE  CountBoundsOffers
<1> SUFFICES ASSUME NEW S \in kSubset(AvModCount + 1, Offers), Disjoint(S) PROVE FALSE
  BY DEF CountBoundsOffers
<1>1. S \in SUBSET Offers /\ Cardinality(S) = AvModCount + 1
  BY DEF kSubset
<1> DEFINE R == {row \in free.rows : row.to >= now}
<1>2. IsFiniteSet(S)
  BY <1>1, OffersAreFinite, FS_Subset
<1>3. \A o \in S : \E row \in R : InRow(o, row)
  <2>1. TAKE o \in S
  <2>2. PICK row \in free.rows : /\ row.to \in Int /\ o.moderator = row.moderator /\ o.from \in Int
                                 /\ row.from <= o.from /\ o.from + Length <= row.to /\ o.from >= now + Buffer
    <3>1. PICK row \in free.rows : \E t \in ToSet(Starts(row)) :
            o = [moderator |-> row.moderator, from |-> t, flag |-> HasImportedOverlap(row, t)] /\ Fits(row, t)
      BY <1>1 DEF Offers
    <3>2. o.from >= now + Buffer
      BY <3>1 DEF Fits
    <3> QED
      BY <1>1, <3>2, OfferFits
  <2>3. row.to >= now
    BY <2>2, UnitsAssumption DEF TimesInv
  <2> QED
    BY <2>2, <2>3 DEF InRow
<1>4. AvModCount = MapThenSumSet(LAMBDA row : (row.to - row.from) \div Length, R)
  BY Zenon DEF AvModCount
<1>5. R \in SUBSET free.rows
  OBVIOUS
<1>6. AvModCount \in Nat /\ Cardinality(S) <= AvModCount
  <2> HIDE DEF R
  <2> QED
    BY <1>1, <1>2, <1>3, <1>4, <1>5, RowsBoundOffers
<1> QED
  BY <1>1, <1>6

-----------------------------------------------------------------------------
(* The two pages of the project manager *)

HasOffer(row) == \E t \in ToSet(Starts(row)) : Fits(row, t)
Moderators == {row.moderator : row \in free.rows}
Sets == [available : SUBSET Moderators, unavailable : SUBSET Moderators]

\* One start of a row.
SortOne(acc, row, t) ==
  IF Fits(row, t)
  THEN [available |-> acc.available \cup {row.moderator}, unavailable |-> acc.unavailable \ {row.moderator}]
  ELSE IF row.moderator \in acc.available THEN acc
  ELSE [acc EXCEPT !.unavailable = @ \cup {row.moderator}]

\* One row, sorted into the two pages.
LEMMA SortsOne ==
  ASSUME NEW acc \in Sets, NEW row \in free.rows, NEW t
  PROVE  /\ SortOne(acc, row, t) \in Sets
         /\ SortOne(acc, row, t).available = acc.available \cup (IF Fits(row, t) THEN {row.moderator} ELSE {})
         /\ acc.unavailable \cap acc.available = {} =>
              SortOne(acc, row, t).unavailable \cap SortOne(acc, row, t).available = {}
<1>1. row.moderator \in Moderators
  BY DEF Moderators
<1> HIDE DEF Moderators
<1>2. acc.available \in SUBSET Moderators /\ acc.unavailable \in SUBSET Moderators
      /\ acc = [available |-> acc.available, unavailable |-> acc.unavailable]
  BY DEF Sets
<1>3. CASE Fits(row, t)
  BY <1>1, <1>2, <1>3 DEF SortOne, Sets
<1>4. CASE ~Fits(row, t) /\ row.moderator \in acc.available
  BY <1>1, <1>2, <1>4 DEF SortOne, Sets
<1>5. CASE ~Fits(row, t) /\ row.moderator \notin acc.available
  <2>1. SortOne(acc, row, t) = [available |-> acc.available, unavailable |-> acc.unavailable \cup {row.moderator}]
    BY <1>2, <1>5 DEF SortOne
  <2> QED
    BY <1>1, <1>2, <1>5, <2>1 DEF Sets
<1> QED
  BY <1>3, <1>4, <1>5

\* The starts of a row: its moderator is available if one of them is offered.
LEMMA SortsRow ==
  ASSUME TimesInv, NEW sets \in Sets, NEW row \in free.rows
  PROVE  /\ Sort(sets, row) \in Sets
         /\ Sort(sets, row).available = sets.available \cup (IF HasOffer(row) THEN {row.moderator} ELSE {})
         /\ sets.unavailable \cap sets.available = {} =>
              Sort(sets, row).unavailable \cap Sort(sets, row).available = {}
<1> DEFINE s == Starts(row)
           n == (row.to - row.from) \div Step
<1>1. n \in Nat /\ DOMAIN s = 1 .. n
  <2>1. row.to - row.from \in Nat /\ Step \in Nat /\ Step > 0
    BY UnitsAssumption, OfferableAssumption DEF TimesInv
  <2>2. \A d \in Nat : d \div Step \in Nat
    BY <2>1
  <2> QED
    BY <2>1, <2>2 DEF Starts
<1> HIDE DEF s, n
<1> DEFINE Steps(it) == it = [T \in SUBSET DOMAIN s |->
                                IF T = {} THEN sets ELSE SortOne(it[T \ {Max(T)}], row, s[Max(T)])]
           H == [p \in (1 .. n) \X Sets |-> SortOne(p[2], row, s[p[1]])]
           iter == CHOOSE it : Steps(it)
<1>2. Sort(sets, row) = iter[1 .. n]
  <2>1. Sort(sets, row) = (CHOOSE it : Steps(it))[DOMAIN s]
    BY Zenon DEF Sort, SortOne, FoldLeft, MapThenFoldSet, s
  <2> QED
    BY <1>1, <2>1
<1>3. H \in [(1 .. n) \X Sets -> Sets]
  <2>1. \A p \in (1 .. n) \X Sets : SortOne(p[2], row, s[p[1]]) \in Sets
    BY SortsOne
  <2> QED
    BY <2>1
<1>4. PICK g \in [SUBSET (1 .. n) -> Sets] : Takes(g, 1 .. n, LastPlace(n), sets, H)
  <2>1. IsFiniteSet(1 .. n) /\ Chooses(LastPlace(n), 1 .. n)
    BY <1>1, LastIsChosen
  <2> HIDE DEF H
  <2> QED
    BY <1>3, <2>1, Recursion, Zenon
<1>5. Steps(g)
  <2>1. ASSUME NEW T \in SUBSET (1 .. n), T # {}
        PROVE  H[<<LastPlace(n)[T], g[T \ {LastPlace(n)[T]}]>>] = SortOne(g[T \ {Max(T)}], row, s[Max(T)])
    <3>1. LastPlace(n)[T] = Max(T) /\ Max(T) \in 1 .. n /\ T \ {Max(T)} \in SUBSET (1 .. n)
      BY <1>1, <2>1, LastIsChosen DEF Chooses
    <3>2. g[T \ {Max(T)}] \in Sets
      BY <3>1
    <3> QED
      BY <3>1, <3>2
  <2>2. \A T \in SUBSET (1 .. n) : g[T] = IF T = {} THEN sets ELSE SortOne(g[T \ {Max(T)}], row, s[Max(T)])
    <3> HIDE DEF H
    <3> QED
      BY <1>4, <2>1 DEF Takes
  <2> HIDE DEF H
  <2> QED
    BY <1>1, <2>2
<1>6. Steps(iter)
  <2> HIDE DEF Steps
  <2> QED
    BY <1>5
<1> HIDE DEF iter, H
<1> DEFINE Held(k) ==
             /\ iter[1 .. k] \in Sets
             /\ iter[1 .. k].available =
                  sets.available \cup (IF \E j \in 1 .. k : Fits(row, s[j]) THEN {row.moderator} ELSE {})
             /\ sets.unavailable \cap sets.available = {} =>
                  iter[1 .. k].unavailable \cap iter[1 .. k].available = {}
           X == {k \in Nat : k <= n => Held(k)}
<1>7. 0 \in X
  <2>1. 1 .. 0 = {}
    OBVIOUS
  <2>2. iter[1 .. 0] = sets
    BY <1>6, <2>1
  <2> HIDE DEF Steps
  <2> QED
    BY <2>1, <2>2
<1>8. ASSUME NEW k \in Nat, k \in X PROVE k + 1 \in X
  <2>1. SUFFICES ASSUME k + 1 <= n PROVE Held(k + 1)
    OBVIOUS
  <2>2. Held(k) /\ k + 1 \in 1 .. n /\ (k + 1) - 1 = k
    BY <1>1, <1>8, <2>1
  <2>3. Max(1 .. k + 1) = k + 1 /\ (1 .. k + 1) \ {k + 1} = 1 .. k
    BY <1>1, <2>2, LastIsChosen
  <2>4. 1 .. k + 1 \in SUBSET (1 .. n) /\ 1 .. k + 1 # {}
    <3>1. k + 1 \in 1 .. k + 1 /\ \A j \in 1 .. k + 1 : j \in 1 .. n
      BY <1>1, <2>2
    <3> QED
      BY <3>1
  <2>5. iter[1 .. k + 1] = SortOne(iter[1 .. k], row, s[k + 1])
    BY <1>1, <1>6, <2>3, <2>4
  <2> HIDE DEF Steps
  <2>6. PICK acc, t : acc \in Sets /\ acc = iter[1 .. k] /\ t = s[k + 1]
    BY <2>2
  <2>7. /\ SortOne(acc, row, t) \in Sets
        /\ SortOne(acc, row, t).available = acc.available \cup (IF Fits(row, t) THEN {row.moderator} ELSE {})
        /\ acc.unavailable \cap acc.available = {} =>
              SortOne(acc, row, t).unavailable \cap SortOne(acc, row, t).available = {}
    BY <2>6, SortsOne
  <2>8. (\E j \in 1 .. k + 1 : Fits(row, s[j])) <=> (\E j \in 1 .. k : Fits(row, s[j])) \/ Fits(row, t)
    <3>1. \A j \in 1 .. k + 1 : j \in 1 .. k \/ j = k + 1
      OBVIOUS
    <3>2. 1 .. k \subseteq 1 .. k + 1 /\ k + 1 \in 1 .. k + 1
      OBVIOUS
    <3> QED
      BY <2>6, <3>1, <3>2
  <2> QED
    BY <2>2, <2>5, <2>6, <2>7, <2>8
<1> HIDE DEF X
<1>9. Nat \subseteq X
  BY <1>7, <1>8, NumbersByInduction
<1>10. Held(n)
  BY <1>1, <1>9 DEF X
<1>11. HasOffer(row) <=> \E j \in 1 .. n : Fits(row, s[j])
  BY <1>1 DEF HasOffer, ToSet, s
<1> QED
  BY <1>2, <1>10, <1>11

\* The rows in order of their ids are all the rows.
LEMMA RowsById ==
  ASSUME TimesInv
  PROVE  \E n \in Nat : /\ ById(free.rows) \in [1 .. n -> free.rows]
                        /\ \A row \in free.rows : \E k \in 1 .. n : ById(free.rows)[k] = row
<1> DEFINE S == free.rows
           n == Cardinality(free.rows)
           R == {p \in S \X S : p[1].id < p[2].id}
<1>1. IsFiniteSet(S) /\ n \in Nat
  BY FS_CardinalityType, OfferableAssumption DEF TimesInv
<1>2. \A r, q \in S : r.id \in Int /\ (r.id = q.id => r = q)
  BY OfferableAssumption DEF TimesInv
<1>3. Orders(R, S)
  <2>1. \A x, y \in S : <<x, y>> \in R <=> x.id < y.id
    OBVIOUS
  <2> HIDE DEF R
  <2> QED
    BY <1>2, <2>1 DEF Orders
<1> HIDE DEF R
<1>4. PICK q \in [1 .. n -> S] : /\ \A j, k \in 1 .. n : j # k => q[j] # q[k]
                                 /\ \A j, k \in 1 .. n : j < k => <<q[j], q[k]>> \in R
  BY <1>1, <1>3, Numbering
<1> DEFINE InOrder(p) == \A j, k \in DOMAIN p : j < k => p[j].id < p[k].id
<1>5. q \in SetToSeqs(S) /\ InOrder(q)
  <2>1. q \in SetToSeqs(S)
    BY <1>4 DEF SetToSeqs
  <2>2. InOrder(q)
    BY <1>4 DEF R
  <2> QED
    BY <2>1, <2>2
<1>6. ById(S) = CHOOSE p \in SetToSeqs(S) : InOrder(p)
  BY DEF ById
<1> HIDE DEF InOrder
<1>7. ById(S) \in SetToSeqs(S)
  BY <1>5, <1>6
<1>8. PICK p : p = ById(S)
  OBVIOUS
<1>9. p \in [1 .. n -> S] /\ \A j, k \in 1 .. n : j # k => p[j] # p[k]
  BY <1>7, <1>8 DEF SetToSeqs
<1>10. \A row \in S : \E k \in 1 .. n : p[k] = row
  <2>1. p \in Injection(1 .. n, S)
    BY <1>9 DEF Injection, IsInjective
  <2>2. IsFiniteSet(1 .. n) /\ Cardinality(1 .. n) = n
    BY <1>1, FS_Interval
  <2>3. p \in Surjection(1 .. n, S)
    BY <1>1, <2>1, <2>2, FS_Injection
  <2> QED
    BY <2>3 DEF Surjection
<1> QED
  BY <1>1, <1>8, <1>9, <1>10

\* After all rows those are available who have an offer, and nobody is both.
LEMMA SortsAll ==
  ASSUME TimesInv,
         NEW sets, sets = FoldLeft(Sort, [available |-> {}, unavailable |-> {}], ById(free.rows))
  PROVE  /\ sets \in Sets
         /\ sets.available = {row.moderator : row \in {r \in free.rows : HasOffer(r)}}
         /\ sets.unavailable \cap sets.available = {}
<1>1. PICK n \in Nat : /\ ById(free.rows) \in [1 .. n -> free.rows]
                       /\ \A row \in free.rows : \E k \in 1 .. n : ById(free.rows)[k] = row
  BY RowsById
<1>2. PICK s : s = ById(free.rows)
  OBVIOUS
<1>3. s \in [1 .. n -> free.rows] /\ DOMAIN s = 1 .. n /\ \A row \in free.rows : \E k \in 1 .. n : s[k] = row
  BY <1>1, <1>2
<1> DEFINE none == [available |-> {}, unavailable |-> {}]
           Steps(it) == it = [T \in SUBSET DOMAIN s |->
                                IF T = {} THEN none ELSE Sort(it[T \ {Max(T)}], s[Max(T)])]
           H == [p \in (1 .. n) \X Sets |-> Sort(p[2], s[p[1]])]
           iter == CHOOSE it : Steps(it)
<1>4. sets = iter[1 .. n]
  <2>1. sets = (CHOOSE it : Steps(it))[DOMAIN s]
    BY <1>2, Zenon DEF FoldLeft, MapThenFoldSet
  <2> QED
    BY <1>3, <2>1
<1>5. none \in Sets
  BY DEF Sets
<1>6. H \in [(1 .. n) \X Sets -> Sets]
  <2>1. \A p \in (1 .. n) \X Sets : Sort(p[2], s[p[1]]) \in Sets
    BY <1>3, SortsRow
  <2> QED
    BY <2>1
<1>7. PICK g \in [SUBSET (1 .. n) -> Sets] : Takes(g, 1 .. n, LastPlace(n), none, H)
  <2>1. IsFiniteSet(1 .. n) /\ Chooses(LastPlace(n), 1 .. n)
    BY LastIsChosen
  <2> HIDE DEF H, none
  <2> QED
    BY <1>5, <1>6, <2>1, Recursion, Zenon
<1> HIDE DEF none
<1>8. Steps(g)
  <2>1. ASSUME NEW T \in SUBSET (1 .. n), T # {}
        PROVE  H[<<LastPlace(n)[T], g[T \ {LastPlace(n)[T]}]>>] = Sort(g[T \ {Max(T)}], s[Max(T)])
    <3>1. LastPlace(n)[T] = Max(T) /\ Max(T) \in 1 .. n /\ T \ {Max(T)} \in SUBSET (1 .. n)
      BY <2>1, LastIsChosen DEF Chooses
    <3>2. g[T \ {Max(T)}] \in Sets
      BY <3>1
    <3> QED
      BY <3>1, <3>2
  <2>2. \A T \in SUBSET (1 .. n) : g[T] = IF T = {} THEN none ELSE Sort(g[T \ {Max(T)}], s[Max(T)])
    <3> HIDE DEF H
    <3> QED
      BY <1>7, <2>1 DEF Takes
  <2> HIDE DEF H
  <2> QED
    BY <1>3, <2>2
<1>9. Steps(iter)
  <2> HIDE DEF Steps
  <2> QED
    BY <1>8
<1> HIDE DEF iter, H
<1> DEFINE Held(k) ==
             /\ iter[1 .. k] \in Sets
             /\ \A m : m \in iter[1 .. k].available <=> \E j \in 1 .. k : HasOffer(s[j]) /\ s[j].moderator = m
             /\ iter[1 .. k].unavailable \cap iter[1 .. k].available = {}
           X == {k \in Nat : k <= n => Held(k)}
<1>10. 0 \in X
  <2>1. 1 .. 0 = {}
    OBVIOUS
  <2>2. iter[1 .. 0] = none
    BY <1>9, <2>1
  <2> HIDE DEF Steps
  <2> QED
    BY <1>5, <2>1, <2>2 DEF none
<1>11. ASSUME NEW k \in Nat, k \in X PROVE k + 1 \in X
  <2>1. SUFFICES ASSUME k + 1 <= n PROVE Held(k + 1)
    OBVIOUS
  <2>2. Held(k) /\ k + 1 \in 1 .. n /\ (k + 1) - 1 = k
    BY <1>11, <2>1
  <2>3. Max(1 .. k + 1) = k + 1 /\ (1 .. k + 1) \ {k + 1} = 1 .. k
    BY <2>2, LastIsChosen
  <2>4. 1 .. k + 1 \in SUBSET (1 .. n) /\ 1 .. k + 1 # {}
    <3>1. k + 1 \in 1 .. k + 1 /\ \A j \in 1 .. k + 1 : j \in 1 .. n
      BY <2>2
    <3> QED
      BY <3>1
  <2>5. iter[1 .. k + 1] = Sort(iter[1 .. k], s[k + 1])
    BY <1>3, <1>9, <2>3, <2>4
  <2> HIDE DEF Steps
  <2>6. PICK acc, row : acc \in Sets /\ row \in free.rows /\ acc = iter[1 .. k] /\ row = s[k + 1]
    BY <1>3, <2>2
  <2>7. /\ Sort(acc, row) \in Sets
        /\ Sort(acc, row).available = acc.available \cup (IF HasOffer(row) THEN {row.moderator} ELSE {})
        /\ acc.unavailable \cap acc.available = {} => Sort(acc, row).unavailable \cap Sort(acc, row).available = {}
    BY <2>6, SortsRow
  <2>8. \A m : (\E j \in 1 .. k + 1 : HasOffer(s[j]) /\ s[j].moderator = m) <=>
                 (\E j \in 1 .. k : HasOffer(s[j]) /\ s[j].moderator = m) \/ (HasOffer(row) /\ row.moderator = m)
    <3>1. \A j \in 1 .. k + 1 : j \in 1 .. k \/ j = k + 1
      OBVIOUS
    <3>2. 1 .. k \subseteq 1 .. k + 1 /\ k + 1 \in 1 .. k + 1
      OBVIOUS
    <3> QED
      BY <2>6, <3>1, <3>2
  <2> QED
    BY <2>2, <2>5, <2>6, <2>7, <2>8
<1> HIDE DEF X
<1>12. Nat \subseteq X
  BY <1>10, <1>11, NumbersByInduction
<1>13. Held(n)
  BY <1>12 DEF X
<1>14. \A m : (\E j \in 1 .. n : HasOffer(s[j]) /\ s[j].moderator = m) <=>
                m \in {row.moderator : row \in {r \in free.rows : HasOffer(r)}}
  BY <1>3
<1> QED
  BY <1>4, <1>13, <1>14

\* The two pages list who has an offer, and who has none.
LEMMA PagesAreOfOffers ==
  ASSUME TimesInv
  PROVE  PagesAgree
<1> SUFFICES ASSUME ~ParseTime
             PROVE  LET offered == {o.moderator : o \in Offers}
                    IN /\ Verdict = "error" <=> offered = {}
                       /\ Verdict = "fine" <=> offered # {} /\ offered = DOMAIN free.hours
  BY DEF PagesAgree
<1> DEFINE offered == {o.moderator : o \in Offers}
<1>1. PICK sets : sets = FoldLeft(Sort, [available |-> {}, unavailable |-> {}], ById(free.rows))
  OBVIOUS
<1>2. /\ sets \in Sets
      /\ sets.available = {row.moderator : row \in {r \in free.rows : HasOffer(r)}}
      /\ sets.unavailable \cap sets.available = {}
  BY <1>1, SortsAll
<1>3. offered = sets.available
  <2>1. ASSUME NEW o \in Offers PROVE o.moderator \in sets.available
    <3>1. PICK row \in free.rows : \E t \in ToSet(Starts(row)) :
            o = [moderator |-> row.moderator, from |-> t, flag |-> HasImportedOverlap(row, t)] /\ Fits(row, t)
      BY DEF Offers
    <3> QED
      BY <1>2, <3>1 DEF HasOffer
  <2>2. ASSUME NEW row \in free.rows, HasOffer(row) PROVE row.moderator \in offered
    <3>1. PICK t \in ToSet(Starts(row)) : Fits(row, t)
      BY <2>2 DEF HasOffer
    <3>2. [moderator |-> row.moderator, from |-> t, flag |-> HasImportedOverlap(row, t)] \in Offers
      BY <3>1 DEF Offers
    <3> QED
      BY <3>2
  <2> QED
    BY <1>2, <2>1, <2>2
<1>4. sets.unavailable \subseteq DOMAIN free.hours /\ sets.available \subseteq DOMAIN free.hours
  BY <1>2, OfferableAssumption DEF Sets, Moderators, TimesInv
<1>5. Verdict = IF sets.available = {} THEN "error"
                ELSE IF sets.unavailable # {} \/ DOMAIN free.hours \ sets.available # {} THEN "warning"
                ELSE "fine"
  BY <1>1 DEF Verdict
<1> HIDE DEF offered
<1>6. Verdict = "error" <=> offered = {}
  BY <1>3, <1>5
<1>7. Verdict = "fine" <=> offered # {} /\ offered = DOMAIN free.hours
  <2>1. CASE sets.available = DOMAIN free.hours
    <3>1. sets.unavailable = {}
      BY <1>2, <1>4, <2>1
    <3> QED
      BY <1>3, <1>5, <2>1, <3>1
  <2>2. CASE sets.available # DOMAIN free.hours
    <3>1. DOMAIN free.hours \ sets.available # {}
      BY <1>4, <2>2
    <3> QED
      BY <1>3, <1>5, <2>2, <3>1
  <2> QED
    BY <2>1, <2>2
<1> QED
  BY <1>6, <1>7 DEF offered

-----------------------------------------------------------------------------
(* The quota of a project and late changes *)

\* Interviews that take a place of the sample, whatever the time.
Counted ==
  {s \in TimeSlot : \/ timeSlot[s].status = "pending"
                    \/ timeSlot[s].status = "completed" /\ ~timeSlot[s].invalidated}

AnyOffer == [moderator : UNION {{row.moderator : row \in f.rows} : f \in Offerable}, from : Int, flag : BOOLEAN]

QuotaTypes ==
  /\ TimesInv
  /\ timeSlot \in [TimeSlot -> [by : Respondent \cup {"nobody"}, from : Int, status : Status \cup {"none"},
                               invalidated : BOOLEAN]]
  /\ shown \in [Respondent -> [offers : SUBSET AnyOffer, stale : BOOLEAN]]
  /\ crowded \in BOOLEAN /\ late \in BOOLEAN

\* One who has a good offer leaves room when it is booked: there is some, or the
\* interview that is changed makes it.
HasRoom(r) == Cardinality(Counted) < SampleSize \/ PendingSlots(r) # {}

RoomKept ==
  ~crowded =>
    /\ Cardinality(Counted) <= SampleSize
    /\ \A r \in Respondent : shown[r].offers # {} /\ ~shown[r].stale => HasRoom(r)

\* Booking moves what was pending: nobody has two interviews to be held.
OnePending ==
  \A s, q \in TimeSlot :
    /\ timeSlot[s].status = "pending" /\ ~timeSlot[s].invalidated
    /\ timeSlot[q].status = "pending" /\ ~timeSlot[q].invalidated
    /\ timeSlot[s].by = timeSlot[q].by
    => s = q

QuotaInv ==
  /\ QuotaTypes
  /\ \A s \in TimeSlot : timeSlot[s].status = "none" => ~timeSlot[s].invalidated
  /\ OnePending
  /\ RoomKept
  /\ ~ParseTime => ~late

\* Finitely many interviews count.
LEMMA CountedIsFinite ==
  /\ IsFiniteSet(Counted) /\ Cardinality(Counted) \in Nat
  /\ IsFiniteSet(Counted') /\ Cardinality(Counted') \in Nat
<1>1. Counted \subseteq TimeSlot /\ Counted' \subseteq TimeSlot
  BY DEF Counted
<1>2. IsFiniteSet(Counted) /\ IsFiniteSet(Counted')
  BY <1>1, InterviewsAssumption, FS_Subset
<1> QED
  BY <1>2, FS_CardinalityType

\* The two counts of the page are never more than the interviews counted, and
\* are as many when all that is over is recorded.
LEMMA CountsAre ==
  ASSUME QuotaTypes
  PROVE  /\ ScheduledCount \in Nat /\ InterviewedCount \in Nat
         /\ ScheduledCount + InterviewedCount <= Cardinality(Counted)
         /\ ~Unrecorded => ScheduledCount + InterviewedCount = Cardinality(Counted)
<1> DEFINE P == {s \in TimeSlot : timeSlot[s].status = "pending" /\ timeSlot[s].from + Length >= now}
           I == {s \in TimeSlot : timeSlot[s].status = "completed" /\ ~timeSlot[s].invalidated}
<1>1. P \subseteq TimeSlot /\ I \subseteq TimeSlot /\ P \cap I = {} /\ P \cup I \subseteq Counted
  BY DEF Counted
<1>2. ~Unrecorded => P \cup I = Counted
  <2> SUFFICES ASSUME ~Unrecorded, NEW s \in Counted
               PROVE  s \in P \cup I
    BY <1>1
  <2>1. s \in TimeSlot /\ timeSlot[s].from \in Int /\ now \in Nat /\ Length \in Nat
    BY UnitsAssumption DEF Counted, QuotaTypes, TimesInv
  <2>2. CASE timeSlot[s].status = "pending"
    BY <2>1, <2>2 DEF Unrecorded
  <2>3. CASE timeSlot[s].status = "completed" /\ ~timeSlot[s].invalidated
    BY <2>1, <2>3
  <2> QED
    BY <2>2, <2>3 DEF Counted
<1>3. ScheduledCount = Cardinality(P) /\ InterviewedCount = Cardinality(I)
  BY DEF ScheduledCount, InterviewedCount
<1> HIDE DEF P, I
<1>4. IsFiniteSet(P) /\ IsFiniteSet(I)
  BY <1>1, InterviewsAssumption, FS_Subset
<1>5. /\ IsFiniteSet(P \cup I)
      /\ Cardinality(P \cup I) = Cardinality(P) + Cardinality(I) - Cardinality(P \cap I)
  BY <1>4, FS_Union
<1>6. Cardinality(P) \in Nat /\ Cardinality(I) \in Nat /\ Cardinality(P \cap I) = 0
  BY <1>1, <1>4, FS_CardinalityType, FS_EmptySet
<1>7. Cardinality(P \cup I) <= Cardinality(Counted)
  BY <1>1, CountedIsFinite, FS_Subset
<1>8. Cardinality(Counted) \in Nat
  BY CountedIsFinite
<1>9. Cardinality(P \cup I) = ScheduledCount + InterviewedCount /\ ScheduledCount \in Nat /\ InterviewedCount \in Nat
  BY <1>3, <1>5, <1>6
<1>10. ~Unrecorded => Cardinality(P \cup I) = Cardinality(Counted)
  BY <1>2
<1> QED
  BY <1>7, <1>8, <1>9, <1>10

\* Fewer interviews that count are a smaller number.
LEMMA CountedShrinks ==
  ASSUME Counted' \subseteq Counted
  PROVE  /\ Cardinality(Counted') <= Cardinality(Counted)
         /\ Counted' # Counted => Cardinality(Counted') < Cardinality(Counted)
BY CountedIsFinite, FS_Subset

\* Offers are made with a place to spare, or to one who gives one up; who asks
\* for other times shortly before the only interview gets none.
LEMMA AskQuota ==
  ASSUME QuotaInv, NEW r \in Respondent, NEW token \in {"none", "right", "wrong"}, Ask(r, token)
  PROVE  QuotaInv'
<1>1. UNCHANGED <<now, free, timeSlot, crowded>> /\ Counted' = Counted
  BY DEF Ask, Counted
<1>2. Offers \in SUBSET AnyOffer
  <2> SUFFICES ASSUME NEW o \in Offers
               PROVE  o \in AnyOffer
    OBVIOUS
  <2>1. PICK row \in free.rows :
          /\ o.moderator = row.moderator /\ o.from \in Nat /\ o.flag = HasImportedOverlap(row, o.from)
          /\ o = [moderator |-> o.moderator, from |-> o.from, flag |-> o.flag]
    BY OfferFits DEF QuotaInv, QuotaTypes
  <2>2. o.from \in Int /\ o.flag \in BOOLEAN
    BY <2>1 DEF HasImportedOverlap
  <2>3. row.moderator \in UNION {{q.moderator : q \in f.rows} : f \in Offerable}
    BY DEF QuotaInv, QuotaTypes, TimesInv
  <2> QED
    BY <2>1, <2>2, <2>3 DEF AnyOffer
<1>3. \/ Admitted(r, token) /\ shown' = [shown EXCEPT ![r] = [offers |-> Offers, stale |-> Unrecorded]]
      \/ shown' = [shown EXCEPT ![r] = Nothing]
  BY DEF Ask
<1>4. shown' \in [Respondent -> [offers : SUBSET AnyOffer, stale : BOOLEAN]]
  <2> DEFINE Shown == [offers : SUBSET AnyOffer, stale : BOOLEAN]
             new == [offers |-> Offers, stale |-> Unrecorded]
  <2>1. Unrecorded \in BOOLEAN
    BY DEF Unrecorded
  <2>2. new \in Shown
    BY <1>2, <2>1
  <2>3. Nothing \in Shown
    BY DEF Nothing
  <2>4. shown \in [Respondent -> Shown]
    BY DEF QuotaInv, QuotaTypes
  <2>5. shown' = [shown EXCEPT ![r] = new] \/ shown' = [shown EXCEPT ![r] = Nothing]
    BY <1>3
  <2> HIDE DEF Shown, new
  <2>6. shown' \in [Respondent -> Shown]
    BY <2>2, <2>3, <2>4, <2>5
  <2> QED
    BY <2>6 DEF Shown
<1>5. /\ \A q \in Respondent \ {r} : shown'[q] = shown[q]
      /\ shown'[r].offers # {} => Admitted(r, token) /\ shown'[r].stale = Unrecorded
  BY <1>3 DEF Nothing, QuotaInv, QuotaTypes
<1>6. ASSUME Admitted(r, token), ~Unrecorded, ~crowded
      PROVE  HasRoom(r)
  <2>1. CASE token = "none"
    <3>1. ScheduledCount + InterviewedCount = Cardinality(Counted) /\ SampleSize # ScheduledCount + InterviewedCount
      BY <1>6, <2>1, CountsAre DEF Admitted, IsOverquota, QuotaInv
    <3> QED
      BY <1>6, <3>1, CountedIsFinite, UnitsAssumption DEF QuotaInv, RoomKept, HasRoom
  <2>2. CASE token # "none"
    BY <1>6, <2>2 DEF Admitted, HasRoom
  <2> QED
    BY <2>1, <2>2
<1>7. RoomKept'
  BY <1>1, <1>5, <1>6 DEF QuotaInv, RoomKept, HasRoom, PendingSlots, Of
<1>8. ASSUME ~ParseTime, Admitted(r, token), TooNear(r)
      PROVE  \E s \in Of(r) : timeSlot[s].invalidated
  <2>1. PICK s \in Of(r) : timeSlot[s].status = "pending" /\ ~timeSlot[s].invalidated /\ timeSlot[s].from < now + Buffer
    BY <1>8 DEF TooNear
  <2>2. token # "none"
    BY <1>8, <2>1 DEF Admitted, Barred
  <2>3. PICK q \in PendingSlots(r) : ~TokenExpired(q)
    BY <1>8, <2>2 DEF Admitted
  <2>4. q # s
    BY <1>8, <2>1, <2>3 DEF TokenExpired
  <2>5. q \in Of(r) /\ (timeSlot[q].status = "pending" \/ timeSlot[q].invalidated)
    BY <2>3 DEF PendingSlots
  <2> QED
    BY <2>1, <2>4, <2>5 DEF Of, QuotaInv, OnePending
<1>9. late' \in BOOLEAN /\ (~ParseTime => ~late')
  BY <1>5, <1>8 DEF Ask, QuotaInv, QuotaTypes
<1> QED
  BY <1>1, <1>4, <1>7, <1>9 DEF QuotaInv, QuotaTypes, TimesInv, OnePending

\* Booking takes the place there was, or that of the interview that is moved.
LEMMA BookQuota ==
  ASSUME QuotaInv, NEW r \in Respondent, NEW o \in shown[r].offers, NEW s \in TimeSlot,
         Book(r, o, s)
  PROVE  QuotaInv'
<1> DEFINE Row == [by : Respondent \cup {"nobody"}, from : Int, status : Status \cup {"none"}, invalidated : BOOLEAN]
           booked == [by |-> r, from |-> o.from, status |-> "pending", invalidated |-> FALSE]
           Moves(q) == q \in Of(r) /\ timeSlot[q].status = "pending" /\ ~timeSlot[q].invalidated
<1>1. /\ UNCHANGED <<now, free, late>>
      /\ timeSlot' = [q \in TimeSlot |-> IF q = s THEN booked
                                         ELSE IF Moves(q) THEN [timeSlot[q] EXCEPT !.status = "moved"]
                                         ELSE timeSlot[q]]
      /\ crowded' = (crowded \/ shown[r].stale \/ Uncounted(r))
      /\ ~Called(s)
  BY DEF Book
<1>2. \A q \in TimeSlot : timeSlot[q] \in Row
  BY DEF QuotaInv, QuotaTypes
<1>3. timeSlot[s].status = "none"
  BY <1>1, <1>2 DEF Called
<1>4. booked \in Row
  BY DEF QuotaInv, QuotaTypes, AnyOffer, Status
<1>5. \A q \in TimeSlot :
        /\ q = s => timeSlot'[q] = booked
        /\ q # s /\ ~Moves(q) => timeSlot'[q] = timeSlot[q]
        /\ q # s /\ Moves(q) => /\ timeSlot'[q] \in Row
                                /\ timeSlot'[q].status = "moved" /\ timeSlot'[q].by = timeSlot[q].by
                                /\ timeSlot'[q].invalidated = timeSlot[q].invalidated
  <2> SUFFICES ASSUME NEW q \in TimeSlot, q # s, Moves(q)
               PROVE  /\ timeSlot'[q] \in Row
                      /\ timeSlot'[q].status = "moved" /\ timeSlot'[q].by = timeSlot[q].by
                      /\ timeSlot'[q].invalidated = timeSlot[q].invalidated
    BY <1>1
  <2>1. timeSlot'[q] = [timeSlot[q] EXCEPT !.status = "moved"]
    BY <1>1
  <2> QED
    BY <1>2, <2>1 DEF Status
<1>6. timeSlot' \in [TimeSlot -> Row]
  BY <1>1, <1>2, <1>4, <1>5
<1>7. /\ shown' \in [Respondent -> [offers : SUBSET AnyOffer, stale : BOOLEAN]]
      /\ shown'[r].offers = {}
      /\ \A q \in Respondent : shown'[q].offers # {} => shown'[q].stale
  <2> DEFINE Shown == [offers : SUBSET AnyOffer, stale : BOOLEAN]
  <2>1. shown' = [q \in Respondent |->
                    IF q = r THEN Nothing ELSE [shown[q] EXCEPT !.stale = shown[q].offers # {}]]
    BY DEF Book
  <2>2. \A q \in Respondent : shown[q] \in Shown
    BY DEF QuotaInv, QuotaTypes
  <2>3. shown'[r] = Nothing /\ Nothing \in Shown /\ Nothing.offers = {}
    BY <2>1 DEF Nothing
  <2>4. ASSUME NEW q \in Respondent, q # r
        PROVE  shown'[q] \in Shown /\ shown'[q].offers = shown[q].offers /\ shown'[q].stale = (shown[q].offers # {})
    <3>1. shown'[q] = [shown[q] EXCEPT !.stale = shown[q].offers # {}]
      BY <2>1, <2>4
    <3> QED
      BY <2>2, <3>1
  <2>5. \A q \in Respondent : shown'[q] \in Shown /\ (shown'[q].offers # {} => shown'[q].stale)
    BY <2>3, <2>4
  <2>6. shown' \in [Respondent -> Shown]
    BY <2>1, <2>5
  <2> QED
    BY <2>3, <2>5, <2>6
<1> HIDE DEF Row, Moves
<1>8. OnePending'
  <2> SUFFICES ASSUME NEW p \in TimeSlot, NEW q \in TimeSlot,
                      timeSlot'[p].status = "pending", ~timeSlot'[p].invalidated,
                      timeSlot'[q].status = "pending", ~timeSlot'[q].invalidated,
                      timeSlot'[p].by = timeSlot'[q].by
               PROVE  p = q
    BY DEF OnePending
  <2>1. ASSUME NEW x \in TimeSlot, x # s, timeSlot'[x].status = "pending", ~timeSlot'[x].invalidated
        PROVE  timeSlot'[x] = timeSlot[x] /\ timeSlot'[x].by # r
    BY <1>5, <2>1 DEF Moves, Of
  <2>2. timeSlot'[s].by = r
    BY <1>5
  <2> QED
    BY <2>1, <2>2 DEF QuotaInv, OnePending
<1>9. \A q \in TimeSlot : timeSlot'[q].status = "none" => ~timeSlot'[q].invalidated
  BY <1>5 DEF QuotaInv
<1>10. ASSUME ~crowded'
       PROVE  Cardinality(Counted') <= SampleSize
  <2>1. ~crowded /\ ~shown[r].stale /\ ~Uncounted(r) /\ shown[r].offers # {}
    BY <1>1, <1>10
  <2>2. Cardinality(Counted) <= SampleSize /\ HasRoom(r)
    BY <2>1 DEF QuotaInv, RoomKept
  <2>3. s \notin Counted
    BY <1>3 DEF Counted
  <2>4. Counted' \subseteq Counted \cup {s}
    BY <1>5 DEF Counted, Moves
  <2>5. /\ IsFiniteSet(Counted) /\ Cardinality(Counted) \in Nat /\ IsFiniteSet(Counted \cup {s})
        /\ Cardinality(Counted \cup {s}) = Cardinality(Counted) + 1
    BY <2>3, CountedIsFinite, FS_AddElement
  <2>6. CASE Cardinality(Counted) < SampleSize
    <3>1. Cardinality(Counted') <= Cardinality(Counted \cup {s})
      BY <2>4, <2>5, FS_Subset
    <3> QED
      BY <2>5, <2>6, <3>1, CountedIsFinite, UnitsAssumption
  <2>7. CASE PendingSlots(r) # {}
    <3>1. PICK p \in PendingSlots(r) : TRUE
      BY <2>7
    <3>2. p \in TimeSlot /\ Moves(p)
      BY <2>1, <2>7 DEF Uncounted, PendingSlots, Moves, Of
    <3>3. p # s /\ p \in Counted /\ p \notin Counted'
      BY <1>3, <1>5, <3>2 DEF Moves, Counted
    <3>4. Counted' \subseteq (Counted \cup {s}) \ {p}
      BY <2>4, <3>3
    <3>5. /\ IsFiniteSet((Counted \cup {s}) \ {p})
          /\ Cardinality((Counted \cup {s}) \ {p}) = Cardinality(Counted \cup {s}) - 1
      BY <2>5, <3>3, FS_RemoveElement
    <3>6. Cardinality(Counted') <= Cardinality((Counted \cup {s}) \ {p})
      BY <3>4, <3>5, FS_Subset
    <3>7. Cardinality((Counted \cup {s}) \ {p}) = Cardinality(Counted)
      BY <2>5, <3>5
    <3>8. SampleSize \in Nat /\ Cardinality(Counted') \in Nat
      BY CountedIsFinite, UnitsAssumption
    <3> QED
      BY <2>2, <2>5, <3>6, <3>7, <3>8
  <2> QED
    BY <2>2, <2>6, <2>7 DEF HasRoom
<1>11. RoomKept'
  BY <1>7, <1>10 DEF RoomKept
<1> QED
  BY <1>1, <1>6, <1>7, <1>8, <1>9, <1>11 DEF QuotaInv, QuotaTypes, TimesInv, Row, Uncounted

\* What is recorded, cancelled or invalidated takes no place that it had not.
LEMMA FateQuota ==
  ASSUME QuotaInv, NEW s \in TimeSlot, Recorded(s) \/ Cancelled(s) \/ Invalidated(s)
  PROVE  QuotaInv'
<1> DEFINE Row == [by : Respondent \cup {"nobody"}, from : Int, status : Status \cup {"none"}, invalidated : BOOLEAN]
           Shown == [offers : SUBSET AnyOffer, stale : BOOLEAN]
<1>1. timeSlot[s] \in Row /\ timeSlot \in [TimeSlot -> Row] /\ shown \in [Respondent -> Shown]
  BY DEF QuotaInv, QuotaTypes
<1>2. /\ UNCHANGED <<now, free, crowded, late>>
      /\ \/ /\ timeSlot[s].status = "pending"
            /\ \E l \in {"completed", "cancelled"} : timeSlot' = [timeSlot EXCEPT ![s].status = l]
         \/ /\ timeSlot[s].status \in {"pending", "completed"}
            /\ timeSlot' = [timeSlot EXCEPT ![s].invalidated = TRUE]
      /\ \/ UNCHANGED shown
         \/ shown' = [r \in Respondent |-> [shown[r] EXCEPT !.stale = @ \/ timeSlot[s].by = r]]
  BY DEF Recorded, Cancelled, Invalidated
<1>3. /\ timeSlot' \in [TimeSlot -> Row]
      /\ \A q \in TimeSlot \ {s} : timeSlot'[q] = timeSlot[q]
      /\ timeSlot'[s].by = timeSlot[s].by /\ timeSlot'[s].status # "none"
      /\ timeSlot[s].invalidated => timeSlot'[s].invalidated
      /\ timeSlot'[s].status = "pending" => timeSlot[s].status = "pending" /\ timeSlot'[s].invalidated
  <2>1. /\ timeSlot'[s] \in Row /\ timeSlot'[s].by = timeSlot[s].by /\ timeSlot'[s].status # "none"
        /\ timeSlot[s].invalidated => timeSlot'[s].invalidated
        /\ timeSlot'[s].status = "pending" => timeSlot[s].status = "pending" /\ timeSlot'[s].invalidated
    <3>1. CASE \E l \in {"completed", "cancelled"} : timeSlot' = [timeSlot EXCEPT ![s].status = l]
      <4>1. PICK l \in {"completed", "cancelled"} : timeSlot'[s] = [timeSlot[s] EXCEPT !.status = l]
        BY <1>1, <3>1
      <4>2. l \in Status
        BY DEF Status
      <4> QED
        BY <1>1, <4>1, <4>2
    <3>2. CASE /\ timeSlot[s].status \in {"pending", "completed"}
               /\ timeSlot' = [timeSlot EXCEPT ![s].invalidated = TRUE]
      <4>1. timeSlot'[s] = [timeSlot[s] EXCEPT !.invalidated = TRUE]
        BY <1>1, <3>2
      <4> QED
        BY <1>1, <3>2, <4>1
    <3> QED
      BY <1>2, <3>1, <3>2
  <2>2. \E row : timeSlot' = [timeSlot EXCEPT ![s] = row]
    BY <1>2
  <2> HIDE DEF Row
  <2>3. \A q \in TimeSlot \ {s} : timeSlot'[q] = timeSlot[q]
    BY <1>1, <2>2
  <2>4. timeSlot' \in [TimeSlot -> Row]
    BY <1>1, <2>1, <2>2
  <2> QED
    BY <2>1, <2>3, <2>4
<1>4. shown' \in [Respondent -> Shown]
  <2>1. CASE shown' = [r \in Respondent |-> [shown[r] EXCEPT !.stale = @ \/ timeSlot[s].by = r]]
    <3>1. ASSUME NEW r \in Respondent
          PROVE  shown'[r] \in Shown
      <4>1. shown[r] \in Shown /\ shown'[r] = [shown[r] EXCEPT !.stale = @ \/ timeSlot[s].by = r]
        BY <1>1, <2>1
      <4> QED
        BY <4>1
    <3> HIDE DEF Shown
    <3> QED
      BY <2>1, <3>1
  <2> QED
    BY <1>1, <1>2, <2>1
<1>5. \A r \in Respondent : shown'[r].offers = shown[r].offers /\ (shown[r].stale => shown'[r].stale)
  BY <1>1, <1>2
<1>6. Counted' \subseteq Counted
  BY <1>1, <1>2, <1>3 DEF Counted
<1>7. OnePending' /\ \A q \in TimeSlot : timeSlot'[q].status = "none" => ~timeSlot'[q].invalidated
  BY <1>3 DEF QuotaInv, OnePending
<1>8. ASSUME NEW r \in Respondent, HasRoom(r), ~HasRoom(r)', ~crowded, shown'[r].offers # {}
      PROVE  shown'[r].stale
  <2>1. PendingSlots(r) # {} /\ PendingSlots(r)' = {} /\ ~(Cardinality(Counted') < SampleSize)
    BY <1>6, <1>8, CountedShrinks, CountedIsFinite, UnitsAssumption DEF HasRoom
  <2>2. s \in PendingSlots(r)
    BY <1>3, <2>1 DEF PendingSlots, Of
  <2>3. ~timeSlot'[s].invalidated /\ timeSlot'[s].status # "pending"
    BY <1>3, <2>1, <2>2 DEF PendingSlots, Of
  <2>4. timeSlot[s].by = r /\ timeSlot[s].status = "pending" /\ ~timeSlot[s].invalidated
    BY <1>3, <2>2, <2>3 DEF PendingSlots, Of
  <2>5. CASE Recorded(s)
    BY <1>1, <2>4, <2>5 DEF Recorded
  <2>6. CASE Cancelled(s)
    <3>1. timeSlot'[s].status = "cancelled"
      BY <1>1, <2>6 DEF Cancelled
    <3>2. Counted' # Counted
      BY <2>4, <3>1 DEF Counted
    <3>3. Cardinality(Counted) <= SampleSize
      BY <1>8 DEF QuotaInv, RoomKept
    <3>4. Cardinality(Counted') < Cardinality(Counted)
      BY <1>6, <3>2, CountedShrinks
    <3> QED
      BY <2>1, <3>3, <3>4, CountedIsFinite, UnitsAssumption
  <2>7. CASE Invalidated(s)
    BY <1>1, <2>3, <2>7 DEF Invalidated
  <2> QED
    BY <2>5, <2>6, <2>7
<1>9. RoomKept'
  <2> SUFFICES ASSUME ~crowded
               PROVE  /\ Cardinality(Counted') <= SampleSize
                      /\ \A r \in Respondent : shown'[r].offers # {} /\ ~shown'[r].stale => HasRoom(r)'
    BY <1>2 DEF RoomKept
  <2>1. Cardinality(Counted') <= SampleSize
    BY <1>6, CountedShrinks, CountedIsFinite, UnitsAssumption DEF QuotaInv, RoomKept
  <2>2. ASSUME NEW r \in Respondent, shown'[r].offers # {}, ~shown'[r].stale
        PROVE  HasRoom(r)'
    <3>1. HasRoom(r)
      BY <1>4, <1>5, <2>2 DEF QuotaInv, RoomKept
    <3> QED
      BY <1>8, <2>2, <3>1
  <2> QED
    BY <2>1, <2>2
<1> QED
  BY <1>2, <1>3, <1>4, <1>7, <1>9 DEF QuotaInv, QuotaTypes, TimesInv

\* However respondents ask, book, change and miss interviews, and however late
\* they are recorded, cancelled or invalidated, no more are held or to be held
\* than the sample, but for the causes that QuotaKept names; and nobody is
\* offered other times shortly before the interview unless another was
\* invalidated (GetModeratorsAvailabilityMRA, GetProjectDetailsMRA).
THEOREM QuotaIsKept ==
    OffersSpec => [](QuotaKept /\ LateChangesHaveCause)
<1>1. OffersInit => QuotaInv
  <2> SUFFICES ASSUME OffersInit
               PROVE  QuotaInv
    OBVIOUS
  <2>1. QuotaTypes
    <3>1. NoSlot \in [by : Respondent \cup {"nobody"}, from : Int, status : Status \cup {"none"}, invalidated : BOOLEAN]
      BY DEF NoSlot
    <3>2. Nothing \in [offers : SUBSET AnyOffer, stale : BOOLEAN]
      BY DEF Nothing
    <3> QED
      BY <3>1, <3>2 DEF OffersInit, QuotaTypes, TimesInv
  <2>2. Counted = {}
    BY DEF OffersInit, Counted, NoSlot
  <2>3. RoomKept
    <3>1. Cardinality(Counted) = 0 /\ SampleSize \in Nat
      BY <2>2, FS_EmptySet, UnitsAssumption
    <3>2. \A r \in Respondent : shown[r].offers = {}
      BY DEF OffersInit, Nothing
    <3> QED
      BY <3>1, <3>2 DEF RoomKept
  <2> QED
    BY <2>1, <2>3 DEF QuotaInv, OffersInit, NoSlot, OnePending
<1>2. QuotaInv /\ [OffersNext]_offersVars => QuotaInv'
  <2> SUFFICES ASSUME QuotaInv, [OffersNext]_offersVars
               PROVE  QuotaInv'
    OBVIOUS
  <2>1. CASE TimePasses \/ UNCHANGED offersVars
    <3>1. UNCHANGED <<free, timeSlot, shown, crowded, late>> /\ now' \in Nat
      BY <2>1 DEF TimePasses, offersVars, QuotaInv, QuotaTypes, TimesInv
    <3>2. Counted' = Counted /\ \A r \in Respondent : PendingSlots(r)' = PendingSlots(r)
      BY <3>1 DEF Counted, PendingSlots, Of
    <3>3. QuotaTypes' /\ OnePending'
      BY <3>1 DEF QuotaInv, QuotaTypes, TimesInv, OnePending
    <3>4. RoomKept'
      BY <3>1, <3>2 DEF QuotaInv, RoomKept, HasRoom
    <3> QED
      BY <3>1, <3>3, <3>4 DEF QuotaInv
  <2> QED
    BY <2>1, AskQuota, BookQuota, FateQuota DEF OffersNext
<1>3. QuotaInv => QuotaKept /\ LateChangesHaveCause
  <2> SUFFICES ASSUME QuotaInv
               PROVE  QuotaKept /\ LateChangesHaveCause
    OBVIOUS
  <2>1. /\ ScheduledCount \in Nat /\ InterviewedCount \in Nat
        /\ ScheduledCount + InterviewedCount <= Cardinality(Counted)
    BY CountsAre DEF QuotaInv
  <2>2. Cardinality(Counted) \in Nat /\ SampleSize \in Nat
    BY CountedIsFinite, UnitsAssumption
  <2> QED
    BY <2>1, <2>2 DEF QuotaKept, LateChangesHaveCause, QuotaInv, RoomKept
<1> QED
  BY <1>1, <1>2, <1>3, PTL DEF OffersSpec

\* Offers hold up, whatever rows, calendars and hours there are, whatever the
\* step, the length and the buffer, and however many respondents ask and book:
\* GetModeratorsAvailabilityMRA, GetUnavailableModeratorsMRA,
\* GetModeratorsCountMRA and GetProjectDetailsMRA.
THEOREM OffersHold == OffersSpec => []OffersHoldUp
<1>1. TimesInv => OffersKeepHoursByDay /\ PagesAgree /\ CountBoundsOffers
  <2>1. TimesInv => OffersKeepHoursByDay
    BY HoursKept DEF OffersKeepHoursByDay
  <2> QED
    BY <2>1, PagesAreOfOffers, CountBounds
<1> QED
  BY <1>1, TimesHold, FlagsAreRight, QuotaIsKept, PTL DEF OffersHoldUp

-----------------------------------------------------------------------------
(* Lists that come by pages: PagedLists *)

\* Types of what is read by pages.
PageTypes ==
  /\ kind \in Lists
  /\ table \in [Item -> [source : {"iris", "qs"}, key : 0 .. Latest, there : BOOLEAN, rows : {1, 2}, shown : BOOLEAN]]
  /\ \A i \in Item : table[i].source \in Sources[kind]
  /\ reader \in [size : Nat, page : Nat \ {0}, told : Nat, seen : [Item -> 0 .. 2],
                 at : {"idle", "count", "page", "done"}]
  /\ past \in [at : SUBSET Item, added : BOOLEAN, removed : BOOLEAN, overtaken : BOOLEAN, tied : BOOLEAN,
               failed : BOOLEAN, changes : Nat]
  /\ reader.at # "idle" => reader.size > 0

\* Where an item's first row is.
Place(i) == Before(table[i].source, table[i].key)

Skips == \/ past.removed \/ past.tied \/ past.overtaken \/ past.failed \/ Wide \/ Cut
         \/ kind \in Anywhere /\ past.at # {}
Repeats == \/ past.added \/ past.tied \/ Wide
           \/ kind = "questionTypes" /\ past.removed
           \/ kind \in Newest \cup Anywhere /\ past.at # {}

\* An item that nobody touched is where it began: behind those that came or were
\* moved, and of the question types alone with its key.
Placed ==
  \A i \in Item \ past.at :
    /\ table[i].key \in 1 .. Latest - 1
    /\ kind = "questionTypes" => \A j \in Item : j # i => table[j].key # table[i].key

\* A reader under way: what it has not been shown is ahead of it, what it has
\* been shown is behind it, unless there is a cause.
AheadUnseen ==
  ~Skips => \A i \in Still : reader.seen[i] = 0 => Place(i) >= Offset(reader.page, reader.size)
BehindOnce ==
  ~Repeats => \A i \in Still :
    reader.seen[i] <= 1 /\ (reader.seen[i] = 1 => Place(i) < Offset(reader.page, reader.size))

UnderWay ==
  reader.at \in {"count", "page"} =>
    /\ AheadUnseen /\ BehindOnce
    /\ kind = "questionTypes" /\ ~past.removed /\ reader.page > 1 =>
         Offset(reader.page, reader.size) < Cardinality(RowsOf("qs"))

PageInv ==
  /\ PageTypes /\ Placed /\ UnderWay /\ PagesHaveCause
  /\ (reader.at = "idle" => reader.seen = [i \in Item |-> 0] /\ reader.page = 1)
  /\ reader.at = "page" /\ ~past.removed /\ ~past.overtaken => reader.told = Count
  /\ (past.at = {} => ~past.removed)

-----------------------------------------------------------------------------
(* Rows and their places *)

\* The rows of a list are finitely many.
LEMMA RowsAreFinite ==
  ASSUME PageTypes, NEW s
  PROVE  /\ IsFiniteSet(RowsOf(s)) /\ Cardinality(RowsOf(s)) \in Nat
         /\ \A T \in SUBSET RowsOf(s) : IsFiniteSet(T) /\ Cardinality(T) \in Nat /\ Cardinality(T) <= Cardinality(RowsOf(s))
<1>1. IsFiniteSet(Item \X {1, 2})
  <2>1. IsFiniteSet({} \cup {1} \cup {2})
    BY FS_EmptySet, FS_AddElement
  <2> QED
    BY <2>1, PagesAssumption, FS_Product
<1>2. RowsOf(s) \in SUBSET (Item \X {1, 2})
  BY DEF RowsOf, There
<1>3. IsFiniteSet(RowsOf(s))
  BY <1>1, <1>2, FS_Subset
<1> QED
  BY <1>3, FS_Subset, FS_CardinalityType

\* The rows before a key, those with it: types, and that they follow each other.
LEMMA PlaceTypes ==
  ASSUME PageTypes, NEW s, NEW k \in Int
  PROVE  /\ Before(s, k) \in Nat /\ Before(s, k) <= Cardinality(RowsOf(s))
         /\ With(s, k) \in SUBSET RowsOf(s) /\ Cardinality(With(s, k)) \in Nat
         /\ Before(s, k) + Cardinality(With(s, k)) <= Cardinality(RowsOf(s))
         /\ Before(s, k - 1) = Before(s, k) + Cardinality(With(s, k))
<1> DEFINE U(n) == {r \in RowsOf(s) : table[r[1]].key > n}
<1>0. \A r \in RowsOf(s) : table[r[1]].key \in Int
  BY DEF RowsOf, There, PageTypes
<1>1. U(k) \in SUBSET RowsOf(s) /\ With(s, k) \in SUBSET RowsOf(s) /\ U(k - 1) \in SUBSET RowsOf(s)
  BY DEF With
<1>2. U(k - 1) = U(k) \cup With(s, k) /\ U(k) \cap With(s, k) = {}
  BY <1>0 DEF With
<1>3. /\ Before(s, k) = Cardinality(U(k)) /\ Before(s, k - 1) = Cardinality(U(k - 1))
  BY DEF Before
<1> HIDE DEF U
<1>4. IsFiniteSet(U(k)) /\ IsFiniteSet(With(s, k)) /\ \A T \in SUBSET RowsOf(s) : Cardinality(T) \in Nat /\ Cardinality(T) <= Cardinality(RowsOf(s))
  BY <1>1, RowsAreFinite
<1>5. Cardinality(U(k - 1)) = Cardinality(U(k)) + Cardinality(With(s, k)) - Cardinality({})
  BY <1>2, <1>4, FS_Union
<1>6. Cardinality({}) = 0
  BY FS_EmptySet
<1> QED
  BY <1>1, <1>3, <1>4, <1>5, <1>6, RowsAreFinite

\* How many of the rows of one time fall into a page: none if it lies before or behind, all if they lie within.
LEMMA WindowTypes ==
  ASSUME PageTypes, NEW s, NEW k \in Int, NEW off \in Nat, NEW size \in Nat \ {0}
  PROVE  /\ InWindow(s, k, off, size) \in Nat
         /\ InWindow(s, k, off, size) <= Cardinality(With(s, k))
         /\ Cardinality(With(s, k)) > 0 =>
              /\ InWindow(s, k, off, size) = 0 => Before(s, k) + Cardinality(With(s, k)) <= off \/ Before(s, k) >= off + size
              /\ InWindow(s, k, off, size) = Cardinality(With(s, k)) =>
                   Before(s, k) >= off /\ Before(s, k) + Cardinality(With(s, k)) <= off + size
<1>1. PICK b \in Nat : b = Before(s, k)
  BY PlaceTypes
<1>2. PICK w \in Nat : w = Cardinality(With(s, k))
  BY PlaceTypes
<1> QED
  BY <1>1, <1>2 DEF InWindow

\* A page that no key is cut by: a row in it is within its limits, one that is
\* not is before or behind.
LEMMA PageHolds ==
  ASSUME PageTypes, NEW s, NEW off \in Nat, NEW size \in Nat \ {0}, NEW P \in Pages(s, off, size),
         NEW r \in RowsOf(s), NEW k \in 0 .. Latest, k = table[r[1]].key,
         InWindow(s, k, off, size) \in {0, Cardinality(With(s, k))}
  PROVE  /\ r \in P => off <= Before(s, k) /\ Before(s, k) < off + size
         /\ r \notin P => Before(s, k) < off \/ Before(s, k) >= off + size
<1>1. r \in With(s, k)
  BY DEF With
<1>2. P \in SUBSET RowsOf(s) /\ Cardinality(P \cap With(s, k)) = InWindow(s, k, off, size)
  BY DEF Pages
<1>3. IsFiniteSet(With(s, k)) /\ P \cap With(s, k) \in SUBSET With(s, k) /\ IsFiniteSet(P \cap With(s, k))
  BY RowsAreFinite, PlaceTypes, FS_Subset
<1>4. Cardinality(With(s, k)) \in Nat /\ Cardinality(With(s, k)) # 0
  BY <1>1, <1>3, FS_EmptySet, FS_CardinalityType
<1>5. k \in Int /\ Before(s, k) \in Nat
  BY PlaceTypes, PagesAssumption
<1>6. CASE InWindow(s, k, off, size) = 0
  <2>1. P \cap With(s, k) = {}
    BY <1>2, <1>3, <1>6, FS_EmptySet
  <2>2. r \notin P
    BY <1>1, <2>1
  <2>3. Before(s, k) + Cardinality(With(s, k)) <= off \/ Before(s, k) >= off + size
    BY <1>4, <1>5, <1>6, WindowTypes
  <2> QED
    BY <1>4, <1>5, <2>2, <2>3
<1>7. CASE InWindow(s, k, off, size) = Cardinality(With(s, k))
  <2>1. P \cap With(s, k) = With(s, k)
    BY <1>2, <1>3, <1>7, FS_Subset
  <2>2. r \in P
    BY <1>1, <2>1
  <2>3. Before(s, k) >= off /\ Before(s, k) + Cardinality(With(s, k)) <= off + size
    BY <1>4, <1>5, <1>7, WindowTypes
  <2> QED
    BY <1>4, <1>5, <2>2, <2>3
<1> QED
  BY <1>6, <1>7

\* The place of a row there is comes before the number of rows.
LEMMA PlaceBeforeEnd ==
  ASSUME PageTypes, NEW i \in Item, table[i].there
  PROVE  /\ <<i, 1>> \in RowsOf(table[i].source)
         /\ table[i].key \in 0 .. Latest /\ Place(i) \in Nat
         /\ Place(i) < Cardinality(RowsOf(table[i].source))
<1>1. <<i, 1>> \in RowsOf(table[i].source)
  BY DEF RowsOf, There, PageTypes
<1>2. table[i].key \in 0 .. Latest /\ table[i].key \in Int
  BY PagesAssumption DEF PageTypes
<1>3. PICK s, k : s = table[i].source /\ k = table[i].key
  OBVIOUS
<1>4. <<i, 1>> \in With(s, k)
  BY <1>1, <1>3 DEF With
<1>5. With(s, k) \in SUBSET RowsOf(s) /\ Cardinality(With(s, k)) \in Nat /\ Before(s, k) \in Nat
      /\ Before(s, k) + Cardinality(With(s, k)) <= Cardinality(RowsOf(s))
  BY <1>2, <1>3, PlaceTypes
<1>6. Cardinality(With(s, k)) # 0
  BY <1>4, <1>5, RowsAreFinite, FS_EmptySet
<1>7. Cardinality(RowsOf(s)) \in Nat
  BY RowsAreFinite
<1> QED
  BY <1>1, <1>2, <1>3, <1>5, <1>6, <1>7 DEF Place

\* Only a page from the end on is empty.
LEMMA EmptyIsLast ==
  ASSUME PageTypes, NEW s, NEW off \in Nat, NEW size \in Nat \ {0}, NEW P \in Pages(s, off, size), P = {}
  PROVE  Cardinality(RowsOf(s)) <= off
<1>0. Latest \in Nat /\ Cardinality(RowsOf(s)) \in Nat /\ IsFiniteSet(RowsOf(s))
  BY PagesAssumption, RowsAreFinite
<1> SUFFICES ASSUME Cardinality(RowsOf(s)) > off PROVE FALSE
  BY <1>0
<1> DEFINE Reached == {k \in 0 .. Latest : Before(s, k) <= off}
<1>1. Latest \in Reached
  <2>1. {r \in RowsOf(s) : table[r[1]].key > Latest} = {}
    BY <1>0 DEF RowsOf, There, PageTypes
  <2>2. Before(s, Latest) = 0
    BY <2>1, FS_EmptySet DEF Before
  <2> QED
    BY <1>0, <2>2
<1>2. PICK k \in Reached : \A y \in Reached : k <= y
  <2>1. Reached \in SUBSET Nat /\ Reached # {}
    BY <1>0, <1>1
  <2> HIDE DEF Reached
  <2> QED
    BY <2>1, LeastKey
<1>3. k \in 0 .. Latest /\ k \in Int /\ Before(s, k) <= off
  BY <1>0
<1>4. Before(s, k) \in Nat /\ Cardinality(With(s, k)) \in Nat
      /\ Before(s, k - 1) = Before(s, k) + Cardinality(With(s, k))
  BY <1>3, PlaceTypes
<1>5. Before(s, k - 1) > off
  <2>1. CASE k = 0
    <3>1. \A r \in RowsOf(s) : table[r[1]].key > -1
      BY <1>0 DEF RowsOf, There, PageTypes
    <3>2. {r \in RowsOf(s) : table[r[1]].key > k - 1} = RowsOf(s)
      BY <2>1, <3>1
    <3> QED
      BY <3>2 DEF Before
  <2>2. CASE k # 0
    <3>1. k - 1 \in 0 .. Latest /\ k - 1 \in Int /\ ~(k <= k - 1)
      BY <1>0, <1>3, <2>2
    <3>2. ~(Before(s, k - 1) <= off)
      BY <1>2, <3>1
    <3> QED
      BY <3>1, <3>2, PlaceTypes
  <2> QED
    BY <2>1, <2>2
<1>6. InWindow(s, k, off, size) # 0
  <2>1. PICK b \in Nat, w \in Nat : b = Before(s, k) /\ w = Cardinality(With(s, k))
    BY <1>4
  <2>2. b <= off /\ b + w > off
    BY <1>3, <1>4, <1>5, <2>1
  <2> QED
    BY <2>1, <2>2 DEF InWindow
<1>7. Cardinality(P \cap With(s, k)) = InWindow(s, k, off, size)
  BY <1>3 DEF Pages
<1>8. P \cap With(s, k) = {}
  OBVIOUS
<1> QED
  BY <1>6, <1>7, <1>8, FS_EmptySet

\* A finite set has subsets of every size up to its own.
LEMMA SubsetOfSize ==
  ASSUME NEW S, IsFiniteSet(S), NEW n \in Nat, n <= Cardinality(S)
  PROVE  \E T \in SUBSET S : Cardinality(T) = n
<1>1. Cardinality(S) \in Nat /\ ExistsBijection(1 .. Cardinality(S), S)
  BY FS_CardinalityType
<1>2. PICK f \in Bijection(1 .. Cardinality(S), S) : TRUE
  BY <1>1 DEF ExistsBijection
<1>3. 1 .. n \subseteq 1 .. Cardinality(S)
  BY <1>1
<1> DEFINE T == {f[x] : x \in 1 .. n}
           g == [x \in 1 .. n |-> f[x]]
<1>4. f \in [1 .. Cardinality(S) -> S] /\ \A a, b \in 1 .. Cardinality(S) : f[a] = f[b] => a = b
  BY <1>2 DEF Bijection, Injection, IsInjective
<1>5. T \in SUBSET S
  BY <1>3, <1>4
<1>6. g \in Bijection(1 .. n, T)
  <2>1. g \in [1 .. n -> T]
    OBVIOUS
  <2>2. \A a, b \in 1 .. n : g[a] = g[b] => a = b
    BY <1>3, <1>4
  <2>3. \A t \in T : \E a \in 1 .. n : g[a] = t
    OBVIOUS
  <2> QED
    BY <2>1, <2>2, <2>3 DEF Bijection, Injection, IsInjective, Surjection
<1>7. ExistsBijection(1 .. n, T)
  BY <1>6 DEF ExistsBijection
<1>8. IsFiniteSet(1 .. n) /\ Cardinality(1 .. n) = n
  BY FS_Interval
<1> HIDE DEF T, g
<1>9. Cardinality(T) = n
  BY <1>7, <1>8, FS_Bijection
<1> QED
  BY <1>5, <1>9

\* There is a page for every offset and size.
LEMMA PagesExist ==
  ASSUME PageTypes, NEW s, NEW off \in Nat, NEW size \in Nat \ {0}
  PROVE  Pages(s, off, size) # {}
<1> DEFINE G(k) == CHOOSE T \in SUBSET With(s, k) : Cardinality(T) = InWindow(s, k, off, size)
           P == UNION {G(k) : k \in 0 .. Latest}
<1>0. \A k \in 0 .. Latest : k \in Int
  BY PagesAssumption
<1>1. \A k \in 0 .. Latest : G(k) \in SUBSET With(s, k) /\ Cardinality(G(k)) = InWindow(s, k, off, size)
  <2>1. TAKE k \in 0 .. Latest
  <2>2. k \in Int /\ With(s, k) \in SUBSET RowsOf(s)
    BY <1>0, PlaceTypes
  <2>3. IsFiniteSet(With(s, k))
    BY <2>2, RowsAreFinite
  <2>4. InWindow(s, k, off, size) \in Nat /\ InWindow(s, k, off, size) <= Cardinality(With(s, k))
    BY <2>2, WindowTypes
  <2>5. \E T \in SUBSET With(s, k) : Cardinality(T) = InWindow(s, k, off, size)
    BY <2>3, <2>4, SubsetOfSize
  <2> QED
    BY <2>5
<1>2. \A j, k \in 0 .. Latest : j # k => With(s, j) \cap With(s, k) = {}
  BY DEF With
<1>3. \A k \in 0 .. Latest : With(s, k) \in SUBSET RowsOf(s)
  BY DEF With
<1> HIDE DEF G
<1>4. \A k \in 0 .. Latest : P \cap With(s, k) = G(k)
  BY <1>1, <1>2
<1>5. P \in SUBSET RowsOf(s)
  BY <1>1, <1>3
<1>6. P \in Pages(s, off, size)
  BY <1>1, <1>4, <1>5 DEF Pages
<1> QED
  BY <1>6

\* A list of one database, no row of which is joined to several, has a row for
\* every item that is counted.
LEMMA RowsAreCounted ==
  ASSUME PageTypes, ~Wide, Sources[kind] = {"qs"}
  PROVE  Cardinality(RowsOf("qs")) = Count
<1> DEFINE f == [i \in There(kind) |-> <<i, 1>>]
<1>1. \A i \in There(kind) : i \in Item /\ table[i].source = "qs" /\ table[i].rows = 1
  BY DEF PageTypes, There, Wide
<1>2. f \in [There(kind) -> RowsOf("qs")]
  BY <1>1 DEF RowsOf
<1>3. \A r \in RowsOf("qs") : r[1] \in There(kind) /\ r[2] = 1 /\ r = <<r[1], r[2]>>
  BY <1>1 DEF RowsOf
<1>4. \A r \in RowsOf("qs") : \E i \in There(kind) : f[i] = r
  BY <1>3
<1>5. \A i, j \in There(kind) : f[i] = f[j] => i = j
  OBVIOUS
<1>6. f \in Bijection(There(kind), RowsOf("qs"))
  BY <1>2, <1>4, <1>5 DEF Bijection, Injection, IsInjective, Surjection
<1>7. ExistsBijection(There(kind), RowsOf("qs"))
  BY <1>6 DEF ExistsBijection
<1>8. IsFiniteSet(There(kind))
  BY PagesAssumption, FS_Subset DEF There
<1> QED
  BY <1>7, <1>8, FS_Bijection DEF Count

-----------------------------------------------------------------------------
(* Reading a page *)

\* A page holds at least one row, whatever is asked for.
LEMMA SizeOfPage ==
  ASSUME NEW k \in Lists, NEW asked \in {0, Default, Cap + 1}
  PROVE  PageSize(k, asked) \in Nat \ {0}
  BY PagesAssumption DEF PageSize, Lists

\* Where a page begins.
LEMMA OffsetTypes ==
  ASSUME NEW page \in Nat \ {0}, NEW size \in Nat \ {0}
  PROVE  /\ Offset(page, size) \in Nat /\ Offset(page, size) + size = page * size
         /\ Offset(page + 1, size) = page * size /\ page * size >= size
         /\ Offset(1, size) = 0
         /\ page > 1 \/ Offset(page, size) = 0
<1>1. page - 1 \in Nat
  OBVIOUS
<1>2. (page - 1) * size \in Nat
  BY <1>1
<1>3. (page - 1) * size + size = page * size
  OBVIOUS
<1>4. ((page + 1) - 1) * size = page * size
  BY (page + 1) - 1 = page
<1>5. (1 - 1) * size = 0
  OBVIOUS
<1> QED
  BY <1>2, <1>3, <1>4, <1>5 DEF Offset

\* What the client has seen of an item there all the time, whose row no join
\* multiplies, after a page.
LEMMA SeenAfter ==
  ASSUME PageTypes, NEW i \in Item, table[i].shown, table[i].rows = 1,
         NEW P, \A r \in P : \E s : r \in RowsOf(s)
  PROVE  Seen(P)[i] = Twice(reader.seen[i] + IF <<i, 1>> \in P THEN 1 ELSE 0)
<1>1. {r \in P : r[1] = i} = IF <<i, 1>> \in P THEN {<<i, 1>>} ELSE {}
  BY DEF RowsOf, There
<1>2. Cardinality({r \in P : r[1] = i}) = IF <<i, 1>> \in P THEN 1 ELSE 0
  BY <1>1, FS_EmptySet, FS_Singleton
<1> QED
  BY <1>2 DEF Seen

\* What the client has seen keeps its type when a page comes.
LEMMA SeenTypes ==
  ASSUME PageTypes, NEW P, NEW s, P \in SUBSET (RowsOf(s) \cup RowsOf("qs"))
  PROVE  Seen(P) \in [Item -> 0 .. 2]
<1>1. ASSUME NEW i \in Item PROVE Twice(reader.seen[i] + Cardinality({r \in P : r[1] = i})) \in 0 .. 2
  <2>1. IsFiniteSet(RowsOf(s) \cup RowsOf("qs"))
    BY RowsAreFinite, FS_Union
  <2>2. {r \in P : r[1] = i} \in SUBSET (RowsOf(s) \cup RowsOf("qs"))
    OBVIOUS
  <2>3. Cardinality({r \in P : r[1] = i}) \in Nat
    BY <2>1, <2>2, FS_Subset, FS_CardinalityType
  <2>4. reader.seen[i] \in 0 .. 2
    BY DEF PageTypes
  <2> QED
    BY <2>3, <2>4 DEF Twice
<1> QED
  BY <1>1 DEF Seen

\* A page P has what it must of the items that stay: those not in it are before
\* or behind it, those in it are within its limits, and the last one ends the list.
HasUnseen(P, off, size) ==
  \A i \in Still : <<i, 1>> \in P \/ Place(i) < off \/ Place(i) >= off + size
HasWithin(P, off, size) ==
  \A i \in Still : <<i, 1>> \in P => off <= Place(i) /\ Place(i) < off + size

\* The step of the client from one page to the next or to the end.
LEMMA TurnKeeps ==
  ASSUME PageInv, reader.at = "page", NEW P, NEW s, P \in SUBSET (RowsOf(s) \cup RowsOf("qs")),
         NEW told \in Nat, Turn(P, told), UNCHANGED <<kind, table>>,
         past' \in [at : {past.at}, added : {past.added}, removed : {past.removed}, overtaken : {past.overtaken},
                    tied : BOOLEAN, failed : BOOLEAN, changes : {past.changes}],
         past.tied => past'.tied, past.failed => past'.failed,
         ~Skips' => HasUnseen(P, Offset(reader.page, reader.size), reader.size),
         ~Repeats' => HasWithin(P, Offset(reader.page, reader.size), reader.size),
         ~Skips' /\ (IF kind = "admins" THEN P = {} ELSE reader.page * reader.size >= told) =>
           \A i \in Still : <<i, 1>> \in P \/ Place(i) < reader.page * reader.size,
         kind = "questionTypes" => told = Cardinality(RowsOf("qs"))
  PROVE  PageInv'
<1>1. PICK off, size, page : off = Offset(reader.page, reader.size) /\ size = reader.size /\ page = reader.page
  OBVIOUS
<1>2. /\ size \in Nat \ {0} /\ page \in Nat \ {0} /\ off \in Nat /\ off + size = page * size
      /\ Offset(page + 1, size) = page * size
  <2>1. size \in Nat \ {0} /\ page \in Nat \ {0}
    BY <1>1 DEF PageInv, PageTypes
  <2>2. off = Offset(page, size)
    BY <1>1
  <2>3. off \in Nat
    BY <2>1, <2>2, OffsetTypes
  <2>4. off + size = page * size
    BY <2>1, <2>2, OffsetTypes
  <2>5. Offset(page + 1, size) = page * size
    BY <2>1, OffsetTypes
  <2> QED
    BY <2>1, <2>3, <2>4, <2>5
<1>3. PICK over \in BOOLEAN : over <=> IF kind = "admins" THEN P = {} ELSE page * size >= told
  <2>1. CASE IF kind = "admins" THEN P = {} ELSE page * size >= told
    BY <2>1
  <2>2. CASE ~(IF kind = "admins" THEN P = {} ELSE page * size >= told)
    BY <2>2
  <2> QED
    BY <2>1, <2>2
<1>4. reader' = [reader EXCEPT !.told = told, !.seen = Seen(P), !.page = IF over THEN @ ELSE @ + 1,
                               !.at = IF over THEN "done" ELSE "count"]
  BY <1>1, <1>3 DEF Turn
<1>5. /\ reader'.size = size /\ reader'.told = told /\ reader'.seen = Seen(P)
      /\ reader'.page = (IF over THEN page ELSE page + 1) /\ reader'.at = (IF over THEN "done" ELSE "count")
  BY <1>1, <1>4 DEF PageInv, PageTypes
<1>6. PageTypes'
  <2>1. Seen(P) \in [Item -> 0 .. 2]
    BY SeenTypes DEF PageInv
  <2>2. reader' \in [size : Nat, page : Nat \ {0}, told : Nat, seen : [Item -> 0 .. 2],
                 at : {"idle", "count", "page", "done"}]
    <3>1. (IF over THEN reader.page ELSE reader.page + 1) \in Nat \ {0}
      BY <1>1, <1>2
    <3>2. (IF over THEN "done" ELSE "count") \in {"idle", "count", "page", "done"}
      OBVIOUS
    <3> QED
      BY <1>4, <2>1, <3>1, <3>2 DEF PageInv, PageTypes
  <2>3. past' \in [at : SUBSET Item, added : BOOLEAN, removed : BOOLEAN, overtaken : BOOLEAN, tied : BOOLEAN,
               failed : BOOLEAN, changes : Nat]
    BY DEF PageInv, PageTypes
  <2> QED
    BY <1>2, <1>5, <2>2, <2>3 DEF PageInv, PageTypes
<1>7. /\ past'.at = past.at /\ past'.added = past.added /\ past'.removed = past.removed
      /\ past'.overtaken = past.overtaken
  OBVIOUS
<1>8. Placed'
  BY <1>7 DEF PageInv, Placed
<1>9. Still' = Still
  BY <1>7 DEF Still
<1>10. Wide' = Wide
  BY DEF Wide
<1>11. \A i : Place(i)' = Place(i)
  BY DEF Place, Before, RowsOf, There
<1>12. RowsOf("qs")' = RowsOf("qs")
  BY DEF RowsOf, There
<1>13. Cut' = Cut
  BY <1>1, <1>5 DEF Cut, RowsOf, There
<1>14. ~Skips' => ~Skips
  BY <1>7, <1>10, <1>13 DEF Skips
<1>15. ~Repeats' => ~Repeats
  BY <1>7, <1>10 DEF Repeats
<1>16. \A i \in Still : /\ i \in Item /\ table[i].there /\ table[i].shown /\ Place(i) \in Nat /\ reader.seen[i] \in 0 .. 2
  <2>1. TAKE i \in Still
  <2>2. i \in Item /\ table[i].there /\ table[i].shown
    BY DEF Still
  <2>3. Place(i) \in Nat
    BY <2>2, PlaceBeforeEnd DEF PageInv
  <2> QED
    BY <2>2, <2>3 DEF PageInv, PageTypes
<1>17. ASSUME ~Wide
       PROVE  \A i \in Still : Seen(P)[i] = Twice(reader.seen[i] + IF <<i, 1>> \in P THEN 1 ELSE 0)
  <2>1. TAKE i \in Still
  <2>2. table[i].rows = 1
    BY <1>16, <1>17 DEF Wide, PageInv, PageTypes
  <2>3. \A r \in P : \E t : r \in RowsOf(t)
    OBVIOUS
  <2> QED
    BY <1>16, <2>2, <2>3, SeenAfter DEF PageInv
<1>18. ASSUME ~Skips'
       PROVE  \A i \in Still : reader'.seen[i] = 0 => Place(i) >= page * size /\ ~over
  <2>1. TAKE i \in Still
  <2>2. HAVE reader'.seen[i] = 0
  <2>3. ~Wide /\ ~Skips
    BY <1>10, <1>14, <1>18 DEF Skips
  <2>4. Twice(reader.seen[i] + IF <<i, 1>> \in P THEN 1 ELSE 0) = 0
    BY <1>5, <1>17, <2>2, <2>3
  <2>5. reader.seen[i] = 0 /\ <<i, 1>> \notin P
    BY <1>16, <2>4 DEF Twice
  <2>6. Place(i) >= off
    BY <1>1, <2>3, <2>5 DEF PageInv, UnderWay, AheadUnseen
  <2>7. Place(i) >= off + size
    BY <1>1, <1>2, <1>16, <1>18, <2>5, <2>6 DEF HasUnseen
  <2>8. over => Place(i) < page * size
    BY <1>1, <1>3, <1>18, <2>5
  <2> QED
    BY <1>2, <1>16, <2>7, <2>8
<1>19. ASSUME ~Repeats'
       PROVE  \A i \in Still : reader'.seen[i] <= 1 /\ (reader'.seen[i] = 1 => Place(i) < page * size)
  <2>1. TAKE i \in Still
  <2>2. ~Wide /\ ~Repeats
    BY <1>10, <1>15, <1>19 DEF Repeats
  <2>3. reader'.seen[i] = Twice(reader.seen[i] + IF <<i, 1>> \in P THEN 1 ELSE 0)
    BY <1>5, <1>17, <2>2
  <2>4. reader.seen[i] <= 1 /\ (reader.seen[i] = 1 => Place(i) < off)
    BY <1>1, <2>2 DEF PageInv, UnderWay, BehindOnce
  <2>5. <<i, 1>> \in P => off <= Place(i) /\ Place(i) < off + size
    BY <1>1, <1>19 DEF HasWithin
  <2> QED
    BY <1>2, <1>16, <2>3, <2>4, <2>5 DEF Twice
<1>20. UnderWay'
  <2>1. CASE over
    BY <1>5, <2>1 DEF UnderWay
  <2>2. CASE ~over
    <3>1. AheadUnseen'
      BY <1>2, <1>5, <1>9, <1>11, <1>18, <2>2 DEF AheadUnseen
    <3>2. BehindOnce'
      <4>1. Offset(reader'.page, reader'.size) = page * size
        BY <1>2, <1>5, <2>2
      <4>2. ASSUME ~Repeats', NEW i \in Still'
            PROVE  reader'.seen[i] <= 1 /\ (reader'.seen[i] = 1 => Place(i)' < page * size)
        BY <1>9, <1>11, <1>19, <4>2
      <4>3. ~Repeats' => \A i \in Still' :
              reader'.seen[i] <= 1 /\ (reader'.seen[i] = 1 => Place(i)' < Offset(reader'.page, reader'.size))
        BY <4>1, <4>2
      <4> HIDE DEF Repeats
      <4> QED
        BY <4>3 DEF BehindOnce, Offset
    <3>3. kind = "questionTypes" => page * size < told
      <4>1. page * size \in Int
        BY <1>2
      <4> QED
        BY <1>3, <2>2, <4>1
    <3> QED
      BY <1>2, <1>5, <1>12, <2>2, <3>1, <3>2, <3>3 DEF UnderWay
  <2> QED
    BY <2>1, <2>2
<1>21. PagesHaveCause'
  <2>1. CASE ~over
    BY <1>5, <2>1 DEF PagesHaveCause, SkippedHasCause, RepeatedHasCause
  <2>2. CASE over
    <3>1. SkippedHasCause'
      BY <1>9, <1>18, <2>2 DEF SkippedHasCause, Skips
    <3>2. RepeatedHasCause'
      <4>1. ASSUME ~Repeats', NEW i \in Still PROVE ~(reader'.seen[i] > 1)
        BY <1>6, <1>16, <1>19, <4>1 DEF PageTypes
      <4> QED
        BY <1>9, <4>1 DEF RepeatedHasCause, Repeats
    <3> QED
      BY <3>1, <3>2 DEF PagesHaveCause
  <2> QED
    BY <2>1, <2>2
<1> QED
  BY <1>5, <1>6, <1>7, <1>8, <1>20, <1>21 DEF PageInv

\* What a page of one database has of an item that stays.
LEMMA PageOfStill ==
  ASSUME PageTypes, NEW s, NEW off \in Nat, NEW size \in Nat \ {0}, NEW P \in Pages(s, off, size),
         NEW i \in Still, table[i].source = s,
         ~Ties(s, off, size) \/ With(s, table[i].key) = {<<i, 1>>}
  PROVE  /\ <<i, 1>> \in P => off <= Place(i) /\ Place(i) < off + size
         /\ <<i, 1>> \in P \/ Place(i) < off \/ Place(i) >= off + size
<1>1. i \in Item /\ table[i].there
  BY DEF Still
<1>2. PICK k \in 0 .. Latest : k = table[i].key
  BY <1>1, PlaceBeforeEnd
<1>3. <<i, 1>> \in RowsOf(s) /\ Place(i) = Before(s, k)
  BY <1>1, <1>2, PlaceBeforeEnd DEF Place
<1>4. InWindow(s, k, off, size) \in {0, Cardinality(With(s, k))}
  <2>1. CASE ~Ties(s, off, size)
    BY <2>1 DEF Ties
  <2>2. CASE With(s, k) = {<<i, 1>>}
    <3>1. Cardinality(With(s, k)) = 1
      BY <2>2, FS_Singleton
    <3>2. k \in Int
      BY PagesAssumption
    <3>3. InWindow(s, k, off, size) \in Nat /\ InWindow(s, k, off, size) <= 1
      BY <3>1, <3>2, WindowTypes
    <3> QED
      BY <3>1, <3>3
  <2> QED
    BY <1>2, <2>1, <2>2
<1>5. k = table[<<i, 1>>[1]].key
  BY <1>2
<1> QED
  BY <1>3, <1>4, <1>5, PageHolds

\* What is noted of the reading keeps its type.
LEMMA PastTypes ==
  ASSUME PageTypes, NEW tied \in BOOLEAN, NEW failed \in BOOLEAN,
         past' = [past EXCEPT !.tied = tied, !.failed = failed]
  PROVE  /\ past' \in [at : {past.at}, added : {past.added}, removed : {past.removed}, overtaken : {past.overtaken},
                       tied : BOOLEAN, failed : BOOLEAN, changes : {past.changes}]
         /\ past'.tied = tied /\ past'.failed = failed
         /\ past'.removed = past.removed /\ past'.overtaken = past.overtaken
  BY DEF PageTypes

\* A page of a plain list.
LEMMA ReadPageKeeps == PageInv /\ ReadPage => PageInv'
<1> SUFFICES ASSUME PageInv, ReadPage PROVE PageInv'
  OBVIOUS
<1>1. PICK off, size, page : off = Offset(page, size) /\ size = reader.size /\ page = reader.page
  OBVIOUS
<1>2. size \in Nat \ {0} /\ page \in Nat \ {0} /\ reader.at = "page"
  BY <1>1 DEF PageInv, PageTypes, ReadPage
<1>3. off \in Nat /\ off + size = page * size
  BY <1>1, <1>2, OffsetTypes
<1>4. kind \in {"timeslots", "bookings", "participants", "crowds"} /\ Sources[kind] = {"qs"}
  BY DEF PageInv, PageTypes, ReadPage, Lists, Sources
<1>5. PICK P \in Pages("qs", off, size) : Turn(P, reader.told)
  BY <1>1 DEF ReadPage
<1>6. PICK tied \in BOOLEAN : tied <=> past.tied \/ Ties("qs", off, size)
  <2>1. CASE past.tied \/ Ties("qs", off, size)
    BY <2>1
  <2>2. CASE ~(past.tied \/ Ties("qs", off, size))
    BY <2>2
  <2> QED
    BY <2>1, <2>2
<1>7. past' = [past EXCEPT !.tied = tied, !.failed = past.failed]
  <2>1. past' = [past EXCEPT !.tied = @ \/ Ties("qs", off, size)]
    BY <1>1 DEF ReadPage
  <2>2. (past.tied \/ Ties("qs", off, size)) = tied
    BY <1>6 DEF Ties
  <2> QED
    BY <2>1, <2>2 DEF PageInv, PageTypes
<1>8. /\ past' \in [at : {past.at}, added : {past.added}, removed : {past.removed}, overtaken : {past.overtaken},
                    tied : BOOLEAN, failed : BOOLEAN, changes : {past.changes}]
      /\ past'.tied = tied /\ past'.failed = past.failed
      /\ past'.removed = past.removed /\ past'.overtaken = past.overtaken
  BY <1>7, PastTypes DEF PageInv, PageTypes
<1>9. P \in SUBSET (RowsOf("qs") \cup RowsOf("qs"))
  BY DEF Pages
<1>10. \A i \in Still : i \in Item /\ table[i].there /\ table[i].source = "qs" /\ Place(i) \in Nat
                        /\ Place(i) < Cardinality(RowsOf("qs"))
  <2>1. TAKE i \in Still
  <2>2. i \in Item /\ table[i].there /\ table[i].source = "qs"
    BY <1>4 DEF Still, PageInv, PageTypes
  <2> QED
    BY <2>2, PlaceBeforeEnd DEF PageInv
<1>11. ASSUME ~tied
       PROVE  HasUnseen(P, off, size) /\ HasWithin(P, off, size)
  <2>1. ~Ties("qs", off, size)
    BY <1>6, <1>11
  <2> QED
    BY <1>2, <1>3, <1>10, <2>1, PageOfStill DEF HasUnseen, HasWithin, PageInv
<1>12. ASSUME ~Skips', page * size >= reader.told
       PROVE  \A i \in Still : Place(i) < page * size
  <2>1. ~Wide' /\ ~past.removed /\ ~past.overtaken
    BY <1>8, <1>12 DEF Skips
  <2>2. ~Wide
    BY <2>1 DEF Wide, ReadPage
  <2>3. reader.told = Cardinality(RowsOf("qs"))
    BY <1>2, <1>4, <2>1, <2>2, RowsAreCounted DEF PageInv
  <2>4. Cardinality(RowsOf("qs")) \in Nat /\ page * size \in Nat
    BY <1>2, RowsAreFinite DEF PageInv
  <2> QED
    BY <1>10, <1>12, <2>3, <2>4
<1>13. reader.told \in Nat
  BY DEF PageInv, PageTypes
<1>14. ~Skips' => HasUnseen(P, off, size)
  BY <1>8, <1>11 DEF Skips
<1>15. ~Repeats' => HasWithin(P, off, size)
  BY <1>8, <1>11 DEF Repeats
<1>16. past.tied => tied
  BY <1>6
<1>17. UNCHANGED <<kind, table>>
  BY DEF ReadPage
<1>18. kind # "questionTypes" /\ kind # "admins"
  BY <1>4
<1> QED
  BY <1>1, <1>2, <1>5, <1>8, <1>9, <1>12, <1>13, <1>14, <1>15, <1>16, <1>17, <1>18, TurnKeeps

\* A question type that nobody touched is the only one with its key.
LEMMA TypeIsAlone ==
  ASSUME PageInv, kind = "questionTypes", ~Wide, NEW i \in Still
  PROVE  /\ i \in Item /\ table[i].there /\ table[i].source = "qs"
         /\ With("qs", table[i].key) = {<<i, 1>>}
<1>1. i \in Item /\ table[i].there /\ table[i].source = "qs" /\ i \notin past.at
  BY DEF Still, PageInv, PageTypes, Sources, Lists
<1>2. \A j \in Item : j # i => table[j].key # table[i].key
  BY <1>1 DEF PageInv, Placed
<1>3. table[i].rows = 1
  BY <1>1 DEF PageInv, PageTypes, Wide
<1>4. \A r \in With("qs", table[i].key) : r = <<i, 1>>
  <2>1. TAKE r \in With("qs", table[i].key)
  <2>2. r = <<r[1], r[2]>> /\ r[1] \in Item /\ r[2] \in {1, 2} /\ r[2] <= table[r[1]].rows
        /\ table[r[1]].key = table[i].key
    BY DEF With, RowsOf, There
  <2>3. r[1] = i
    BY <1>2, <2>2
  <2> QED
    BY <1>3, <2>2, <2>3
<1>5. <<i, 1>> \in With("qs", table[i].key)
  BY <1>1, PlaceBeforeEnd DEF With, PageInv
<1> QED
  BY <1>1, <1>4, <1>5

\* The question types, which come in one answer.
LEMMA ReadTypesKeeps == PageInv /\ ReadQuestionTypes => PageInv'
<1> SUFFICES ASSUME PageInv, ReadQuestionTypes PROVE PageInv'
  OBVIOUS
<1>1. PICK off, size, page : off = Offset(page, size) /\ size = reader.size /\ page = reader.page
  OBVIOUS
<1>2. size \in Nat \ {0} /\ page \in Nat \ {0} /\ reader.at = "page" /\ kind = "questionTypes"
  BY <1>1 DEF PageInv, PageTypes, ReadQuestionTypes
<1>3. off \in Nat /\ off + size = page * size
  BY <1>1, <1>2, OffsetTypes
<1>4. PICK rest : rest = IF off < Cardinality(RowsOf("qs")) THEN off ELSE 0
  OBVIOUS
<1>5. rest \in Nat
  BY <1>3, <1>4
<1>6. PICK P : P = Slice(off, size)
  OBVIOUS
<1>7. P \in Pages("qs", rest, size)
  <2>1. Pages("qs", rest, size) # {}
    BY <1>2, <1>5, PagesExist DEF PageInv
  <2>2. P = CHOOSE Q \in Pages("qs", rest, size) : TRUE
    BY <1>4, <1>6 DEF Slice
  <2> QED
    BY <2>1, <2>2
<1>8. PICK told : told = Cardinality(RowsOf("qs"))
  OBVIOUS
<1>9. told \in Nat
  BY <1>8, RowsAreFinite DEF PageInv
<1>10. Turn(P, told)
  BY <1>1, <1>6, <1>8 DEF ReadQuestionTypes
<1>11. past' = past /\ UNCHANGED <<kind, table>>
  BY DEF ReadQuestionTypes
<1>12. ~past.removed => rest = off
  <2>1. page > 1 /\ ~past.removed => off < Cardinality(RowsOf("qs"))
    BY <1>1, <1>2 DEF PageInv, UnderWay
  <2>2. page > 1 \/ off = 0
    BY <1>1, <1>2, OffsetTypes
  <2> QED
    BY <1>4, <2>1, <2>2
<1>13. ASSUME ~past.removed, ~Wide
       PROVE  HasUnseen(P, off, size) /\ HasWithin(P, off, size)
  <2>1. P \in Pages("qs", off, size)
    BY <1>7, <1>12, <1>13
  <2> QED
    BY <1>2, <1>3, <1>13, <2>1, TypeIsAlone, PageOfStill DEF HasUnseen, HasWithin, PageInv
<1>14. ~Skips' => ~Wide /\ ~past.removed
  BY <1>11 DEF Skips, Wide
<1>15. ~Repeats' => ~Wide /\ ~past.removed
  BY <1>2, <1>11 DEF Repeats, Wide
<1>16. ASSUME page * size >= told, ~Wide
       PROVE  \A i \in Still : Place(i) < page * size
  <2>1. TAKE i \in Still
  <2>2. i \in Item /\ table[i].there /\ table[i].source = "qs"
    BY <1>2, <1>16, TypeIsAlone
  <2>3. Place(i) \in Nat /\ Place(i) < told
    BY <1>8, <2>2, PlaceBeforeEnd DEF PageInv
  <2>4. page * size \in Nat
    BY <1>2
  <2> QED
    BY <1>9, <1>16, <2>3, <2>4
<1>17. P \in SUBSET (RowsOf("qs") \cup RowsOf("qs"))
  BY <1>7 DEF Pages
<1>18. past' \in [at : {past.at}, added : {past.added}, removed : {past.removed}, overtaken : {past.overtaken},
                  tied : BOOLEAN, failed : BOOLEAN, changes : {past.changes}]
  BY <1>11 DEF PageInv, PageTypes
<1>19. kind # "admins" /\ past.tied = past'.tied /\ past.failed = past'.failed
  BY <1>2, <1>11
<1> QED
  BY <1>1, <1>2, <1>8, <1>9, <1>10, <1>11, <1>13, <1>14, <1>15, <1>16, <1>17, <1>18, <1>19, TurnKeeps

\* The subscriptions, which come from two queries.
LEMMA ReadBothKeeps == PageInv /\ ReadBoth => PageInv'
<1> SUFFICES ASSUME PageInv, ReadBoth PROVE PageInv'
  OBVIOUS
<1>1. PICK off, size, page : off = Offset(page, size) /\ size = reader.size /\ page = reader.page
  OBVIOUS
<1>2. size \in Nat \ {0} /\ page \in Nat \ {0} /\ reader.at = "page"
  BY <1>1 DEF PageInv, PageTypes, ReadBoth
<1>3. off \in Nat /\ off + size = page * size /\ page * size >= size
  BY <1>1, <1>2, OffsetTypes
<1>4. kind \in {"projects", "admins"} /\ Sources[kind] = {"iris", "qs"}
  BY DEF ReadBoth, Lists, Sources
<1> DEFINE at == Offset(reader.page, reader.size)
<1>5. PICK P \in Pages("iris", at, reader.size), Q \in Pages("qs", at, reader.size), fails \in SUBSET {"iris", "qs"} :
        LET both == {r \in P \cup Q : table[r[1]].source \notin fails}
        IN /\ Turn(both, Cardinality(both))
           /\ past' = [past EXCEPT !.tied = @ \/ \E s \in Sources[kind] : Ties(s, at, reader.size),
                                   !.failed = @ \/ fails # {}]
  BY DEF ReadBoth
<1>51. at = off /\ reader.size = size
  BY <1>1
<1>52. P \in Pages("iris", off, size) /\ Q \in Pages("qs", off, size)
  BY <1>51
<1>6. PICK both : both = {r \in P \cup Q : table[r[1]].source \notin fails}
  OBVIOUS
<1>7. PICK told : told = Cardinality(both)
  OBVIOUS
<1>8. Turn(both, told) /\ UNCHANGED <<kind, table>>
  BY <1>5, <1>6, <1>7 DEF ReadBoth
<1> HIDE DEF at
<1>9. P \in SUBSET RowsOf("iris") /\ Q \in SUBSET RowsOf("qs")
  BY <1>52 DEF Pages
<1>10. both \in SUBSET (RowsOf("iris") \cup RowsOf("qs"))
  BY <1>6, <1>9
<1>11. told \in Nat
  <2>1. IsFiniteSet(RowsOf("iris") \cup RowsOf("qs"))
    BY RowsAreFinite, FS_Union DEF PageInv
  <2> QED
    BY <1>7, <1>10, <2>1, FS_Subset, FS_CardinalityType
<1>12. PICK tied \in BOOLEAN, failed \in BOOLEAN :
         /\ tied <=> past.tied \/ \E s \in Sources[kind] : Ties(s, off, size)
         /\ failed <=> past.failed \/ fails # {}
  <2>1. \E b \in BOOLEAN : b <=> past.tied \/ \E s \in Sources[kind] : Ties(s, off, size)
    <3>1. CASE past.tied \/ \E s \in Sources[kind] : Ties(s, off, size)
      BY <3>1
    <3>2. CASE ~(past.tied \/ \E s \in Sources[kind] : Ties(s, off, size))
      BY <3>2
    <3> QED
      BY <3>1, <3>2
  <2>2. \E b \in BOOLEAN : b <=> past.failed \/ fails # {}
    OBVIOUS
  <2> QED
    BY <2>1, <2>2
<1>13. past' = [past EXCEPT !.tied = tied, !.failed = failed]
  <2>1. past' = [past EXCEPT !.tied = @ \/ \E s \in Sources[kind] : Ties(s, at, reader.size), !.failed = @ \/ fails # {}]
    BY <1>5
  <2>2. (past.tied \/ \E s \in Sources[kind] : Ties(s, at, reader.size)) = tied /\ (past.failed \/ fails # {}) = failed
    BY <1>12, <1>51
  <2> QED
    BY <2>1, <2>2 DEF PageInv, PageTypes
<1>14. /\ past' \in [at : {past.at}, added : {past.added}, removed : {past.removed}, overtaken : {past.overtaken},
                     tied : BOOLEAN, failed : BOOLEAN, changes : {past.changes}]
       /\ past'.tied = tied /\ past'.failed = failed
  BY <1>13, PastTypes DEF PageInv
<1>15. \A i \in Still : /\ i \in Item /\ table[i].there /\ table[i].source \in {"iris", "qs"} /\ Place(i) \in Nat
                        /\ Place(i) < Cardinality(RowsOf(table[i].source))
  <2>1. TAKE i \in Still
  <2>2. i \in Item /\ table[i].there /\ table[i].source \in {"iris", "qs"}
    BY DEF Still, PageInv, PageTypes
  <2> QED
    BY <2>2, PlaceBeforeEnd DEF PageInv
<1>16. \A i \in Still : /\ table[i].source = "iris" => <<i, 1>> \notin Q
                        /\ table[i].source = "qs" => <<i, 1>> \notin P
  BY <1>9 DEF RowsOf
<1>17. ASSUME ~tied
       PROVE  \A i \in Still :
                /\ <<i, 1>> \in P \cup Q => off <= Place(i) /\ Place(i) < off + size
                /\ <<i, 1>> \in P \cup Q \/ Place(i) < off \/ Place(i) >= off + size
  <2>1. ~Ties("iris", off, size) /\ ~Ties("qs", off, size)
    BY <1>4, <1>12, <1>17
  <2>2. TAKE i \in Still
  <2>3. CASE table[i].source = "iris"
    <3>1. <<i, 1>> \notin Q
      BY <1>16, <2>3
    <3> QED
      BY <1>2, <1>3, <1>52, <2>1, <2>3, <3>1, PageOfStill DEF PageInv
  <2>4. CASE table[i].source = "qs"
    <3>1. <<i, 1>> \notin P
      BY <1>16, <2>4
    <3> QED
      BY <1>2, <1>3, <1>52, <2>1, <2>4, <3>1, PageOfStill DEF PageInv
  <2> QED
    BY <1>15, <2>3, <2>4
<1>18. ASSUME ~Skips'
       PROVE  both = P \cup Q /\ ~tied
  <2>1. ~failed /\ ~tied
    BY <1>14, <1>18 DEF Skips
  <2> QED
    BY <1>6, <1>12, <2>1
<1>19. ~Skips' => HasUnseen(both, off, size)
  BY <1>17, <1>18 DEF HasUnseen
<1>20. ~Repeats' => HasWithin(both, off, size)
  <2>1. ASSUME ~Repeats' PROVE ~tied
    BY <1>14, <2>1 DEF Repeats
  <2> QED
    BY <1>6, <1>17, <2>1 DEF HasWithin
<1>21. ASSUME ~Skips', IF kind = "admins" THEN both = {} ELSE page * size >= told
       PROVE  \A i \in Still : <<i, 1>> \in both \/ Place(i) < page * size
  <2>1. TAKE i \in Still
  <2>2. page * size \in Nat
    BY <1>2
  <2>3. \A s : Cardinality(RowsOf(s)) \in Nat
    BY RowsAreFinite DEF PageInv
  <2>4. CASE kind = "admins"
    <3>1. P = {} /\ Q = {}
      BY <1>18, <1>21, <2>4
    <3>2. Cardinality(RowsOf("iris")) <= off /\ Cardinality(RowsOf("qs")) <= off
      BY <1>2, <1>3, <1>52, <3>1, EmptyIsLast DEF PageInv
    <3> QED
      BY <1>2, <1>3, <1>15, <2>2, <2>3, <3>2
  <2>5. CASE kind = "projects"
    <3>1. ~Cut'
      BY <1>21 DEF Skips
    <3>2. reader'.size = size
      BY <1>1, <1>8 DEF Turn, PageInv, PageTypes
    <3>3. \A s \in Sources[kind] : ~(Cardinality(RowsOf(s)) > size)
      BY <1>8, <2>5, <3>1, <3>2 DEF Cut, RowsOf, There
    <3>4. Cardinality(RowsOf(table[i].source)) <= size
      BY <1>2, <1>4, <1>15, <2>3, <3>3
    <3> QED
      BY <1>2, <1>3, <1>15, <2>2, <2>3, <3>4
  <2> QED
    BY <1>4, <2>4, <2>5
<1>22. (past.tied => tied) /\ (past.failed => failed)
  BY <1>12
<1>23. kind # "questionTypes"
  BY <1>4
<1> QED
  BY <1>1, <1>2, <1>8, <1>10, <1>11, <1>14, <1>19, <1>20, <1>21, <1>22, <1>23, TurnKeeps

-----------------------------------------------------------------------------
(* The surroundings *)

\* The same types in the next state.
TypedPlaces ==
  PageTypes => /\ \A i \in Item : table[i].there => Place(i) \in Nat
               /\ \A s : IsFiniteSet(RowsOf(s)) /\ Cardinality(RowsOf(s)) \in Nat

\* Places are numbers, in every state and in the next.
LEMMA PlacesAreTyped == TypedPlaces
  BY PlaceBeforeEnd, RowsAreFinite DEF TypedPlaces

\* The same in the next state.
LEMMA PlacesNext == TypedPlaces'
  BY PlacesAreTyped, PTL

\* A change of the table keeps its type.
LEMMA ChangeTypes ==
  ASSUME PageTypes, NEW i \in Item, NEW row, Change(i, row),
         row \in [source : {table[i].source}, key : 0 .. Latest, there : BOOLEAN, rows : {table[i].rows},
                  shown : {table[i].shown}],
         past' \in [at : {past.at \cup {i}}, added : BOOLEAN, removed : BOOLEAN, overtaken : BOOLEAN,
                    tied : {past.tied}, failed : {past.failed}, changes : Nat]
  PROVE  PageTypes'
<1>1. UNCHANGED <<kind, reader>> /\ table' = [table EXCEPT ![i] = row]
  BY DEF Change
<1>2. /\ table'[i] = row /\ (\A k \in Item \ {i} : table'[k] = table[k]) /\ row.source = table[i].source
  BY <1>1 DEF PageTypes
<1>3. row \in [source : {"iris", "qs"}, key : 0 .. Latest, there : BOOLEAN, rows : {1, 2}, shown : BOOLEAN]
  BY DEF PageTypes
<1>4. table' \in [Item -> [source : {"iris", "qs"}, key : 0 .. Latest, there : BOOLEAN, rows : {1, 2}, shown : BOOLEAN]]
  BY <1>1, <1>3 DEF PageTypes
<1>5. \A k \in Item : table'[k].source \in Sources[kind]
  BY <1>2 DEF PageTypes
<1>6. past' \in [at : SUBSET Item, added : BOOLEAN, removed : BOOLEAN, overtaken : BOOLEAN, tied : BOOLEAN,
                 failed : BOOLEAN, changes : Nat]
  BY DEF PageTypes
<1> QED
  BY <1>1, <1>4, <1>5, <1>6 DEF PageTypes

\* A change of one row, which moves no row that stays to the wrong side.
LEMMA ChangeKeeps ==
  ASSUME PageInv, NEW i \in Item, NEW row, Change(i, row),
         row \in [source : {table[i].source}, key : 0 .. Latest, there : BOOLEAN, rows : {table[i].rows},
                  shown : {table[i].shown}],
         past' \in [at : {past.at \cup {i}}, added : BOOLEAN, removed : BOOLEAN, overtaken : BOOLEAN,
                    tied : {past.tied}, failed : {past.failed}, changes : Nat],
         past.added => past'.added, past.removed => past'.removed, past.overtaken => past'.overtaken,
         ~Skips' => ~Cut,
         ~Skips' => \A k \in Still' : Place(k)' >= Place(k),
         ~Repeats' => \A k \in Still' : Place(k)' <= Place(k),
         kind = "questionTypes" =>
           /\ ~past'.removed => Cardinality(RowsOf("qs")) <= Cardinality(RowsOf("qs")')
           /\ row.key \in {0, table[i].key},
         reader.at = "page" /\ ~past'.removed /\ ~past'.overtaken => Count' = Count
  PROVE  PageInv'
<1>1. /\ UNCHANGED <<kind, reader>> /\ reader.at # "done" /\ table' = [table EXCEPT ![i] = row]
  BY DEF Change
<1>2. /\ past'.at = past.at \cup {i} /\ past'.tied = past.tied /\ past'.failed = past.failed
  OBVIOUS
<1>3. /\ table'[i] = row /\ \A k \in Item \ {i} : table'[k] = table[k]
      /\ row.source = table[i].source /\ row.rows = table[i].rows /\ row.shown = table[i].shown
  BY <1>1 DEF PageInv, PageTypes
<1>4. PageTypes'
  BY ChangeTypes DEF PageInv
<1>5. Placed'
  <2>1. ASSUME NEW k \in Item \ past'.at
        PROVE  /\ table'[k].key \in 1 .. Latest - 1
               /\ kind = "questionTypes" => \A j \in Item : j # k => table'[j].key # table'[k].key
    <3>1. k \in Item \ past.at /\ k # i /\ table'[k] = table[k]
      BY <1>2, <1>3, <2>1
    <3>2. table[k].key \in 1 .. Latest - 1 /\ kind = "questionTypes" => \A j \in Item : j # k => table[j].key # table[k].key
      BY <3>1 DEF PageInv, Placed
    <3>3. table[k].key \in 1 .. Latest - 1 /\ table[k].key # 0
      BY <3>1, PagesAssumption DEF PageInv, Placed
    <3>4. ASSUME kind = "questionTypes", NEW j \in Item, j # k PROVE table'[j].key # table'[k].key
      <4>1. table[j].key # table[k].key
        BY <3>1, <3>4 DEF PageInv, Placed
      <4> QED
        BY <1>3, <3>1, <3>3, <3>4, <4>1
    <3> QED
      BY <3>1, <3>3, <3>4
  <2> QED
    BY <1>1, <2>1 DEF Placed
<1>6. Still' = Still \ {i}
  BY <1>2, <1>3 DEF Still
<1>7. Wide' <=> Wide
  BY <1>3 DEF Wide
<1>8. ~Skips' => ~Skips
  BY <1>1, <1>2, <1>7 DEF Skips
<1>9. ~Repeats' => ~Repeats
  BY <1>1, <1>2, <1>7 DEF Repeats
<1>10. \A k \in Still' : k \in Still /\ Place(k) \in Nat /\ Place(k)' \in Nat
  <2>1. TAKE k \in Still'
  <2>2. k \in Item /\ table[k].there /\ table'[k].there /\ k \in Still
    BY <1>6 DEF Still
  <2>3. Place(k) \in Nat
    BY <2>2, PlaceBeforeEnd DEF PageInv
  <2>4. Place(k)' \in Nat
    BY <1>4, <2>2, PlacesNext DEF TypedPlaces
  <2> QED
    BY <2>2, <2>3, <2>4
<1>11. ASSUME reader.at \in {"count", "page"} PROVE UnderWay'
  <2>1. PICK off : off = Offset(reader.page, reader.size)
    OBVIOUS
  <2>2. off \in Nat /\ off = Offset(reader'.page, reader'.size)
    <3>1. reader.page \in Nat \ {0} /\ reader.size \in Nat \ {0}
      BY <1>11 DEF PageInv, PageTypes
    <3> QED
      BY <1>1, <2>1, <3>1, OffsetTypes
  <2>3. ~Skips' => \A k \in Still' : reader'.seen[k] = 0 => Place(k)' >= off
    <3>1. ASSUME ~Skips', NEW k \in Still', reader'.seen[k] = 0 PROVE Place(k)' >= off
      <4>1. Place(k) >= off
        BY <1>1, <1>8, <1>10, <1>11, <2>1, <3>1 DEF PageInv, UnderWay, AheadUnseen
      <4> QED
        BY <1>10, <2>2, <3>1, <4>1
    <3> QED
      BY <3>1
  <2>4. ~Repeats' => \A k \in Still' : reader'.seen[k] <= 1 /\ (reader'.seen[k] = 1 => Place(k)' < off)
    <3>1. ASSUME ~Repeats', NEW k \in Still' PROVE reader'.seen[k] <= 1 /\ (reader'.seen[k] = 1 => Place(k)' < off)
      <4>1. reader.seen[k] <= 1 /\ (reader.seen[k] = 1 => Place(k) < off)
        BY <1>9, <1>10, <1>11, <2>1, <3>1 DEF PageInv, UnderWay, BehindOnce
      <4> QED
        BY <1>1, <1>10, <2>2, <3>1, <4>1
    <3> QED
      BY <3>1
  <2>5. AheadUnseen' /\ BehindOnce'
    BY <2>2, <2>3, <2>4 DEF AheadUnseen, BehindOnce
  <2>6. kind' = "questionTypes" /\ ~past'.removed /\ reader'.page > 1 =>
          Offset(reader'.page, reader'.size) < Cardinality(RowsOf("qs")')
    <3>1. Cardinality(RowsOf("qs")) \in Nat /\ Cardinality(RowsOf("qs")') \in Nat
      BY <1>4, PlacesAreTyped, PlacesNext DEF PageInv, TypedPlaces
    <3>2. kind = "questionTypes" /\ ~past.removed /\ reader.page > 1 => off < Cardinality(RowsOf("qs"))
      BY <1>11, <2>1 DEF PageInv, UnderWay
    <3> QED
      BY <1>1, <2>2, <3>1, <3>2
  <2> QED
    BY <2>5, <2>6 DEF UnderWay
<1>12. UnderWay'
  BY <1>1, <1>11 DEF UnderWay
<1>13. PagesHaveCause'
  BY <1>1 DEF PagesHaveCause, SkippedHasCause, RepeatedHasCause
<1>14. (reader.at = "idle" => reader.seen = [k \in Item |-> 0] /\ reader.page = 1)'
  BY <1>1 DEF PageInv
<1>15. (reader.at = "page" /\ ~past.removed /\ ~past.overtaken => reader.told = Count)'
  BY <1>1 DEF PageInv
<1>16. (past.at = {} => ~past.removed)'
  BY <1>2
<1> QED
  BY <1>4, <1>5, <1>12, <1>13, <1>14, <1>15, <1>16 DEF PageInv

\* Nothing is asked for yet.
LEMMA PageStarts == PagedInit => PageInv
<1> SUFFICES ASSUME PagedInit PROVE PageInv
  OBVIOUS
<1>1. reader = Start /\ past = Untouched /\ kind \in Lists
  BY DEF PagedInit
<1>2. PageTypes
  <2>1. table \in [Item -> [source : {"iris", "qs"}, key : 0 .. Latest, there : BOOLEAN, rows : {1, 2}, shown : BOOLEAN]]
        /\ \A i \in Item : table[i].source \in Sources[kind] /\ table[i].key \in 1 .. Latest - 1
    <3>1. \A k \in Lists : Sources[k] \subseteq {"iris", "qs"}
      BY DEF Sources
    <3>2. 1 .. Latest - 1 \subseteq 0 .. Latest
      BY PagesAssumption
    <3>3. table \in [Item -> [source : Sources[kind], key : 1 .. Latest - 1, there : BOOLEAN,
                              rows : IF kind \in Joined THEN {1, 2} ELSE {1},
                              shown : IF kind = "bookings" THEN BOOLEAN ELSE {TRUE}]]
      BY DEF PagedInit
    <3> QED
      BY <1>1, <3>1, <3>2, <3>3
  <2> QED
    BY <1>1, <2>1 DEF PageTypes, Start, Untouched
<1>3. Placed
  BY <1>1 DEF PagedInit, Placed, Untouched
<1>4. UnderWay /\ PagesHaveCause
  BY <1>1 DEF UnderWay, PagesHaveCause, SkippedHasCause, RepeatedHasCause, Start
<1> QED
  BY <1>1, <1>2, <1>3, <1>4 DEF PageInv, Start, Untouched

\* The client begins to read a list.
LEMMA BeginKeeps ==
  ASSUME PageInv, NEW asked \in {0, Default, Cap + 1}, Begin(asked)
  PROVE  PageInv'
<1>1. PICK size \in Nat \ {0} : size = PageSize(kind, asked)
  BY SizeOfPage DEF PageInv, PageTypes
<1>2. reader' = [reader EXCEPT !.size = size, !.at = "count"] /\ UNCHANGED <<kind, table, past>>
      /\ reader.at = "idle" /\ reader.seen = [i \in Item |-> 0] /\ reader.page = 1
  BY <1>1 DEF Begin, PageInv
<1>3. /\ reader'.size = size /\ reader'.at = "count" /\ reader'.page = 1 /\ reader'.seen = [i \in Item |-> 0]
  BY <1>2 DEF PageInv, PageTypes
<1>4. PageTypes' /\ Placed'
  <2>1. reader \in [size : Nat, page : Nat \ {0}, told : Nat, seen : [Item -> 0 .. 2],
                   at : {"idle", "count", "page", "done"}]
    BY DEF PageInv, PageTypes
  <2>2. reader' \in [size : Nat, page : Nat \ {0}, told : Nat, seen : [Item -> 0 .. 2],
                    at : {"idle", "count", "page", "done"}]
    BY <1>2, <2>1
  <2>3. PageTypes'
    BY <1>2, <1>3, <2>2 DEF PageInv, PageTypes
  <2> QED
    BY <1>2, <2>3 DEF PageInv, Placed
<1>5. Offset(reader'.page, reader'.size) = 0
  BY <1>3, OffsetTypes
<1>6. \A k \in Still' : k \in Item /\ Place(k)' \in Nat
  BY <1>4, PlacesNext DEF TypedPlaces, Still
<1>7. AheadUnseen'
  BY <1>5, <1>6 DEF AheadUnseen
<1>8. BehindOnce'
  BY <1>3, <1>6 DEF BehindOnce
<1>9. UnderWay'
  BY <1>3, <1>7, <1>8 DEF UnderWay
<1>10. PagesHaveCause'
  BY <1>3 DEF PagesHaveCause, SkippedHasCause, RepeatedHasCause
<1> QED
  BY <1>2, <1>3, <1>4, <1>9, <1>10 DEF PageInv

\* What is said of a reader under way depends on the page it is at.
LEMMA ReadCountKeeps == PageInv /\ ReadCount => PageInv'
<1> SUFFICES ASSUME PageInv, ReadCount PROVE PageInv'
  OBVIOUS
<1>1. reader' = [reader EXCEPT !.told = Count, !.at = "page"] /\ UNCHANGED <<kind, table, past>> /\ reader.at = "count"
  BY DEF ReadCount
<1>2. /\ reader'.size = reader.size /\ reader'.at = "page" /\ reader'.page = reader.page
      /\ reader'.seen = reader.seen /\ reader'.told = Count
  BY <1>1 DEF PageInv, PageTypes
<1>3. Count \in Nat
  <2>1. IsFiniteSet(There(kind))
    BY PagesAssumption, FS_Subset DEF There
  <2> QED
    BY <2>1, FS_CardinalityType DEF Count
<1>4. PageTypes' /\ Placed'
  BY <1>1, <1>3 DEF PageInv, PageTypes, Placed
<1>5. Still' = Still /\ Wide' = Wide /\ Cut' = Cut /\ Count' = Count /\ RowsOf("qs")' = RowsOf("qs")
  BY <1>1, <1>2 DEF Still, Wide, Cut, Count, RowsOf, There
<1>6. \A i : Place(i)' = Place(i)
  BY <1>1 DEF Place, Before, RowsOf, There
<1>7. (Skips' <=> Skips) /\ (Repeats' <=> Repeats)
  BY <1>1, <1>5 DEF Skips, Repeats
<1>8. AheadUnseen'
  <2>1. AheadUnseen
    BY <1>1 DEF PageInv, UnderWay
  <2> QED
    BY <1>2, <1>5, <1>6, <1>7, <2>1 DEF AheadUnseen, Offset
<1>9. BehindOnce'
  <2>1. BehindOnce
    BY <1>1 DEF PageInv, UnderWay
  <2> QED
    BY <1>2, <1>5, <1>6, <1>7, <2>1 DEF BehindOnce, Offset
<1>10. UnderWay'
  BY <1>1, <1>2, <1>5, <1>8, <1>9 DEF PageInv, UnderWay, Offset
<1>11. PagesHaveCause'
  BY <1>2 DEF PagesHaveCause, SkippedHasCause, RepeatedHasCause
<1> QED
  BY <1>1, <1>2, <1>4, <1>5, <1>10, <1>11 DEF PageInv

\* Where there are no fewer rows, no fewer are counted.
LEMMA MoreRows ==
  ASSUME PageTypes', \A s : RowsOf(s) \subseteq RowsOf(s)'
  PROVE  \A s : Cardinality(RowsOf(s)) <= Cardinality(RowsOf(s)')
<1>1. TAKE s
<1>2. IsFiniteSet(RowsOf(s)')
  BY PlacesNext DEF TypedPlaces
<1> QED
  BY <1>2, FS_Subset

\* A list that takes several pages still does with as many rows or more.
LEMMA MoreIsCut ==
  ASSUME PageTypes, PageTypes', reader' = reader, kind' = kind, Cut,
         \A s : Cardinality(RowsOf(s)) <= Cardinality(RowsOf(s)')
  PROVE  Cut'
<1>1. PICK s \in Sources[kind] : Cardinality(RowsOf(s)) > reader.size
  BY DEF Cut
<1>2. Cardinality(RowsOf(s)) \in Nat /\ Cardinality(RowsOf(s)') \in Nat /\ reader.size \in Nat
  BY PlacesAreTyped, PlacesNext DEF TypedPlaces, PageTypes
<1>3. Cardinality(RowsOf(s)') > reader.size
  BY <1>1, <1>2
<1> QED
  BY <1>1, <1>3 DEF Cut

\* Rows that stay before an item keep it where it is or further back.
LEMMA MorePlaces ==
  ASSUME PageTypes', NEW k \in Item, table'[k] = table[k],
         \A r \in RowsOf(table[k].source) :
           table[r[1]].key > table[k].key => r \in RowsOf(table[k].source)' /\ table'[r[1]].key > table[k].key
  PROVE  Place(k)' >= Place(k)
<1>1. PICK s, key : s = table[k].source /\ key = table[k].key
  OBVIOUS
<1> DEFINE U == {r \in RowsOf(s) : table[r[1]].key > key}
           V == {r \in RowsOf(s)' : table'[r[1]].key > key}
<1>2. Place(k) = Cardinality(U) /\ Place(k)' = Cardinality(V)
  BY <1>1 DEF Place, Before
<1>3. U \subseteq V /\ V \subseteq RowsOf(s)'
  BY <1>1
<1> HIDE DEF U, V
<1>4. IsFiniteSet(V)
  BY <1>3, PlacesNext, FS_Subset DEF TypedPlaces
<1>5. Cardinality(U) <= Cardinality(V) /\ Cardinality(V) \in Nat /\ Cardinality(U) \in Nat
  BY <1>3, <1>4, FS_Subset, FS_CardinalityType
<1> QED
  BY <1>2, <1>5

\* With fewer rows before it an item comes no later.
LEMMA FewerPlaces ==
  ASSUME PageTypes, NEW k \in Item, table'[k] = table[k],
         \A r \in RowsOf(table[k].source)' :
           table'[r[1]].key > table[k].key => r \in RowsOf(table[k].source) /\ table[r[1]].key > table[k].key
  PROVE  Place(k)' <= Place(k)
<1>1. PICK s, key : s = table[k].source /\ key = table[k].key
  OBVIOUS
<1> DEFINE U == {r \in RowsOf(s) : table[r[1]].key > key}
           V == {r \in RowsOf(s)' : table'[r[1]].key > key}
<1>2. Place(k) = Cardinality(U) /\ Place(k)' = Cardinality(V)
  BY <1>1 DEF Place, Before
<1>3. V \subseteq U /\ U \subseteq RowsOf(s)
  BY <1>1
<1> HIDE DEF U, V
<1>4. IsFiniteSet(U)
  BY <1>3, RowsAreFinite
<1>5. Cardinality(V) <= Cardinality(U)
  BY <1>3, <1>4, FS_Subset
<1> QED
  BY <1>2, <1>5

\* A row comes while the client reads.
LEMMA AddKeeps ==
  ASSUME PageInv, NEW i \in Item, NEW key \in 0 .. Latest, AddItem(i, key)
  PROVE  PageInv'
<1>1. PICK row : row = [table[i] EXCEPT !.there = TRUE, !.key = key]
  OBVIOUS
<1>2. /\ ~table[i].there /\ Change(i, row) /\ reader.at # "done" /\ kind' = kind /\ reader' = reader
      /\ table' = [table EXCEPT ![i] = row]
      /\ kind \notin Anywhere => key = (IF kind = "questionTypes" THEN 0 ELSE Latest)
  BY <1>1 DEF AddItem, Change
<1>3. /\ row \in [source : {table[i].source}, key : 0 .. Latest, there : BOOLEAN, rows : {table[i].rows},
                  shown : {table[i].shown}]
      /\ row.key = key /\ row.there
  <2>1. table[i] \in [source : {"iris", "qs"}, key : 0 .. Latest, there : BOOLEAN, rows : {1, 2}, shown : BOOLEAN]
    BY DEF PageInv, PageTypes
  <2> QED
    BY <1>1, <2>1
<1>4. past' = [[past EXCEPT !.at = @ \cup {i}, !.changes = @ + 1] EXCEPT !.added = TRUE, !.overtaken = @ \/ reader.at = "page"]
  BY DEF AddItem, Happened
<1>5. /\ past' \in [at : {past.at \cup {i}}, added : BOOLEAN, removed : BOOLEAN, overtaken : BOOLEAN,
                    tied : {past.tied}, failed : {past.failed}, changes : Nat]
      /\ past'.added /\ past'.removed = past.removed /\ (past.overtaken => past'.overtaken)
      /\ (reader.at = "page" => past'.overtaken) /\ past'.at # {}
  <2>1. past \in [at : SUBSET Item, added : BOOLEAN, removed : BOOLEAN, overtaken : BOOLEAN, tied : BOOLEAN,
                  failed : BOOLEAN, changes : Nat]
    BY DEF PageInv, PageTypes
  <2>2. PICK at \in SUBSET Item, n \in Nat, o \in BOOLEAN :
          at = past.at \cup {i} /\ n = past.changes + 1 /\ o = (past.overtaken \/ reader.at = "page")
    <3>1. past.at \cup {i} \in SUBSET Item /\ past.changes + 1 \in Nat
      BY <2>1
    <3>2. (past.overtaken \/ reader.at = "page") \in BOOLEAN
      OBVIOUS
    <3> QED
      BY <3>1, <3>2
  <2>3. past' = [past EXCEPT !.at = at, !.changes = n, !.added = TRUE, !.overtaken = o]
    BY <1>4, <2>2
  <2>4. /\ past'.at = at /\ past'.changes = n /\ past'.tied = past.tied /\ past'.failed = past.failed
        /\ past'.added = TRUE /\ past'.removed = past.removed /\ past'.overtaken = o
        /\ past' = [at |-> past'.at, added |-> past'.added, removed |-> past'.removed, overtaken |-> past'.overtaken,
                    tied |-> past'.tied, failed |-> past'.failed, changes |-> past'.changes]
    BY <2>1, <2>3
  <2> QED
    BY <2>1, <2>2, <2>4
<1>6. /\ table'[i] = row /\ \A k \in Item \ {i} : table'[k] = table[k]
  BY <1>2 DEF PageInv, PageTypes
<1>7. \A s : RowsOf(s) \subseteq RowsOf(s)' /\ \A r \in RowsOf(s) : r[1] \in Item /\ table'[r[1]] = table[r[1]]
  BY <1>2, <1>6 DEF RowsOf, There
<1>8. PageTypes'
  BY <1>2, <1>3, <1>5, ChangeTypes DEF PageInv
<1>9. \A s : Cardinality(RowsOf(s)) <= Cardinality(RowsOf(s)')
  BY <1>7, <1>8, MoreRows
<1>10. \A k \in Still' : Place(k)' >= Place(k)
  <2>1. TAKE k \in Still'
  <2>2. k \in Item /\ k # i /\ table'[k] = table[k]
    BY <1>5, <1>6 DEF Still
  <2> QED
    BY <1>7, <1>8, <2>2, MorePlaces
<1>11. ~Skips' => ~Cut
  <2>1. ~Cut' => ~Cut
    BY <1>2, <1>8, <1>9, MoreIsCut DEF PageInv
  <2> QED
    BY <2>1 DEF Skips
<1>12. Repeats'
  BY <1>5 DEF Repeats
<1>13. kind = "questionTypes" => row.key \in {0, table[i].key}
  BY <1>2, <1>3 DEF Anywhere
<1> QED
  BY <1>2, <1>3, <1>5, <1>9, <1>10, <1>11, <1>12, <1>13, ChangeKeeps

\* A row goes while the client reads.
LEMMA RemoveKeeps ==
  ASSUME PageInv, NEW i \in Item, RemoveItem(i)
  PROVE  PageInv'
<1>1. PICK row : row = [table[i] EXCEPT !.there = FALSE]
  OBVIOUS
<1>2. /\ Change(i, row) /\ kind' = kind /\ reader' = reader /\ table' = [table EXCEPT ![i] = row]
  BY <1>1 DEF RemoveItem, Change
<1>3. /\ row \in [source : {table[i].source}, key : 0 .. Latest, there : BOOLEAN, rows : {table[i].rows},
                  shown : {table[i].shown}]
      /\ row.key = table[i].key /\ ~row.there
  <2>1. table[i] \in [source : {"iris", "qs"}, key : 0 .. Latest, there : BOOLEAN, rows : {1, 2}, shown : BOOLEAN]
    BY DEF PageInv, PageTypes
  <2> QED
    BY <1>1, <2>1
<1>4. past' = [[past EXCEPT !.at = @ \cup {i}, !.changes = @ + 1] EXCEPT !.removed = TRUE]
  BY DEF RemoveItem, Happened
<1>5. /\ past' \in [at : {past.at \cup {i}}, added : BOOLEAN, removed : BOOLEAN, overtaken : BOOLEAN,
                    tied : {past.tied}, failed : {past.failed}, changes : Nat]
      /\ past'.removed /\ past'.added = past.added /\ past'.overtaken = past.overtaken
  <2>1. past \in [at : SUBSET Item, added : BOOLEAN, removed : BOOLEAN, overtaken : BOOLEAN, tied : BOOLEAN,
                  failed : BOOLEAN, changes : Nat]
    BY DEF PageInv, PageTypes
  <2>2. PICK at \in SUBSET Item, n \in Nat : at = past.at \cup {i} /\ n = past.changes + 1
    <3>1. past.at \cup {i} \in SUBSET Item /\ past.changes + 1 \in Nat
      BY <2>1
    <3> QED
      BY <3>1
  <2>3. past' = [past EXCEPT !.at = at, !.changes = n, !.removed = TRUE]
    BY <1>4, <2>2
  <2>4. /\ past'.at = at /\ past'.changes = n /\ past'.tied = past.tied /\ past'.failed = past.failed
        /\ past'.added = past.added /\ past'.removed = TRUE /\ past'.overtaken = past.overtaken
        /\ past' = [at |-> past'.at, added |-> past'.added, removed |-> past'.removed, overtaken |-> past'.overtaken,
                    tied |-> past'.tied, failed |-> past'.failed, changes |-> past'.changes]
    BY <2>1, <2>3
  <2> QED
    BY <2>1, <2>2, <2>4
<1>6. /\ table'[i] = row /\ \A k \in Item \ {i} : table'[k] = table[k]
  BY <1>2 DEF PageInv, PageTypes
<1>7. \A s : RowsOf(s)' \subseteq RowsOf(s) /\ \A r \in RowsOf(s)' : r[1] \in Item /\ table'[r[1]] = table[r[1]]
  BY <1>2, <1>3, <1>6 DEF RowsOf, There
<1>8. \A k \in Still' : Place(k)' <= Place(k)
  <2>1. TAKE k \in Still'
  <2>2. k \in Item /\ k # i /\ table'[k] = table[k]
    BY <1>5, <1>6 DEF Still
  <2> QED
    BY <1>7, <2>2, FewerPlaces DEF PageInv
<1>9. Skips'
  BY <1>5 DEF Skips
<1> QED
  BY <1>2, <1>3, <1>5, <1>8, <1>9, ChangeKeeps

\* A row moves to the front while the client reads.
LEMMA TouchKeeps ==
  ASSUME PageInv, NEW i \in Item, NEW key \in 0 .. Latest, TouchItem(i, key)
  PROVE  PageInv'
<1>1. PICK row : row = [table[i] EXCEPT !.key = key]
  OBVIOUS
<1>2. /\ table[i].there /\ Change(i, row) /\ kind' = kind /\ reader' = reader
      /\ table' = [table EXCEPT ![i] = row] /\ kind \in Newest \cup Anywhere
      /\ kind \in Newest => key = Latest
  BY <1>1 DEF TouchItem, Change
<1>3. /\ row \in [source : {table[i].source}, key : 0 .. Latest, there : BOOLEAN, rows : {table[i].rows},
                  shown : {table[i].shown}]
      /\ row.key = key /\ row.there /\ row.source = table[i].source /\ row.rows = table[i].rows
  BY <1>1, <1>2 DEF PageInv, PageTypes
<1>4. past' = [past EXCEPT !.at = @ \cup {i}, !.changes = @ + 1]
  BY DEF TouchItem, Happened
<1>5. /\ past' \in [at : {past.at \cup {i}}, added : BOOLEAN, removed : BOOLEAN, overtaken : BOOLEAN,
                    tied : {past.tied}, failed : {past.failed}, changes : Nat]
      /\ past'.added = past.added /\ past'.removed = past.removed /\ past'.overtaken = past.overtaken
      /\ past'.at # {} /\ past.at \subseteq past'.at
  <2>1. past \in [at : SUBSET Item, added : BOOLEAN, removed : BOOLEAN, overtaken : BOOLEAN, tied : BOOLEAN,
                  failed : BOOLEAN, changes : Nat]
    BY DEF PageInv, PageTypes
  <2>2. PICK at \in SUBSET Item, n \in Nat : at = past.at \cup {i} /\ n = past.changes + 1
    <3>1. past.at \cup {i} \in SUBSET Item /\ past.changes + 1 \in Nat
      BY <2>1
    <3> QED
      BY <3>1
  <2>3. past' = [past EXCEPT !.at = at, !.changes = n]
    BY <1>4, <2>2
  <2>4. /\ past'.at = at /\ past'.changes = n /\ past'.tied = past.tied /\ past'.failed = past.failed
        /\ past'.added = past.added /\ past'.removed = past.removed /\ past'.overtaken = past.overtaken
        /\ past' = [at |-> past'.at, added |-> past'.added, removed |-> past'.removed, overtaken |-> past'.overtaken,
                    tied |-> past'.tied, failed |-> past'.failed, changes |-> past'.changes]
    BY <2>1, <2>3
  <2> QED
    BY <2>1, <2>2, <2>4
<1>6. /\ table'[i] = row /\ \A k \in Item \ {i} : table'[k] = table[k]
  BY <1>2 DEF PageInv, PageTypes
<1>7. There(kind)' = There(kind) /\ \A k \in Item : table'[k].source = table[k].source /\ table'[k].rows = table[k].rows
  BY <1>2, <1>3, <1>6 DEF There
<1>8. \A s : RowsOf(s)' = RowsOf(s)
  BY <1>2, <1>7 DEF RowsOf, There
<1>9. PageTypes'
  BY <1>2, <1>3, <1>5, ChangeTypes DEF PageInv
<1>10. ASSUME kind \notin Anywhere
       PROVE  \A k \in Still' : Place(k)' >= Place(k)
  <2>1. TAKE k \in Still'
  <2>2. k \in Item /\ k # i /\ table'[k] = table[k] /\ k \notin past.at
    BY <1>5, <1>6 DEF Still
  <2>3. table[k].key \in 1 .. Latest - 1
    BY <2>2 DEF PageInv, Placed
  <2>4. Latest > table[k].key /\ table'[i].key = Latest
    BY <1>2, <1>3, <1>6, <1>10, <2>3, PagesAssumption
  <2>5. \A r \in RowsOf(table[k].source) :
           table[r[1]].key > table[k].key => r \in RowsOf(table[k].source)' /\ table'[r[1]].key > table[k].key
    <3>1. TAKE r \in RowsOf(table[k].source)
    <3>2. r[1] \in Item
      BY DEF RowsOf, There
    <3>3. HAVE table[r[1]].key > table[k].key
    <3>4. table'[r[1]].key > table[k].key
      BY <1>6, <2>4, <3>2, <3>3
    <3> QED
      BY <1>8, <2>2, <3>4
  <2> QED
    BY <1>9, <2>2, <2>5, MorePlaces
<1>11. ~Skips' => kind \notin Anywhere
  BY <1>2, <1>5 DEF Skips
<1>12. Repeats'
  BY <1>2, <1>5 DEF Repeats
<1>13. Cut' = Cut
  BY <1>2, <1>8 DEF Cut
<1>14. ~Skips' => ~Cut
  BY <1>13 DEF Skips
<1>15. Count' = Count
  BY <1>7 DEF Count
<1>16. kind # "questionTypes"
  BY <1>2 DEF Newest, Anywhere
<1> QED
  BY <1>2, <1>3, <1>5, <1>10, <1>11, <1>12, <1>14, <1>15, <1>16, ChangeKeeps

\* Every step keeps the invariant.
LEMMA PageStep == PageInv /\ [PagedNext]_pagedVars => PageInv'
<1> SUFFICES ASSUME PageInv, [PagedNext]_pagedVars PROVE PageInv'
  OBVIOUS
<1>1. ASSUME NEW asked \in {0, Default, Cap + 1}, Begin(asked) PROVE PageInv'
  BY <1>1, BeginKeeps
<1>2. CASE ReadCount
  BY <1>2, ReadCountKeeps
<1>3. CASE ReadPage
  BY <1>3, ReadPageKeeps
<1>4. CASE ReadQuestionTypes
  BY <1>4, ReadTypesKeeps
<1>5. CASE ReadBoth
  BY <1>5, ReadBothKeeps
<1>6. ASSUME NEW i \in Item, NEW key \in 0 .. Latest, AddItem(i, key) PROVE PageInv'
  BY <1>6, AddKeeps
<1>7. ASSUME NEW i \in Item, RemoveItem(i) PROVE PageInv'
  BY <1>7, RemoveKeeps
<1>8. ASSUME NEW i \in Item, NEW key \in 0 .. Latest, TouchItem(i, key) PROVE PageInv'
  BY <1>8, TouchKeeps
<1>9. CASE UNCHANGED pagedVars
  <2>1. UNCHANGED <<kind, table, reader, past>>
    BY <1>9 DEF pagedVars
  <2>2. PageTypes' /\ Placed'
    BY <2>1 DEF PageInv, PageTypes, Placed
  <2>3. Still' = Still /\ Wide' = Wide /\ Cut' = Cut /\ Count' = Count /\ RowsOf("qs")' = RowsOf("qs")
    BY <2>1 DEF Still, Wide, Cut, Count, RowsOf, There
  <2>4. \A i : Place(i)' = Place(i)
    BY <2>1 DEF Place, Before, RowsOf, There
  <2>5. (Skips' <=> Skips) /\ (Repeats' <=> Repeats)
    BY <2>1, <2>3 DEF Skips, Repeats
  <2>6. (AheadUnseen' <=> AheadUnseen) /\ (BehindOnce' <=> BehindOnce)
    BY <2>1, <2>3, <2>4, <2>5 DEF AheadUnseen, BehindOnce, Offset
  <2>7. UnderWay'
    BY <2>1, <2>3, <2>6 DEF PageInv, UnderWay, Offset
  <2>8. PagesHaveCause'
    BY <2>1, <2>3 DEF PageInv, PagesHaveCause, SkippedHasCause, RepeatedHasCause
  <2> QED
    BY <2>1, <2>2, <2>3, <2>7, <2>8 DEF PageInv
<1> QED
  BY <1>1, <1>2, <1>3, <1>4, <1>5, <1>6, <1>7, <1>8, <1>9 DEF PagedNext

\* What a client that reads a list to its end has missed or been shown twice has
\* a cause (the pages of every list), for any items, page sizes and changes.
THEOREM PagesKeep == PagedSpec => []PagesHaveCause
<1>1. PagedInit => PageInv
  BY PageStarts
<1>2. PageInv /\ [PagedNext]_pagedVars => PageInv'
  BY PageStep
<1>3. PageInv => PagesHaveCause
  BY DEF PageInv
<1> QED
  BY <1>1, <1>2, <1>3, PTL DEF PagedSpec

-----------------------------------------------------------------------------
(* The calendar a moderator sees: AvailabilityListing *)

\* The tables of one moderator, as CalendarsAssumption has them.
SoundTables(man, imp) ==
  /\ IsFiniteSet(man) /\ IsFiniteSet(imp)
  /\ \A r \in man \cup imp : r.id \in Nat \ {0} /\ r.from \in Int /\ r.to \in Int /\ r.from < r.to
  /\ \A r, s \in man \cup imp : r.id = s.id => r = s
  /\ \A m \in man, i \in imp : m.id # i.id
  /\ \A i, j \in imp : i # j => i.to < j.from \/ j.to < i.from

Ids(man, imp) == {r.id : r \in man \cup imp}
Maps(ids) == [ids -> [from : Int, to : Int, number : Nat]]
Entries(ids) == [row : ids \cup {0}, from : Int, to : Int, number : Nat]
States(ids) == [maps : Maps(ids), answer : Seq(Entries(ids)), next : Nat]

\* What is in the answer, and what an entry will be listed as.
Has(st, e) == \E k \in DOMAIN st.answer : st.answer[k] = e
Listing(st, e) == IF e.row = 0 THEN e ELSE st.maps[e.row]

\* What is in a sequence that has got one more.
LEMMA Appended ==
  ASSUME NEW S, NEW s \in Seq(S), NEW x \in S
  PROVE  \A e : (\E k \in DOMAIN Append(s, x) : Append(s, x)[k] = e) <=> (\E k \in DOMAIN s : s[k] = e) \/ e = x
<1> DEFINE n == Len(s)
<1>1. /\ n \in Nat /\ DOMAIN s = 1 .. n
      /\ DOMAIN Append(s, x) = 1 .. n + 1
      /\ \A k \in 1 .. n : Append(s, x)[k] = s[k]
      /\ Append(s, x)[n + 1] = x
  OBVIOUS
<1>2. PICK t : t = Append(s, x)
  OBVIOUS
<1> HIDE DEF n
<1>3. \A k \in 1 .. n + 1 : k \in 1 .. n \/ k = n + 1
  BY <1>1
<1>4. 1 .. n \subseteq 1 .. n + 1 /\ n + 1 \in 1 .. n + 1
  BY <1>1
<1>5. \A e : (\E k \in DOMAIN t : t[k] = e) <=> (\E k \in DOMAIN s : s[k] = e) \/ e = x
  BY <1>1, <1>2, <1>3, <1>4
<1> QED
  BY <1>2, <1>5

\* The four changes of a state, as states.
LEMMA PushIs ==
  ASSUME NEW ids, NEW st \in States(ids), NEW row, row.id \in ids, 0 \notin ids
  PROVE  /\ Push(st, row) \in States(ids)
         /\ Push(st, row).next = st.next + 1
         /\ \A k \in ids :
              /\ Push(st, row).maps[k].from = st.maps[k].from
              /\ Push(st, row).maps[k].to = st.maps[k].to
              /\ Push(st, row).maps[k].number = IF k = row.id THEN st.next ELSE st.maps[k].number
         /\ \A e : Has(Push(st, row), e) <=> Has(st, e) \/ e = Ref(row)
<1>1. PICK maps \in Maps(ids), answer \in Seq(Entries(ids)), next \in Nat :
        st = [maps |-> maps, answer |-> answer, next |-> next]
  BY DEF States
<1>2. PICK more : more = [maps EXCEPT ![row.id].number = next]
  OBVIOUS
<1>3. PICK longer : longer = Append(answer, Ref(row))
  OBVIOUS
<1>4. Push(st, row) = [maps |-> more, answer |-> longer, next |-> next + 1]
  BY <1>1, <1>2, <1>3 DEF Push
<1>5. Ref(row) \in Entries(ids)
  BY DEF Ref, Entries
<1>6. more \in Maps(ids) /\ \A k \in ids : more[k] = IF k = row.id THEN [maps[k] EXCEPT !.number = next] ELSE maps[k]
  BY <1>2 DEF Maps
<1>7. longer \in Seq(Entries(ids))
  BY <1>3, <1>5
<1>8. Push(st, row) \in States(ids)
  BY <1>4, <1>6, <1>7 DEF States
<1>9. \A k \in ids : maps[k] \in [from : Int, to : Int, number : Nat]
  BY DEF Maps
<1>10. \A k \in ids :
        /\ more[k].from = maps[k].from
        /\ more[k].to = maps[k].to
        /\ more[k].number = IF k = row.id THEN next ELSE maps[k].number
  BY <1>6, <1>9
<1>11. \A e : (\E k \in DOMAIN longer : longer[k] = e) <=> (\E k \in DOMAIN answer : answer[k] = e) \/ e = Ref(row)
  BY <1>3, <1>5, Appended
<1>12. /\ Push(st, row).maps = more /\ Push(st, row).answer = longer /\ Push(st, row).next = next + 1
       /\ st.maps = maps /\ st.answer = answer /\ st.next = next
  BY <1>1, <1>4
<1>13. \A e : Has(Push(st, row), e) <=> Has(st, e) \/ e = Ref(row)
  BY <1>11, <1>12 DEF Has
<1> QED
  BY <1>8, <1>10, <1>12, <1>13

\* A half that is appended.
LEMMA PushHalfIs ==
  ASSUME NEW ids, NEW st \in States(ids), NEW from \in Int, NEW to \in Int, 0 \notin ids
  PROVE  /\ PushHalf(st, from, to) \in States(ids)
         /\ PushHalf(st, from, to).next = st.next + 1
         /\ PushHalf(st, from, to).maps = st.maps
         /\ \A e : Has(PushHalf(st, from, to), e) <=> Has(st, e) \/ e = Half(from, to, st.next)
<1>1. PICK maps \in Maps(ids), answer \in Seq(Entries(ids)), next \in Nat :
        st = [maps |-> maps, answer |-> answer, next |-> next]
  BY DEF States
<1>2. PICK longer : longer = Append(answer, Half(from, to, next))
  OBVIOUS
<1>3. PushHalf(st, from, to) = [maps |-> maps, answer |-> longer, next |-> next + 1]
  BY <1>1, <1>2 DEF PushHalf
<1>4. Half(from, to, next) \in Entries(ids)
  BY DEF Half, Entries
<1>5. PushHalf(st, from, to) \in States(ids)
  BY <1>2, <1>3, <1>4 DEF States
<1>6. \A e : (\E k \in DOMAIN longer : longer[k] = e) <=>
              (\E k \in DOMAIN answer : answer[k] = e) \/ e = Half(from, to, next)
  BY <1>2, <1>4, Appended
<1>7. /\ PushHalf(st, from, to).maps = maps /\ PushHalf(st, from, to).answer = longer
      /\ PushHalf(st, from, to).next = next + 1
      /\ st.maps = maps /\ st.answer = answer /\ st.next = next
  BY <1>1, <1>3
<1>8. \A e : Has(PushHalf(st, from, to), e) <=> Has(st, e) \/ e = Half(from, to, st.next)
  BY <1>6, <1>7 DEF Has
<1> QED
  BY <1>5, <1>7, <1>8

\* A map whose beginning is written.
LEMMA SetFromIs ==
  ASSUME NEW ids, NEW st \in States(ids), NEW row, row.id \in ids, NEW t \in Int
  PROVE  /\ SetFrom(st, row, t) \in States(ids)
         /\ SetFrom(st, row, t).next = st.next
         /\ SetFrom(st, row, t).answer = st.answer
         /\ \A k \in ids :
              /\ SetFrom(st, row, t).maps[k].from = (IF k = row.id THEN t ELSE st.maps[k].from)
              /\ SetFrom(st, row, t).maps[k].to = st.maps[k].to
              /\ SetFrom(st, row, t).maps[k].number = st.maps[k].number
<1>1. PICK maps \in Maps(ids), answer \in Seq(Entries(ids)), next \in Nat :
        st = [maps |-> maps, answer |-> answer, next |-> next]
  BY DEF States
<1>2. PICK f : f = [maps EXCEPT ![row.id].from = t]
  OBVIOUS
<1>3. SetFrom(st, row, t) = [maps |-> f, answer |-> answer, next |-> next]
  BY <1>1, <1>2 DEF SetFrom
<1>4. f \in Maps(ids)
  BY <1>2 DEF Maps
<1>5. SetFrom(st, row, t) \in States(ids)
  BY <1>3, <1>4 DEF States
<1>6. \A k \in ids : maps[k] \in [from : Int, to : Int, number : Nat]
  BY DEF Maps
<1>7. \A k \in ids : f[k] = IF k = row.id THEN [maps[k] EXCEPT !.from = t] ELSE maps[k]
  BY <1>2 DEF Maps
<1>8. \A k \in ids : /\ f[k].from = (IF k = row.id THEN t ELSE maps[k].from)
                     /\ f[k].to = maps[k].to /\ f[k].number = maps[k].number
  BY <1>6, <1>7
<1>9. /\ SetFrom(st, row, t).maps = f /\ SetFrom(st, row, t).answer = answer /\ SetFrom(st, row, t).next = next
      /\ st.maps = maps /\ st.answer = answer /\ st.next = next
  BY <1>1, <1>3
<1> QED
  BY <1>5, <1>8, <1>9

\* A map whose end is written.
LEMMA SetToIs ==
  ASSUME NEW ids, NEW st \in States(ids), NEW row, row.id \in ids, NEW t \in Int
  PROVE  /\ SetTo(st, row, t) \in States(ids)
         /\ SetTo(st, row, t).next = st.next
         /\ SetTo(st, row, t).answer = st.answer
         /\ \A k \in ids :
              /\ SetTo(st, row, t).maps[k].to = (IF k = row.id THEN t ELSE st.maps[k].to)
              /\ SetTo(st, row, t).maps[k].from = st.maps[k].from
              /\ SetTo(st, row, t).maps[k].number = st.maps[k].number
<1>1. PICK maps \in Maps(ids), answer \in Seq(Entries(ids)), next \in Nat :
        st = [maps |-> maps, answer |-> answer, next |-> next]
  BY DEF States
<1>2. PICK f : f = [maps EXCEPT ![row.id].to = t]
  OBVIOUS
<1>3. SetTo(st, row, t) = [maps |-> f, answer |-> answer, next |-> next]
  BY <1>1, <1>2 DEF SetTo
<1>4. f \in Maps(ids)
  BY <1>2 DEF Maps
<1>5. SetTo(st, row, t) \in States(ids)
  BY <1>3, <1>4 DEF States
<1>6. \A k \in ids : maps[k] \in [from : Int, to : Int, number : Nat]
  BY DEF Maps
<1>7. \A k \in ids : f[k] = IF k = row.id THEN [maps[k] EXCEPT !.to = t] ELSE maps[k]
  BY <1>2 DEF Maps
<1>8. \A k \in ids : /\ f[k].to = (IF k = row.id THEN t ELSE maps[k].to)
                     /\ f[k].from = maps[k].from /\ f[k].number = maps[k].number
  BY <1>6, <1>7
<1>9. /\ SetTo(st, row, t).maps = f /\ SetTo(st, row, t).answer = answer /\ SetTo(st, row, t).next = next
      /\ st.maps = maps /\ st.answer = answer /\ st.next = next
  BY <1>1, <1>3
<1> QED
  BY <1>5, <1>8, <1>9

\* g takes the places of a sequence from the last on, H what it has of the others.
FromMax(g, n, base, H) ==
  \A T \in SUBSET (1 .. n) : g[T] = IF T = {} THEN base ELSE H[<<Max(T), g[T \ {Max(T)}]>>]

\* Such a function exists.
LEMMA Iterates ==
  ASSUME NEW n \in Nat, NEW V, NEW base \in V, NEW H \in [(1 .. n) \X V -> V]
  PROVE  \E g \in [SUBSET (1 .. n) -> V] : FromMax(g, n, base, H)
<1>1. /\ IsFiniteSet(1 .. n) /\ Chooses(LastPlace(n), 1 .. n)
      /\ \A T \in SUBSET (1 .. n) : LastPlace(n)[T] = Max(T)
  BY LastIsChosen
<1>2. PICK g \in [SUBSET (1 .. n) -> V] : Takes(g, 1 .. n, LastPlace(n), base, H)
  BY <1>1, Recursion, Zenon
<1>3. FromMax(g, n, base, H)
  BY <1>1, <1>2 DEF Takes, FromMax
<1> QED
  BY <1>3

\* The three loops.
Wholly(new, base, s) == new = FoldLeft(Whole, base, s)
Resolved(new, base, man, s) == new = FoldLeft(LAMBDA st, imp : Resolve(st, man, imp), base, s)
Divided(new, base, imps, s) == new = FoldLeft(LAMBDA st, m : SplitAround(st, m, imps), base, s)

\* The loops' steps: h has the states that they go through, V is kept by every one.
WholeSteps(h, base, s, n, new) ==
  h[0] = base /\ (\A k \in 1 .. n : h[k] = Whole(h[k - 1], s[k])) /\ new = h[n]
ResolveSteps(h, base, man, s, n, new) ==
  h[0] = base /\ (\A k \in 1 .. n : h[k] = Resolve(h[k - 1], man, s[k])) /\ new = h[n]
SplitSteps(h, base, imps, s, n, new) ==
  h[0] = base /\ (\A k \in 1 .. n : h[k] = SplitAround(h[k - 1], s[k], imps)) /\ new = h[n]
WholesKeep(V, s, n) == DOMAIN s = 1 .. n /\ \A t \in V, k \in 1 .. n : Whole(t, s[k]) \in V
ResolvesKeep(V, man, s, n) == DOMAIN s = 1 .. n /\ \A t \in V, k \in 1 .. n : Resolve(t, man, s[k]) \in V
SplitsKeep(V, imps, s, n) == DOMAIN s = 1 .. n /\ \A t \in V, k \in 1 .. n : SplitAround(t, s[k], imps) \in V

\* The rows that are listed as they are, one after the other.
LEMMA Wholes ==
  ASSUME NEW V, NEW base \in V, NEW n \in Nat, NEW s, WholesKeep(V, s, n), NEW new, Wholly(new, base, s)
  PROVE  \E h : WholeSteps(h, base, s, n, new)
<1>0. DOMAIN s = 1 .. n /\ \A t \in V, k \in 1 .. n : Whole(t, s[k]) \in V
  BY DEF WholesKeep
<1> DEFINE Steps(it) == it = [T \in SUBSET DOMAIN s |-> IF T = {} THEN base ELSE Whole(it[T \ {Max(T)}], s[Max(T)])]
           H == [p \in (1 .. n) \X V |-> Whole(p[2], s[p[1]])]
           iter == CHOOSE it : Steps(it)
<1>1. new = iter[1 .. n]
  <2>1. new = (CHOOSE it : Steps(it))[DOMAIN s]
    BY Zenon DEF Wholly, FoldLeft, MapThenFoldSet
  <2> QED
    BY <1>0, <2>1
<1>2. H \in [(1 .. n) \X V -> V]
  BY <1>0
<1>3. PICK g \in [SUBSET (1 .. n) -> V] : FromMax(g, n, base, H)
  <2> HIDE DEF H
  <2> QED
    BY <1>2, Iterates
<1>4. \A T \in SUBSET (1 .. n) : g[T] = IF T = {} THEN base ELSE Whole(g[T \ {Max(T)}], s[Max(T)])
  <2>1. ASSUME NEW T \in SUBSET (1 .. n), T # {} PROVE g[T] = Whole(g[T \ {Max(T)}], s[Max(T)])
    <3>1. Max(T) \in 1 .. n /\ T \ {Max(T)} \in SUBSET (1 .. n)
      BY <2>1, LastIsChosen DEF Chooses
    <3>2. g[T \ {Max(T)}] \in V
      BY <3>1
    <3>3. g[T] = H[<<Max(T), g[T \ {Max(T)}]>>]
      <4> HIDE DEF H
      <4> QED
        BY <1>3, <2>1 DEF FromMax
    <3> QED
      BY <3>1, <3>2, <3>3
  <2>2. g[{}] = base
    BY <1>3 DEF FromMax
  <2> QED
    BY <2>1, <2>2
<1>5. Steps(g)
  BY <1>0, <1>4
<1>6. Steps(iter)
  <2> HIDE DEF Steps
  <2> QED
    BY <1>5
<1>7. \A T \in SUBSET (1 .. n) : iter[T] = IF T = {} THEN base ELSE Whole(iter[T \ {Max(T)}], s[Max(T)])
  <2> HIDE DEF iter
  <2> QED
    BY <1>0, <1>6
<1> HIDE DEF iter, H, Steps
<1> DEFINE h == [k \in 0 .. n |-> iter[1 .. k]]
<1>8. h[0] = base
  <2>1. 1 .. 0 = {} /\ 0 \in 0 .. n /\ {} \in SUBSET (1 .. n)
    OBVIOUS
  <2> QED
    BY <1>7, <2>1
<1>9. ASSUME NEW k \in 1 .. n PROVE h[k] = Whole(h[k - 1], s[k])
  <2>1. Max(1 .. k) = k /\ (1 .. k) \ {k} = 1 .. (k - 1)
    BY LastIsChosen
  <2>2. 1 .. k \in SUBSET (1 .. n) /\ 1 .. k # {} /\ k - 1 \in 0 .. n /\ k \in 0 .. n
    <3>1. k \in 1 .. k /\ \A j \in 1 .. k : j \in 1 .. n
      OBVIOUS
    <3>2. 1 .. k \in SUBSET (1 .. n) /\ 1 .. k # {}
      BY <3>1
    <3>3. k - 1 \in 0 .. n /\ k \in 0 .. n
      OBVIOUS
    <3> QED
      BY <3>2, <3>3
  <2>3. iter[1 .. k] = Whole(iter[1 .. (k - 1)], s[k])
    BY <1>7, <2>1, <2>2
  <2> QED
    BY <2>2, <2>3
<1>10. new = h[n]
  <2>1. n \in 0 .. n
    OBVIOUS
  <2> QED
    BY <1>1, <2>1
<1> HIDE DEF h
<1> QED
  BY <1>8, <1>9, <1>10 DEF WholeSteps

\* The imported rows in one manual row, one after the other.
LEMMA Resolves ==
  ASSUME NEW V, NEW base \in V, NEW n \in Nat, NEW s, NEW man, ResolvesKeep(V, man, s, n), NEW new, Resolved(new, base, man, s)
  PROVE  \E h : ResolveSteps(h, base, man, s, n, new)
<1>0. DOMAIN s = 1 .. n /\ \A t \in V, k \in 1 .. n : Resolve(t, man, s[k]) \in V
  BY DEF ResolvesKeep
<1> DEFINE Steps(it) == it = [T \in SUBSET DOMAIN s |-> IF T = {} THEN base ELSE Resolve(it[T \ {Max(T)}], man, s[Max(T)])]
           H == [p \in (1 .. n) \X V |-> Resolve(p[2], man, s[p[1]])]
           iter == CHOOSE it : Steps(it)
<1>1. new = iter[1 .. n]
  <2>1. new = (CHOOSE it : Steps(it))[DOMAIN s]
    BY Zenon DEF Resolved, FoldLeft, MapThenFoldSet
  <2> QED
    BY <1>0, <2>1
<1>2. H \in [(1 .. n) \X V -> V]
  BY <1>0
<1>3. PICK g \in [SUBSET (1 .. n) -> V] : FromMax(g, n, base, H)
  <2> HIDE DEF H
  <2> QED
    BY <1>2, Iterates
<1>4. \A T \in SUBSET (1 .. n) : g[T] = IF T = {} THEN base ELSE Resolve(g[T \ {Max(T)}], man, s[Max(T)])
  <2>1. ASSUME NEW T \in SUBSET (1 .. n), T # {} PROVE g[T] = Resolve(g[T \ {Max(T)}], man, s[Max(T)])
    <3>1. Max(T) \in 1 .. n /\ T \ {Max(T)} \in SUBSET (1 .. n)
      BY <2>1, LastIsChosen DEF Chooses
    <3>2. g[T \ {Max(T)}] \in V
      BY <3>1
    <3>3. g[T] = H[<<Max(T), g[T \ {Max(T)}]>>]
      <4> HIDE DEF H
      <4> QED
        BY <1>3, <2>1 DEF FromMax
    <3> QED
      BY <3>1, <3>2, <3>3
  <2>2. g[{}] = base
    BY <1>3 DEF FromMax
  <2> QED
    BY <2>1, <2>2
<1>5. Steps(g)
  BY <1>0, <1>4
<1>6. Steps(iter)
  <2> HIDE DEF Steps
  <2> QED
    BY <1>5
<1>7. \A T \in SUBSET (1 .. n) : iter[T] = IF T = {} THEN base ELSE Resolve(iter[T \ {Max(T)}], man, s[Max(T)])
  <2> HIDE DEF iter
  <2> QED
    BY <1>0, <1>6
<1> HIDE DEF iter, H, Steps
<1> DEFINE h == [k \in 0 .. n |-> iter[1 .. k]]
<1>8. h[0] = base
  <2>1. 1 .. 0 = {} /\ 0 \in 0 .. n /\ {} \in SUBSET (1 .. n)
    OBVIOUS
  <2> QED
    BY <1>7, <2>1
<1>9. ASSUME NEW k \in 1 .. n PROVE h[k] = Resolve(h[k - 1], man, s[k])
  <2>1. Max(1 .. k) = k /\ (1 .. k) \ {k} = 1 .. (k - 1)
    BY LastIsChosen
  <2>2. 1 .. k \in SUBSET (1 .. n) /\ 1 .. k # {} /\ k - 1 \in 0 .. n /\ k \in 0 .. n
    <3>1. k \in 1 .. k /\ \A j \in 1 .. k : j \in 1 .. n
      OBVIOUS
    <3>2. 1 .. k \in SUBSET (1 .. n) /\ 1 .. k # {}
      BY <3>1
    <3>3. k - 1 \in 0 .. n /\ k \in 0 .. n
      OBVIOUS
    <3> QED
      BY <3>2, <3>3
  <2>3. iter[1 .. k] = Resolve(iter[1 .. (k - 1)], man, s[k])
    BY <1>7, <2>1, <2>2
  <2> QED
    BY <2>2, <2>3
<1>10. new = h[n]
  <2>1. n \in 0 .. n
    OBVIOUS
  <2> QED
    BY <1>1, <2>1
<1> HIDE DEF h
<1> QED
  BY <1>8, <1>9, <1>10 DEF ResolveSteps

\* The manual rows that are split, one after the other.
LEMMA Splits ==
  ASSUME NEW V, NEW base \in V, NEW n \in Nat, NEW s, NEW imps, SplitsKeep(V, imps, s, n), NEW new, Divided(new, base, imps, s)
  PROVE  \E h : SplitSteps(h, base, imps, s, n, new)
<1>0. DOMAIN s = 1 .. n /\ \A t \in V, k \in 1 .. n : SplitAround(t, s[k], imps) \in V
  BY DEF SplitsKeep
<1> DEFINE Steps(it) == it = [T \in SUBSET DOMAIN s |-> IF T = {} THEN base ELSE SplitAround(it[T \ {Max(T)}], s[Max(T)], imps)]
           H == [p \in (1 .. n) \X V |-> SplitAround(p[2], s[p[1]], imps)]
           iter == CHOOSE it : Steps(it)
<1>1. new = iter[1 .. n]
  <2>1. new = (CHOOSE it : Steps(it))[DOMAIN s]
    BY Zenon DEF Divided, FoldLeft, MapThenFoldSet
  <2> QED
    BY <1>0, <2>1
<1>2. H \in [(1 .. n) \X V -> V]
  BY <1>0
<1>3. PICK g \in [SUBSET (1 .. n) -> V] : FromMax(g, n, base, H)
  <2> HIDE DEF H
  <2> QED
    BY <1>2, Iterates
<1>4. \A T \in SUBSET (1 .. n) : g[T] = IF T = {} THEN base ELSE SplitAround(g[T \ {Max(T)}], s[Max(T)], imps)
  <2>1. ASSUME NEW T \in SUBSET (1 .. n), T # {} PROVE g[T] = SplitAround(g[T \ {Max(T)}], s[Max(T)], imps)
    <3>1. Max(T) \in 1 .. n /\ T \ {Max(T)} \in SUBSET (1 .. n)
      BY <2>1, LastIsChosen DEF Chooses
    <3>2. g[T \ {Max(T)}] \in V
      BY <3>1
    <3>3. g[T] = H[<<Max(T), g[T \ {Max(T)}]>>]
      <4> HIDE DEF H
      <4> QED
        BY <1>3, <2>1 DEF FromMax
    <3> QED
      BY <3>1, <3>2, <3>3
  <2>2. g[{}] = base
    BY <1>3 DEF FromMax
  <2> QED
    BY <2>1, <2>2
<1>5. Steps(g)
  BY <1>0, <1>4
<1>6. Steps(iter)
  <2> HIDE DEF Steps
  <2> QED
    BY <1>5
<1>7. \A T \in SUBSET (1 .. n) : iter[T] = IF T = {} THEN base ELSE SplitAround(iter[T \ {Max(T)}], s[Max(T)], imps)
  <2> HIDE DEF iter
  <2> QED
    BY <1>0, <1>6
<1> HIDE DEF iter, H, Steps
<1> DEFINE h == [k \in 0 .. n |-> iter[1 .. k]]
<1>8. h[0] = base
  <2>1. 1 .. 0 = {} /\ 0 \in 0 .. n /\ {} \in SUBSET (1 .. n)
    OBVIOUS
  <2> QED
    BY <1>7, <2>1
<1>9. ASSUME NEW k \in 1 .. n PROVE h[k] = SplitAround(h[k - 1], s[k], imps)
  <2>1. Max(1 .. k) = k /\ (1 .. k) \ {k} = 1 .. (k - 1)
    BY LastIsChosen
  <2>2. 1 .. k \in SUBSET (1 .. n) /\ 1 .. k # {} /\ k - 1 \in 0 .. n /\ k \in 0 .. n
    <3>1. k \in 1 .. k /\ \A j \in 1 .. k : j \in 1 .. n
      OBVIOUS
    <3>2. 1 .. k \in SUBSET (1 .. n) /\ 1 .. k # {}
      BY <3>1
    <3>3. k - 1 \in 0 .. n /\ k \in 0 .. n
      OBVIOUS
    <3> QED
      BY <3>2, <3>3
  <2>3. iter[1 .. k] = SplitAround(iter[1 .. (k - 1)], s[k], imps)
    BY <1>7, <2>1, <2>2
  <2> QED
    BY <2>2, <2>3
<1>10. new = h[n]
  <2>1. n \in 0 .. n
    OBVIOUS
  <2> QED
    BY <1>1, <2>1
<1> HIDE DEF h
<1> QED
  BY <1>8, <1>9, <1>10 DEF SplitSteps

\* What holds of the loop's states: imported rows are as in the table, manual ones
\* at most cut, a half is of a manual row; the numbers given so far are different.
Sane(st, man, imp) ==
  /\ st \in States(Ids(man, imp))
  /\ \A i \in imp : st.maps[i.id].from = i.from /\ st.maps[i.id].to = i.to
  /\ \A m \in man : st.maps[m.id].from >= m.from /\ st.maps[m.id].to <= m.to
  /\ \A e : Has(st, e) =>
       /\ Listing(st, e).number < st.next
       /\ e.row # 0 => e = [row |-> e.row, from |-> 0, to |-> 0, number |-> 0]
       /\ e.row = 0 => \E m \in man : Within(e, m)
  /\ \A e, f : Has(st, e) /\ Has(st, f) /\ Listing(st, e).number = Listing(st, f).number => e = f

\* The rows of the tables, by their ids.
LEMMA IdTypes ==
  ASSUME NEW man, NEW imp, SoundTables(man, imp)
  PROVE  /\ 0 \notin Ids(man, imp)
         /\ \A r \in man \cup imp : r.id \in Ids(man, imp) /\ r.from \in Int /\ r.to \in Int /\ r.from < r.to
         /\ \A m \in man, i \in imp : m.id # i.id
         /\ \A r, s \in man \cup imp : r.id = s.id => r = s
BY DEF SoundTables, Ids

\* The parts of a state of the loop.
LEMMA StateTypes ==
  ASSUME NEW ids, NEW st \in States(ids)
  PROVE  /\ st.next \in Nat
         /\ \A k \in ids : st.maps[k].from \in Int /\ st.maps[k].to \in Int /\ st.maps[k].number \in Nat
         /\ \A e : Has(st, e) => /\ e.row \in ids \cup {0} /\ e.from \in Int /\ e.to \in Int /\ e.number \in Nat
                                 /\ e = [row |-> e.row, from |-> e.from, to |-> e.to, number |-> e.number]
<1>1. PICK maps \in Maps(ids), answer \in Seq(Entries(ids)), next \in Nat :
        st = [maps |-> maps, answer |-> answer, next |-> next]
  BY DEF States
<1>2. st.maps = maps /\ st.answer = answer /\ st.next = next
  BY <1>1
<1>3. \A k \in ids : maps[k] \in [from : Int, to : Int, number : Nat]
  BY DEF Maps
<1>4. ASSUME NEW e, Has(st, e) PROVE e \in Entries(ids)
  <2>1. PICK k \in DOMAIN answer : answer[k] = e
    BY <1>2, <1>4 DEF Has
  <2> QED
    BY <2>1
<1> QED
  BY <1>2, <1>3, <1>4 DEF Entries

\* The four changes of a state keep what holds of all states.
LEMMA PushSane ==
  ASSUME NEW man, NEW imp, SoundTables(man, imp), NEW st, Sane(st, man, imp), NEW row \in man \cup imp
  PROVE  Sane(Push(st, row), man, imp)
<1> DEFINE ids == Ids(man, imp)
<1>1. st \in States(ids) /\ 0 \notin ids /\ row.id \in ids /\ \A r \in man \cup imp : r.id \in ids
  BY IdTypes DEF Sane
<1> HIDE DEF ids
<1>2. PICK new : new = Push(st, row)
  OBVIOUS
<1>3. /\ new \in States(ids) /\ new.next = st.next + 1
      /\ \A k \in ids : new.maps[k].from = st.maps[k].from /\ new.maps[k].to = st.maps[k].to
      /\ \A k \in ids : new.maps[k].number = IF k = row.id THEN st.next ELSE st.maps[k].number
      /\ \A e : Has(new, e) <=> Has(st, e) \/ e = Ref(row)
  BY <1>1, <1>2, PushIs
<1>4. \A i \in imp : new.maps[i.id].from = i.from /\ new.maps[i.id].to = i.to
  BY <1>1, <1>3 DEF Sane
<1>5. \A m \in man : new.maps[m.id].from >= m.from /\ new.maps[m.id].to <= m.to
  BY <1>1, <1>3 DEF Sane
<1>6. st.next \in Nat /\ \A e : Has(st, e) => e.row \in ids \cup {0} /\ e.number \in Nat
  BY <1>1, StateTypes
<1>7. \A k \in ids : st.maps[k].number \in Nat
  BY <1>1, StateTypes
<1>8. Ref(row) = [row |-> row.id, from |-> 0, to |-> 0, number |-> 0] /\ Ref(row).row = row.id /\ row.id # 0
  BY <1>1 DEF Ref
<1>9. ASSUME NEW e, Has(new, e)
      PROVE  /\ e.row = row.id => e = Ref(row) /\ Listing(new, e).number = st.next
             /\ e.row # row.id => Has(st, e) /\ Listing(new, e).number = Listing(st, e).number
                                  /\ Listing(st, e).number < st.next /\ Listing(st, e).number \in Nat
             /\ e.row # 0 => e = [row |-> e.row, from |-> 0, to |-> 0, number |-> 0]
             /\ e.row = 0 => \E m \in man : Within(e, m)
  <2>1. CASE e.row = row.id
    <3>1. e = Ref(row)
      BY <1>3, <1>8, <1>9, <2>1 DEF Sane
    <3>2. Listing(new, e).number = st.next
      BY <1>1, <1>3, <1>8, <2>1 DEF Listing
    <3> QED
      BY <1>8, <2>1, <3>1, <3>2
  <2>2. CASE e.row # row.id
    <3>1. Has(st, e)
      BY <1>3, <1>8, <1>9, <2>2
    <3>2. Listing(new, e).number = Listing(st, e).number /\ Listing(st, e).number \in Nat
      BY <1>3, <1>6, <1>7, <2>2, <3>1 DEF Listing
    <3> QED
      BY <2>2, <3>1, <3>2 DEF Sane
  <2> QED
    BY <2>1, <2>2
<1>10. \A e : Has(new, e) => Listing(new, e).number < new.next
  BY <1>3, <1>6, <1>9
<1>11. ASSUME NEW e, NEW f, Has(new, e), Has(new, f), Listing(new, e).number = Listing(new, f).number
       PROVE  e = f
  BY <1>6, <1>9, <1>11 DEF Sane
<1>12. new \in States(Ids(man, imp))
  BY <1>3 DEF ids
<1>13. Sane(new, man, imp)
  BY <1>4, <1>5, <1>9, <1>10, <1>11, <1>12 DEF Sane
<1> QED
  BY <1>2, <1>13

\* A half of a manual row.
LEMMA PushHalfSane ==
  ASSUME NEW man, NEW imp, SoundTables(man, imp), NEW st, Sane(st, man, imp),
         NEW from \in Int, NEW to \in Int, NEW m \in man, from >= m.from, to <= m.to
  PROVE  Sane(PushHalf(st, from, to), man, imp)
<1> DEFINE ids == Ids(man, imp)
<1>1. st \in States(ids) /\ 0 \notin ids
  BY IdTypes DEF Sane
<1> HIDE DEF ids
<1>2. PICK new : new = PushHalf(st, from, to)
  OBVIOUS
<1>3. PICK half : half = Half(from, to, st.next)
  OBVIOUS
<1>4. /\ new \in States(ids) /\ new.next = st.next + 1 /\ new.maps = st.maps
      /\ \A e : Has(new, e) <=> Has(st, e) \/ e = half
  BY <1>1, <1>2, <1>3, PushHalfIs
<1>5. st.next \in Nat /\ \A e : Has(st, e) => e.row \in ids \cup {0} /\ e.number \in Nat
  BY <1>1, StateTypes
<1>6. \A k \in ids : st.maps[k].number \in Nat
  BY <1>1, StateTypes
<1>7. half.row = 0 /\ half.from = from /\ half.to = to /\ half.number = st.next
  BY <1>3 DEF Half
<1>8. \A e : Listing(new, e) = Listing(st, e)
  BY <1>4 DEF Listing
<1>9. Listing(st, half).number = st.next /\ Within(half, m)
  BY <1>7 DEF Listing, Within
<1>10. \A e : Has(st, e) => Listing(st, e).number \in Nat /\ Listing(st, e).number < st.next
  BY <1>5, <1>6 DEF Listing, Sane
<1>11. ASSUME NEW e, Has(new, e)
       PROVE  /\ Listing(new, e).number < new.next
              /\ e.row # 0 => e = [row |-> e.row, from |-> 0, to |-> 0, number |-> 0]
              /\ e.row = 0 => \E n \in man : Within(e, n)
  <2>1. CASE Has(st, e)
    BY <1>4, <1>5, <1>8, <1>10, <2>1 DEF Sane
  <2>2. CASE e = half
    BY <1>4, <1>5, <1>7, <1>8, <1>9, <2>2
  <2> QED
    BY <1>4, <1>11, <2>1, <2>2
<1>12. ASSUME NEW e, NEW f, Has(new, e), Has(new, f), Listing(new, e).number = Listing(new, f).number
       PROVE  e = f
  <2>1. (Has(st, e) \/ e = half) /\ (Has(st, f) \/ f = half)
    BY <1>4, <1>12
  <2>2. Listing(st, e).number = Listing(st, f).number
    BY <1>8, <1>12
  <2>3. CASE Has(st, e) /\ Has(st, f)
    BY <2>2, <2>3 DEF Sane
  <2> QED
    BY <1>5, <1>9, <1>10, <2>1, <2>2, <2>3
<1>13. Sane(new, man, imp)
  BY <1>4, <1>11, <1>12 DEF Sane, ids
<1> QED
  BY <1>2, <1>13

\* A manual row that is cut at its beginning.
LEMMA SetFromSane ==
  ASSUME NEW man, NEW imp, SoundTables(man, imp), NEW st, Sane(st, man, imp),
         NEW m \in man, NEW t \in Int, t >= m.from
  PROVE  Sane(SetFrom(st, m, t), man, imp)
<1> DEFINE ids == Ids(man, imp)
<1>1. st \in States(ids) /\ m.id \in ids /\ \A r \in man \cup imp : r.id \in ids
  BY IdTypes DEF Sane
<1> HIDE DEF ids
<1>2. PICK new : new = SetFrom(st, m, t)
  OBVIOUS
<1>3. /\ new \in States(ids) /\ new.next = st.next /\ new.answer = st.answer
      /\ \A k \in ids : /\ new.maps[k].from = (IF k = m.id THEN t ELSE st.maps[k].from)
                        /\ new.maps[k].to = st.maps[k].to /\ new.maps[k].number = st.maps[k].number
  BY <1>1, <1>2, SetFromIs
<1>4. \A e : Has(new, e) <=> Has(st, e)
  BY <1>3 DEF Has
<1>5. \A e : Has(st, e) => Listing(new, e).number = Listing(st, e).number
  <2>1. \A e : Has(st, e) => e.row \in ids \cup {0}
    BY <1>1, StateTypes
  <2> QED
    BY <1>3, <2>1 DEF Listing
<1>6. \A i \in imp : new.maps[i.id].from = i.from /\ new.maps[i.id].to = i.to
  BY <1>1, <1>3, IdTypes DEF Sane
<1>7. \A n \in man : new.maps[n.id].from >= n.from /\ new.maps[n.id].to <= n.to
  BY <1>1, <1>3, IdTypes DEF Sane
<1>8. Sane(new, man, imp)
  BY <1>3, <1>4, <1>5, <1>6, <1>7 DEF Sane, ids
<1> QED
  BY <1>2, <1>8

\* A manual row that is cut at its end.
LEMMA SetToSane ==
  ASSUME NEW man, NEW imp, SoundTables(man, imp), NEW st, Sane(st, man, imp),
         NEW m \in man, NEW t \in Int, t <= m.to
  PROVE  Sane(SetTo(st, m, t), man, imp)
<1> DEFINE ids == Ids(man, imp)
<1>1. st \in States(ids) /\ m.id \in ids /\ \A r \in man \cup imp : r.id \in ids
  BY IdTypes DEF Sane
<1> HIDE DEF ids
<1>2. PICK new : new = SetTo(st, m, t)
  OBVIOUS
<1>3. /\ new \in States(ids) /\ new.next = st.next /\ new.answer = st.answer
      /\ \A k \in ids : /\ new.maps[k].to = (IF k = m.id THEN t ELSE st.maps[k].to)
                        /\ new.maps[k].from = st.maps[k].from /\ new.maps[k].number = st.maps[k].number
  BY <1>1, <1>2, SetToIs
<1>4. \A e : Has(new, e) <=> Has(st, e)
  BY <1>3 DEF Has
<1>5. \A e : Has(st, e) => Listing(new, e).number = Listing(st, e).number
  <2>1. \A e : Has(st, e) => e.row \in ids \cup {0}
    BY <1>1, StateTypes
  <2> QED
    BY <1>3, <2>1 DEF Listing
<1>6. \A i \in imp : new.maps[i.id].from = i.from /\ new.maps[i.id].to = i.to
  BY <1>1, <1>3, IdTypes DEF Sane
<1>7. \A n \in man : new.maps[n.id].from >= n.from /\ new.maps[n.id].to <= n.to
  BY <1>1, <1>3, IdTypes DEF Sane
<1>8. Sane(new, man, imp)
  BY <1>3, <1>4, <1>5, <1>6, <1>7 DEF Sane, ids
<1> QED
  BY <1>2, <1>8

-----------------------------------------------------------------------------
\* Ranges of rows that are as they were.
SameRanges(new, st, ids) == \A k \in ids : new.maps[k].from = st.maps[k].from /\ new.maps[k].to = st.maps[k].to

\* The imported row lies inside.
LEMMA SplitInTwoIs ==
  ASSUME NEW man, NEW imp, SoundTables(man, imp), NEW st, Sane(st, man, imp),
         NEW m \in man, NEW i \in imp, i.from <= m.to, i.to >= m.from
  PROVE  /\ Sane(SplitInTwo(st, m, i), man, imp)
         /\ \A k \in Ids(man, imp) :
              /\ SplitInTwo(st, m, i).maps[k].from = (IF k = m.id THEN i.to ELSE st.maps[k].from)
              /\ SplitInTwo(st, m, i).maps[k].to = st.maps[k].to
         /\ \A e : Has(SplitInTwo(st, m, i), e) <=>
                     Has(st, e) \/ e = Half(st.maps[m.id].from, i.from, st.next) \/ e = Ref(i)
<1> DEFINE ids == Ids(man, imp)
<1>1. /\ st \in States(ids) /\ 0 \notin ids /\ m.id \in ids /\ i.id \in ids
      /\ m.from \in Int /\ m.to \in Int /\ i.from \in Int /\ i.to \in Int
  BY IdTypes DEF Sane
<1> HIDE DEF ids
<1>2. PICK from \in Int, to \in Int, cutTo \in Int : from = st.maps[m.id].from /\ to = i.from /\ cutTo = i.to
  BY <1>1, StateTypes
<1>a. PICK half : half = PushHalf(st, from, to)
  OBVIOUS
<1>3. from >= m.from /\ to <= m.to /\ cutTo >= m.from
  BY <1>1, <1>2 DEF Sane
<1>4. /\ half \in States(ids) /\ half.maps = st.maps
      /\ \A e : Has(half, e) <=> Has(st, e) \/ e = Half(from, to, st.next)
  BY <1>1, <1>a, PushHalfIs
<1>5. Sane(half, man, imp)
  BY <1>3, <1>a, PushHalfSane
<1>6. PICK cut : cut = SetFrom(half, m, cutTo)
  OBVIOUS
<1>7. /\ cut \in States(ids) /\ cut.answer = half.answer
      /\ \A k \in ids : cut.maps[k].from = (IF k = m.id THEN cutTo ELSE half.maps[k].from) /\ cut.maps[k].to = half.maps[k].to
  <2>1. half \in States(ids) /\ m.id \in ids /\ cutTo \in Int
    BY <1>1, <1>2, <1>4
  <2> QED
    BY <1>6, <2>1, SetFromIs
<1>8. Sane(cut, man, imp)
  BY <1>3, <1>5, <1>6, SetFromSane
<1>9. PICK new : new = Push(cut, i)
  OBVIOUS
<1>10. /\ \A k \in ids : new.maps[k].from = cut.maps[k].from /\ new.maps[k].to = cut.maps[k].to
       /\ \A e : Has(new, e) <=> Has(cut, e) \/ e = Ref(i)
  BY <1>1, <1>7, <1>9, PushIs
<1>11. Sane(new, man, imp)
  BY <1>8, <1>9, PushSane
<1>12. \A e : Has(cut, e) <=> Has(half, e)
  BY <1>7 DEF Has
<1>13. new = SplitInTwo(st, m, i)
  BY <1>2, <1>a, <1>6, <1>9 DEF SplitInTwo
<1>14. \A k \in ids : new.maps[k].from = (IF k = m.id THEN i.to ELSE st.maps[k].from) /\ new.maps[k].to = st.maps[k].to
  BY <1>2, <1>4, <1>7, <1>10
<1>15. \A e : Has(new, e) <=> Has(st, e) \/ e = Half(st.maps[m.id].from, i.from, st.next) \/ e = Ref(i)
  BY <1>2, <1>4, <1>10, <1>12
<1> QED
  BY <1>11, <1>13, <1>14, <1>15 DEF ids

\* The imported row reaches the end.
LEMMA CutEndIs ==
  ASSUME NEW man, NEW imp, SoundTables(man, imp), NEW st, Sane(st, man, imp),
         NEW m \in man, NEW i \in imp, i.from <= m.to
  PROVE  /\ Sane(CutEnd(st, m, i), man, imp)
         /\ \A k \in Ids(man, imp) :
              /\ CutEnd(st, m, i).maps[k].to = (IF k = m.id THEN i.from ELSE st.maps[k].to)
              /\ CutEnd(st, m, i).maps[k].from = st.maps[k].from
         /\ \A e : Has(CutEnd(st, m, i), e) <=> Has(st, e) \/ e = Ref(m) \/ e = Ref(i)
<1> DEFINE ids == Ids(man, imp)
<1>1. /\ st \in States(ids) /\ 0 \notin ids /\ m.id \in ids /\ i.id \in ids /\ i.from \in Int
  BY IdTypes DEF Sane
<1> HIDE DEF ids
<1>t. PICK t \in Int : t = i.from
  BY <1>1
<1>2. PICK cut : cut = SetTo(st, m, t)
  OBVIOUS
<1>3. /\ cut \in States(ids) /\ cut.answer = st.answer
      /\ \A k \in ids : cut.maps[k].to = (IF k = m.id THEN t ELSE st.maps[k].to) /\ cut.maps[k].from = st.maps[k].from
  BY <1>1, <1>2, <1>t, SetToIs
<1>4. Sane(cut, man, imp)
  BY <1>2, <1>t, SetToSane
<1>5. PICK one : one = Push(cut, m)
  OBVIOUS
<1>6. /\ one \in States(ids)
      /\ \A k \in ids : one.maps[k].from = cut.maps[k].from /\ one.maps[k].to = cut.maps[k].to
      /\ \A e : Has(one, e) <=> Has(cut, e) \/ e = Ref(m)
  BY <1>1, <1>3, <1>5, PushIs
<1>7. Sane(one, man, imp)
  BY <1>4, <1>5, PushSane
<1>8. PICK new : new = Push(one, i)
  OBVIOUS
<1>9. /\ \A k \in ids : new.maps[k].from = one.maps[k].from /\ new.maps[k].to = one.maps[k].to
      /\ \A e : Has(new, e) <=> Has(one, e) \/ e = Ref(i)
  BY <1>1, <1>6, <1>8, PushIs
<1>10. Sane(new, man, imp)
  BY <1>7, <1>8, PushSane
<1>11. new = CutEnd(st, m, i)
  BY <1>2, <1>5, <1>8, <1>t DEF CutEnd
<1>12. \A k \in ids : new.maps[k].to = (IF k = m.id THEN i.from ELSE st.maps[k].to) /\ new.maps[k].from = st.maps[k].from
  BY <1>3, <1>6, <1>9, <1>t
<1>13. \A e : Has(new, e) <=> Has(st, e) \/ e = Ref(m) \/ e = Ref(i)
  <2>1. \A e : Has(cut, e) <=> Has(st, e)
    BY <1>3 DEF Has
  <2> QED
    BY <1>6, <1>9, <2>1
<1> QED
  BY <1>10, <1>11, <1>12, <1>13 DEF ids

\* The imported row begins the manual one.
LEMMA CutStartIs ==
  ASSUME NEW man, NEW imp, SoundTables(man, imp), NEW st, Sane(st, man, imp),
         NEW m \in man, NEW i \in imp, i.to >= m.from
  PROVE  /\ Sane(CutStart(st, m, i), man, imp)
         /\ \A k \in Ids(man, imp) :
              /\ CutStart(st, m, i).maps[k].from = (IF k = m.id THEN i.to ELSE st.maps[k].from)
              /\ CutStart(st, m, i).maps[k].to = st.maps[k].to
         /\ \A e : Has(CutStart(st, m, i), e) <=> Has(st, e) \/ e = Ref(i) \/ e = Ref(m)
<1> DEFINE ids == Ids(man, imp)
<1>1. /\ st \in States(ids) /\ 0 \notin ids /\ m.id \in ids /\ i.id \in ids /\ i.to \in Int
  BY IdTypes DEF Sane
<1> HIDE DEF ids
<1>2. PICK one : one = Push(st, i)
  OBVIOUS
<1>3. /\ one \in States(ids)
      /\ \A k \in ids : one.maps[k].from = st.maps[k].from /\ one.maps[k].to = st.maps[k].to
      /\ \A e : Has(one, e) <=> Has(st, e) \/ e = Ref(i)
  BY <1>1, <1>2, PushIs
<1>4. Sane(one, man, imp)
  BY <1>2, PushSane
<1>t. PICK t \in Int : t = i.to
  BY <1>1
<1>5. PICK cut : cut = SetFrom(one, m, t)
  OBVIOUS
<1>6. /\ cut \in States(ids) /\ cut.answer = one.answer
      /\ \A k \in ids : cut.maps[k].from = (IF k = m.id THEN t ELSE one.maps[k].from) /\ cut.maps[k].to = one.maps[k].to
  <2>1. one \in States(ids) /\ m.id \in ids /\ t \in Int
    BY <1>1, <1>3
  <2> QED
    BY <1>5, <2>1, SetFromIs
<1>7. Sane(cut, man, imp)
  BY <1>4, <1>5, <1>t, SetFromSane
<1>8. PICK new : new = Push(cut, m)
  OBVIOUS
<1>9. /\ \A k \in ids : new.maps[k].from = cut.maps[k].from /\ new.maps[k].to = cut.maps[k].to
      /\ \A e : Has(new, e) <=> Has(cut, e) \/ e = Ref(m)
  BY <1>1, <1>6, <1>8, PushIs
<1>10. Sane(new, man, imp)
  BY <1>7, <1>8, PushSane
<1>11. new = CutStart(st, m, i)
  BY <1>2, <1>5, <1>8, <1>t DEF CutStart
<1>12. \A k \in ids : new.maps[k].from = (IF k = m.id THEN i.to ELSE st.maps[k].from) /\ new.maps[k].to = st.maps[k].to
  BY <1>3, <1>6, <1>9, <1>t
<1>13. \A e : Has(new, e) <=> Has(st, e) \/ e = Ref(i) \/ e = Ref(m)
  <2>1. \A e : Has(cut, e) <=> Has(one, e)
    BY <1>6 DEF Has
  <2> QED
    BY <1>3, <1>9, <2>1
<1> QED
  BY <1>10, <1>11, <1>12, <1>13 DEF ids

\* A row that is listed as it is.
LEMMA PushKeeps ==
  ASSUME NEW man, NEW imp, SoundTables(man, imp), NEW st, Sane(st, man, imp), NEW row \in man \cup imp
  PROVE  /\ Sane(Push(st, row), man, imp)
         /\ SameRanges(Push(st, row), st, Ids(man, imp))
         /\ \A e : Has(Push(st, row), e) <=> Has(st, e) \/ e = Ref(row)
<1>1. st \in States(Ids(man, imp)) /\ 0 \notin Ids(man, imp) /\ row.id \in Ids(man, imp)
  BY IdTypes DEF Sane
<1> QED
  BY <1>1, PushIs, PushSane DEF SameRanges

\* What holds of a row of the imported calendar that is tried on a manual row,
\* however they lie: nothing is taken back, the imported row is in the answer.
Adds(new, st, man, imp, m) ==
  /\ Sane(new, man, imp)
  /\ \A e : Has(st, e) => Has(new, e)
  /\ \A e : Has(new, e) => Has(st, e) \/ e.row = 0 \/ e = Ref(m) \/ \E i \in imp : e = Ref(i)
  /\ \A n \in man : n # m => new.maps[n.id].from = st.maps[n.id].from /\ new.maps[n.id].to = st.maps[n.id].to

\* One imported row on a manual one, however they lie.
LEMMA ResolveAdds ==
  ASSUME NEW man, NEW imp, SoundTables(man, imp), NEW st, Sane(st, man, imp), NEW m \in man, NEW i \in imp
  PROVE  Adds(Resolve(st, m, i), st, man, imp, m) /\ Has(Resolve(st, m, i), Ref(i))
<1>1. /\ \A r \in man \cup imp : r.id \in Ids(man, imp) /\ r.from \in Int /\ r.to \in Int /\ r.from < r.to
      /\ \A r, s \in man \cup imp : r.id = s.id => r = s
      /\ \A f, t, k : Half(f, t, k).row = 0
  BY IdTypes DEF Half
<1>2. CASE i.from > m.from /\ i.to < m.to
  <2>1. Resolve(st, m, i) = SplitInTwo(st, m, i)
    BY <1>1, <1>2 DEF Resolve
  <2>2. i.from <= m.to /\ i.to >= m.from
    BY <1>1, <1>2
  <2> QED
    BY <1>1, <2>1, <2>2, SplitInTwoIs DEF Adds
<1>3. CASE ~(i.from > m.from /\ i.to < m.to) /\ i.from > m.from /\ i.from < m.to /\ i.to >= m.to
  <2>1. Resolve(st, m, i) = CutEnd(st, m, i)
    BY <1>3 DEF Resolve
  <2>2. i.from <= m.to
    BY <1>1, <1>3
  <2> QED
    BY <1>1, <2>1, <2>2, CutEndIs DEF Adds
<1>4. CASE i.from <= m.from /\ i.to > m.from /\ i.to < m.to
  <2>1. ~(i.from > m.from)
    BY <1>1, <1>4
  <2>2. Resolve(st, m, i) = CutStart(st, m, i)
    BY <1>4, <2>1 DEF Resolve
  <2>3. i.to >= m.from
    BY <1>1, <1>4
  <2> QED
    BY <1>1, <2>2, <2>3, CutStartIs DEF Adds
<1>5. CASE ~(\/ i.from > m.from /\ i.to < m.to
             \/ i.from > m.from /\ i.from < m.to /\ i.to >= m.to
             \/ i.from <= m.from /\ i.to > m.from /\ i.to < m.to)
  <2>1. Resolve(st, m, i) = Push(st, i)
    BY <1>5 DEF Resolve
  <2> QED
    BY <1>1, <2>1, PushKeeps DEF Adds, SameRanges
<1> QED
  BY <1>2, <1>3, <1>4, <1>5

-----------------------------------------------------------------------------
\* A query's rows come each once, in the order of their times.
LEMMA OrderedIs ==
  ASSUME NEW S, IsFiniteSet(S),
         \A r \in S : r.id \in Int /\ r.from \in Int, \A r, q \in S : r.id = q.id => r = q
  PROVE  \E n \in Nat : /\ Ordered(S) \in [1 .. n -> S]
                        /\ \A row \in S : \E k \in 1 .. n : Ordered(S)[k] = row
                        /\ \A j, k \in 1 .. n : j < k => Earlier(Ordered(S)[j], Ordered(S)[k])
<1> DEFINE n == Cardinality(S)
           R == {p \in S \X S : Earlier(p[1], p[2])}
<1>1. IsFiniteSet(S) /\ n \in Nat
  BY FS_CardinalityType
<1>2. Orders(R, S)
  <2>1. \A x, y \in S : <<x, y>> \in R <=> Earlier(x, y)
    OBVIOUS
  <2> HIDE DEF R
  <2> QED
    BY <2>1 DEF Orders, Earlier
<1> HIDE DEF R
<1>3. PICK q \in [1 .. n -> S] : /\ \A j, k \in 1 .. n : j # k => q[j] # q[k]
                                 /\ \A j, k \in 1 .. n : j < k => <<q[j], q[k]>> \in R
  BY <1>1, <1>2, Numbering
<1> DEFINE InOrder(p) == \A j, k \in DOMAIN p : j < k => Earlier(p[j], p[k])
<1>4. q \in SetToSeqs(S) /\ InOrder(q)
  <2>1. q \in SetToSeqs(S)
    BY <1>3 DEF SetToSeqs
  <2>2. InOrder(q)
    BY <1>3 DEF R
  <2> QED
    BY <2>1, <2>2
<1>5. Ordered(S) = CHOOSE p \in SetToSeqs(S) : InOrder(p)
  BY DEF Ordered
<1> HIDE DEF InOrder
<1>6. Ordered(S) \in SetToSeqs(S) /\ InOrder(Ordered(S))
  BY <1>4, <1>5
<1>7. PICK p : p = Ordered(S)
  OBVIOUS
<1>8. p \in [1 .. n -> S] /\ \A j, k \in 1 .. n : j # k => p[j] # p[k]
  BY <1>6, <1>7 DEF SetToSeqs
<1>9. \A j, k \in 1 .. n : j < k => Earlier(p[j], p[k])
  BY <1>6, <1>7, <1>8 DEF InOrder
<1>10. \A row \in S : \E k \in 1 .. n : p[k] = row
  <2>1. p \in Injection(1 .. n, S)
    BY <1>8 DEF Injection, IsInjective
  <2>2. IsFiniteSet(1 .. n) /\ Cardinality(1 .. n) = n
    BY <1>1, FS_Interval
  <2>3. p \in Surjection(1 .. n, S)
    BY <1>1, <2>1, <2>2, FS_Injection
  <2> QED
    BY <2>3 DEF Surjection
<1> QED
  BY <1>1, <1>7, <1>8, <1>9, <1>10

\* The same for rows of the tables.
LEMMA OrderedRows ==
  ASSUME NEW man, NEW imp, SoundTables(man, imp), NEW S \in SUBSET (man \cup imp)
  PROVE  \E n \in Nat : /\ Ordered(S) \in [1 .. n -> S]
                        /\ \A row \in S : \E k \in 1 .. n : Ordered(S)[k] = row
                        /\ \A j, k \in 1 .. n : j < k => Earlier(Ordered(S)[j], Ordered(S)[k])
<1>1. IsFiniteSet(S)
  BY FS_Union, FS_Subset DEF SoundTables
<1>2. \A r \in S : r.id \in Int /\ r.from \in Int
  BY DEF SoundTables
<1>3. \A r, q \in S : r.id = q.id => r = q
  BY IdTypes
<1> QED
  BY <1>1, <1>2, <1>3, OrderedIs

SaneStates(man, imp) == {st \in States(Ids(man, imp)) : Sane(st, man, imp)}

\* Rows that are listed as they are add themselves.
LEMMA WholesAdd ==
  ASSUME NEW man, NEW imp, SoundTables(man, imp), NEW st, Sane(st, man, imp), NEW S \in SUBSET (man \cup imp),
         NEW new, Wholly(new, st, Ordered(S))
  PROVE  /\ Sane(new, man, imp)
         /\ SameRanges(new, st, Ids(man, imp))
         /\ \A e : Has(new, e) <=> Has(st, e) \/ \E r \in S : e = Ref(r)
<1> DEFINE V == SaneStates(man, imp)
<1>1. PICK n \in Nat : /\ Ordered(S) \in [1 .. n -> S]
                       /\ \A row \in S : \E k \in 1 .. n : Ordered(S)[k] = row
                       /\ \A j, k \in 1 .. n : j < k => Earlier(Ordered(S)[j], Ordered(S)[k])
  BY OrderedRows, Zenon
<1>2. PICK s : s = Ordered(S)
  OBVIOUS
<1>3. s \in [1 .. n -> S] /\ DOMAIN s = 1 .. n /\ \A row \in S : \E k \in 1 .. n : s[k] = row
  BY <1>1, <1>2
<1>4. st \in V /\ \A t \in V : Sane(t, man, imp)
  BY DEF SaneStates, Sane
<1>5. \A t, row : t \in V /\ row \in man \cup imp => Whole(t, row) \in V
  <2>1. ASSUME NEW t, NEW row, t \in V, row \in man \cup imp PROVE Sane(Push(t, row), man, imp)
    BY <1>4, <2>1, PushKeeps
  <2> QED
    BY <2>1 DEF SaneStates, Sane, Whole
<1> HIDE DEF V
<1>6. PICK h : /\ h[0] = st /\ \A k \in 1 .. n : h[k] = Whole(h[k - 1], s[k])
               /\ new = h[n]
  <2>0. Wholly(new, st, s)
    BY <1>2
  <2>1. WholesKeep(V, s, n)
    BY <1>3, <1>5 DEF WholesKeep
  <2>2. PICK g : WholeSteps(g, st, s, n, new)
    BY <1>4, <2>0, <2>1, Wholes
  <2> QED
    BY <2>2 DEF WholeSteps
<1> DEFINE So(k) == /\ Sane(h[k], man, imp)
                    /\ SameRanges(h[k], st, Ids(man, imp))
                    /\ \A e : Has(h[k], e) <=> Has(st, e) \/ \E j \in 1 .. k : e = Ref(s[j])
           X == {k \in Nat : k <= n => So(k)}
<1>7. 0 \in X
  BY <1>6 DEF SameRanges
<1>8. ASSUME NEW k \in Nat, k \in X PROVE k + 1 \in X
  <2>1. SUFFICES ASSUME k + 1 <= n PROVE So(k + 1)
    OBVIOUS
  <2>2. So(k) /\ k + 1 \in 1 .. n /\ (k + 1) - 1 = k
    BY <1>8, <2>1
  <2>3. PICK acc, after, row : acc = h[k] /\ after = h[k + 1] /\ row = s[k + 1]
    OBVIOUS
  <2>4. after = Push(acc, row) /\ row \in man \cup imp /\ Sane(acc, man, imp)
    BY <1>3, <1>6, <2>2, <2>3 DEF Whole
  <2>5. /\ Sane(after, man, imp) /\ SameRanges(after, acc, Ids(man, imp))
        /\ \A e : Has(after, e) <=> Has(acc, e) \/ e = Ref(row)
    BY <2>4, PushKeeps
  <2>6. SameRanges(after, st, Ids(man, imp))
    BY <2>2, <2>3, <2>5 DEF SameRanges
  <2>7. \A e : (\E j \in 1 .. k + 1 : e = Ref(s[j])) <=> (\E j \in 1 .. k : e = Ref(s[j])) \/ e = Ref(row)
    <3>1. \A j \in 1 .. k + 1 : j \in 1 .. k \/ j = k + 1
      OBVIOUS
    <3>2. 1 .. k \subseteq 1 .. k + 1 /\ k + 1 \in 1 .. k + 1
      OBVIOUS
    <3> QED
      BY <2>3, <3>1, <3>2
  <2> QED
    BY <2>2, <2>3, <2>5, <2>6, <2>7
<1> HIDE DEF X
<1>9. Nat \subseteq X
  BY <1>7, <1>8, NumbersByInduction
<1>10. So(n)
  BY <1>9 DEF X
<1>11. \A e : (\E j \in 1 .. n : e = Ref(s[j])) <=> \E r \in S : e = Ref(r)
  BY <1>3
<1> QED
  BY <1>6, <1>10, <1>11

\* One after the other.
LEMMA AddsTwice ==
  ASSUME NEW man, NEW imp, NEW m, NEW a, NEW b, NEW c, Adds(b, a, man, imp, m), Adds(c, b, man, imp, m)
  PROVE  Adds(c, a, man, imp, m)
BY DEF Adds

\* A manual row that is split: nothing is taken back, and every imported row that
\* it meets is in the answer.
LEMMA SplitAdds ==
  ASSUME NEW man, NEW imp, SoundTables(man, imp), NEW st, Sane(st, man, imp), NEW m \in man,
         NEW imps \in SUBSET imp
  PROVE  /\ Adds(SplitAround(st, m, imps), st, man, imp, m)
         /\ \A i \in Meeting(m, imps) : Has(SplitAround(st, m, imps), Ref(i))
<1> DEFINE S == Meeting(m, imps)
           V == SaneStates(man, imp)
<1>1. CASE S = {}
  <2>1. SplitAround(st, m, imps) = Push(st, m)
    BY <1>1 DEF SplitAround
  <2>2. \A n \in man : n.id \in Ids(man, imp)
    BY IdTypes
  <2> QED
    BY <1>1, <2>1, <2>2, PushKeeps DEF Adds, SameRanges
<1>2. CASE S # {}
  <2>0. S \in SUBSET (man \cup imp) /\ S \in SUBSET imp
    BY DEF Meeting
  <2>1. PICK new : new = SplitAround(st, m, imps) /\ Resolved(new, st, m, Ordered(S))
    BY <1>2, Zenon DEF SplitAround, Resolved
  <2> HIDE DEF S
  <2>2. PICK n \in Nat : /\ Ordered(S) \in [1 .. n -> S]
                         /\ \A row \in S : \E k \in 1 .. n : Ordered(S)[k] = row
                         /\ \A j, k \in 1 .. n : j < k => Earlier(Ordered(S)[j], Ordered(S)[k])
    BY <2>0, OrderedRows, Zenon
  <2>3. PICK s : s = Ordered(S)
    OBVIOUS
  <2>4. s \in [1 .. n -> S] /\ DOMAIN s = 1 .. n /\ \A row \in S : \E k \in 1 .. n : s[k] = row
    BY <2>2, <2>3
  <2>5. st \in V /\ \A t \in V : Sane(t, man, imp)
    BY DEF SaneStates, Sane
  <2>6. \A t, i : t \in V /\ i \in imp => Resolve(t, m, i) \in V
    <3>1. ASSUME NEW t, NEW i, t \in V, i \in imp PROVE Sane(Resolve(t, m, i), man, imp)
      BY <2>5, <3>1, ResolveAdds DEF Adds
    <3> QED
      BY <3>1 DEF SaneStates, Sane
  <2> HIDE DEF V
  <2>7. PICK h : /\ h[0] = st /\ \A k \in 1 .. n : h[k] = Resolve(h[k - 1], m, s[k])
                 /\ new = h[n]
    <3>0. Resolved(new, st, m, s)
      BY <2>1, <2>3
    <3>1. ResolvesKeep(V, m, s, n)
      BY <2>0, <2>4, <2>6 DEF ResolvesKeep
    <3>2. PICK g : ResolveSteps(g, st, m, s, n, new)
      BY <2>5, <3>0, <3>1, Resolves
    <3> QED
      BY <3>2 DEF ResolveSteps
  <2> DEFINE So(k) == /\ Adds(h[k], st, man, imp, m)
                      /\ \A j \in 1 .. k : Has(h[k], Ref(s[j]))
             X == {k \in Nat : k <= n => So(k)}
  <2>8. 0 \in X
    <3>1. Adds(st, st, man, imp, m)
      BY DEF Adds
    <3>2. h[0] = st
      BY <2>7
    <3>3. So(0)
      <4> HIDE DEF Adds
      <4> QED
        BY <3>1, <3>2
    <3> QED
      BY <3>3
  <2>9. ASSUME NEW k \in Nat, k \in X PROVE k + 1 \in X
    <3>1. SUFFICES ASSUME k + 1 <= n PROVE So(k + 1)
      OBVIOUS
    <3>2. So(k) /\ k + 1 \in 1 .. n /\ (k + 1) - 1 = k
      BY <2>9, <3>1
    <3>3. PICK acc, after, i : acc = h[k] /\ after = h[k + 1] /\ i = s[k + 1]
      OBVIOUS
    <3>4. after = Resolve(acc, m, i) /\ i \in imp /\ Sane(acc, man, imp)
      BY <2>0, <2>4, <2>7, <3>2, <3>3 DEF Adds
    <3>5. Adds(after, acc, man, imp, m) /\ Has(after, Ref(i))
      BY <3>4, ResolveAdds
    <3>6. Adds(after, st, man, imp, m)
      BY <3>2, <3>3, <3>5, AddsTwice
    <3>7. \A j \in 1 .. k + 1 : j \in 1 .. k \/ j = k + 1
      OBVIOUS
    <3>8. \A j \in 1 .. k + 1 : Has(after, Ref(s[j]))
      BY <3>2, <3>3, <3>5, <3>7 DEF Adds
    <3> QED
      BY <3>3, <3>6, <3>8
  <2> HIDE DEF X
  <2>10. Nat \subseteq X
    BY <2>8, <2>9, NumbersByInduction
  <2>11. So(n)
    BY <2>10 DEF X
  <2>12. Adds(new, st, man, imp, m) /\ \A i \in S : Has(new, Ref(i))
    BY <2>4, <2>7, <2>11
  <2> QED
    BY <2>1, <2>12 DEF S
<1> QED
  BY <1>1, <1>2

-----------------------------------------------------------------------------
\* Splitting one manual row m around the imported rows S that it holds, which come
\* in the order s: k of them are done.
Clear(r, S) == \A i \in S : i.to <= r.from \/ r.to <= i.from
During(t, r) == r.from <= t /\ t < r.to

\* What has come into the answer.
OfThisRow(state, st, m, S) ==
  \A e : Has(state, e) =>
    Has(st, e) \/ (\E i \in S : e = Ref(i)) \/ e = Ref(m) \/ (e.row = 0 /\ Within(e, m) /\ Clear(e, S))

\* The rest of m begins behind what is done and not behind what is left; only the
\* last imported row can cut its end.
RestIs(state, m, s, k, n) ==
  LET cur == state.maps[m.id]
  IN /\ m.from <= cur.from
     /\ \A j \in 1 .. n : j > k => cur.from <= s[j].from
     /\ \A j \in 1 .. k : s[j].to <= cur.from \/ (j = n /\ cur.to = s[n].from /\ Has(state, Ref(m)))
     /\ k # n => cur.to = m.to

\* Nothing of m is lost before the rest of it.
NamesTime(state, t, s, k) ==
  \/ \E e : Has(state, e) /\ e.row = 0 /\ During(t, e)
  \/ \E j \in 1 .. k : Has(state, Ref(s[j])) /\ During(t, s[j])
Covered(state, m, s, k) == \A t \in Int : m.from <= t /\ t < state.maps[m.id].from => NamesTime(state, t, s, k)

Parted(state, st, man, imp, m, S, s, k, n) ==
  /\ Sane(state, man, imp)
  /\ OfThisRow(state, st, m, S)
  /\ \A j \in 1 .. k : Has(state, Ref(s[j]))
  /\ RestIs(state, m, s, k, n)
  /\ Covered(state, m, s, k)

\* The order of imported rows that are apart.
InTurn(S, s, n) ==
  /\ s \in [1 .. n -> S]
  /\ \A i \in S : \E j \in 1 .. n : s[j] = i
  /\ \A j, l \in 1 .. n : j < l => s[j].to < s[l].from

\* One more imported row is done.
LEMMA PartStep ==
  ASSUME NEW man, NEW imp, SoundTables(man, imp), NEW m \in man,
         NEW S \in SUBSET imp, \A i \in S : Within(i, m) /\ ~Equal(i, m),
         NEW n \in Nat, NEW s, InTurn(S, s, n), NEW k \in Nat, k < n,
         NEW st, NEW acc, Parted(acc, st, man, imp, m, S, s, k, n)
  PROVE  Parted(Resolve(acc, m, s[k + 1]), st, man, imp, m, S, s, k + 1, n)
<1>0. PICK next \in Nat : next = k + 1
  OBVIOUS
<1>1. /\ next \in 1 .. n /\ next - 1 = k /\ next > k
      /\ \A j \in 1 .. next : j \in 1 .. k \/ j = next
      /\ \A j \in 1 .. k : j \in 1 .. n /\ j < next /\ j \in 1 .. next
  BY <1>0
<1>2. PICK i \in S : i = s[next]
  BY <1>1 DEF InTurn
<1>3. /\ \A r \in S : r.from \in Int /\ r.to \in Int /\ r.from < r.to /\ r.from >= m.from /\ r.to <= m.to
      /\ m.from \in Int /\ m.to \in Int /\ m.id \in Ids(man, imp) /\ i \in imp
      /\ ~(i.from = m.from /\ i.to = m.to)
  BY IdTypes DEF Within, Equal
<1>4. PICK cur : cur = acc.maps[m.id]
  OBVIOUS
<1>5. /\ cur.from \in Int /\ m.from <= cur.from /\ cur.to = m.to /\ cur.from <= i.from
      /\ \A j \in 1 .. k : s[j].to <= cur.from
      /\ \A j \in 1 .. n : j > next => cur.from <= s[j].from
  <2>1. cur.from \in Int
    BY <1>3, <1>4, StateTypes DEF Parted, Sane
  <2>2. \A j \in 1 .. k : j # n
    OBVIOUS
  <2> QED
    BY <1>0, <1>1, <1>2, <1>4, <2>1, <2>2 DEF Parted, RestIs
<1>6. /\ \A j \in 1 .. n : s[j] \in S
      /\ \A j \in 1 .. n : j > next => i.to < s[j].from
      /\ \A j \in 1 .. n : j < next => s[j].to < i.from
  BY <1>1, <1>2 DEF InTurn
<1>7. \A r \in S : (r.to <= cur.from) \/ r = i \/ i.to < r.from
  <2>1. ASSUME NEW r \in S PROVE (r.to <= cur.from) \/ r = i \/ i.to < r.from
    <3>1. PICK j \in 1 .. n : s[j] = r
      BY DEF InTurn
    <3>2. j \in 1 .. k \/ j = next \/ j > next
      BY <1>1
    <3> QED
      BY <1>2, <1>5, <1>6, <3>1, <3>2
  <2> QED
    BY <2>1
<1>8. \A j \in 1 .. next : s[j].to <= i.to
  BY <1>1, <1>2, <1>3, <1>6
<1>9. PICK new : new = Resolve(acc, m, i)
  OBVIOUS
<1>10. Sane(acc, man, imp) /\ OfThisRow(acc, st, m, S) /\ (\A j \in 1 .. k : Has(acc, Ref(s[j]))) /\ Covered(acc, m, s, k)
  BY DEF Parted
<1>11. Sane(new, man, imp) /\ (\A j \in 1 .. next : Has(new, Ref(s[j])))
  BY <1>1, <1>2, <1>3, <1>9, <1>10, ResolveAdds DEF Adds
<1>12. ASSUME new.maps[m.id].from = i.to, new.maps[m.id].to = m.to
       PROVE  RestIs(new, m, s, next, n)
  BY <1>3, <1>6, <1>8, <1>12 DEF RestIs
<1>13. ASSUME NEW t \in Int, m.from <= t, t < cur.from, \A e : Has(acc, e) => Has(new, e)
       PROVE  NamesTime(new, t, s, next)
  BY <1>1, <1>4, <1>10, <1>13 DEF Covered, NamesTime
<1>14. CASE i.from > m.from /\ i.to < m.to
  <2>1. new = SplitInTwo(acc, m, i)
    BY <1>3, <1>9, <1>14 DEF Resolve
  <2>2. PICK half : half = Half(cur.from, i.from, acc.next)
    OBVIOUS
  <2>3. i.from <= m.to /\ i.to >= m.from
    BY <1>3
  <2>4. /\ new.maps[m.id].from = i.to /\ new.maps[m.id].to = m.to
        /\ \A e : Has(new, e) <=> Has(acc, e) \/ e = half \/ e = Ref(i)
    BY <1>3, <1>4, <1>5, <1>10, <2>1, <2>2, <2>3, SplitInTwoIs
  <2>5. half.row = 0 /\ half.from = cur.from /\ half.to = i.from
    BY <2>2 DEF Half
  <2>6. Within(half, m)
    BY <1>5, <2>3, <2>5 DEF Within
  <2>7. Clear(half, S)
    BY <1>3, <1>7, <2>5 DEF Clear
  <2>8. OfThisRow(new, st, m, S)
    BY <1>10, <2>4, <2>5, <2>6, <2>7 DEF OfThisRow
  <2>9. Covered(new, m, s, next)
    <3>1. ASSUME NEW t \in Int, m.from <= t, t < i.to
          PROVE  NamesTime(new, t, s, next)
      <4>1. CASE t < cur.from
        BY <1>13, <2>4, <3>1, <4>1
      <4>2. CASE cur.from <= t /\ t < i.from
        BY <2>4, <2>5, <4>2 DEF During, NamesTime
      <4>3. CASE i.from <= t
        BY <1>1, <1>2, <2>4, <3>1, <4>3 DEF During, NamesTime
      <4> QED
        BY <1>3, <1>5, <4>1, <4>2, <4>3
    <3>2. new.maps[m.id].from = i.to
      BY <2>4
    <3> QED
      BY <3>1, <3>2, Zenon DEF Covered
  <2> QED
    BY <1>0, <1>2, <1>9, <1>11, <1>12, <2>4, <2>8, <2>9 DEF Parted
<1>15. CASE i.from > m.from /\ i.to >= m.to
  <2>1. i.from < m.to /\ i.to = m.to /\ i.from <= m.to
    BY <1>3, <1>15
  <2>2. new = CutEnd(acc, m, i)
    BY <1>3, <1>9, <1>15, <2>1 DEF Resolve
  <2>3. next = n
    <3>1. SUFFICES ASSUME next < n PROVE FALSE
      BY <1>1
    <3>2. s[n] \in S /\ i.to < s[n].from
      BY <1>1, <1>6, <3>1
    <3> QED
      BY <1>3, <2>1, <3>2
  <2>4. /\ new.maps[m.id].from = cur.from /\ new.maps[m.id].to = i.from
        /\ \A e : Has(new, e) <=> Has(acc, e) \/ e = Ref(m) \/ e = Ref(i)
    BY <1>3, <1>4, <1>10, <2>1, <2>2, CutEndIs
  <2>5. OfThisRow(new, st, m, S)
    BY <1>10, <2>4 DEF OfThisRow
  <2>6. RestIs(new, m, s, next, n)
    BY <1>1, <1>2, <1>5, <2>3, <2>4 DEF RestIs
  <2>7. Covered(new, m, s, next)
    <3>1. new.maps[m.id].from = cur.from /\ \A e : Has(acc, e) => Has(new, e)
      BY <2>4
    <3> QED
      BY <1>13, <3>1, Zenon DEF Covered
  <2> QED
    BY <1>0, <1>2, <1>9, <1>11, <2>5, <2>6, <2>7 DEF Parted
<1>16. CASE i.from <= m.from
  <2>1. i.from = m.from /\ i.to < m.to /\ i.to > m.from /\ i.to >= m.from /\ ~(i.from > m.from)
    BY <1>3, <1>16
  <2>2. new = CutStart(acc, m, i)
    BY <1>3, <1>9, <1>16, <2>1 DEF Resolve
  <2>3. /\ new.maps[m.id].from = i.to /\ new.maps[m.id].to = m.to
        /\ \A e : Has(new, e) <=> Has(acc, e) \/ e = Ref(i) \/ e = Ref(m)
    BY <1>3, <1>4, <1>5, <1>10, <2>1, <2>2, CutStartIs
  <2>4. OfThisRow(new, st, m, S)
    BY <1>10, <2>3 DEF OfThisRow
  <2>5. Covered(new, m, s, next)
    <3>1. ASSUME NEW t \in Int, m.from <= t, t < i.to
          PROVE  NamesTime(new, t, s, next)
      BY <1>1, <1>2, <2>1, <2>3, <3>1 DEF During, NamesTime
    <3>2. new.maps[m.id].from = i.to
      BY <2>3
    <3> QED
      BY <3>1, <3>2, Zenon DEF Covered
  <2> QED
    BY <1>0, <1>2, <1>9, <1>11, <1>12, <2>3, <2>4, <2>5 DEF Parted
<1> QED
  BY <1>3, <1>14, <1>15, <1>16

\* A time that is listed, as whatever.
Shown(state, t) == \E e : Has(state, e) /\ During(t, Listing(state, e))

\* A time of a half or of an imported row in the answer is shown.
LEMMA ListedIsShown ==
  ASSUME NEW man, NEW imp, SoundTables(man, imp), NEW state, Sane(state, man, imp), NEW t,
         NEW S \in SUBSET imp, NEW n, NEW s \in [1 .. n -> S], NEW k, 1 .. k \subseteq 1 .. n, NamesTime(state, t, s, k)
  PROVE  Shown(state, t)
<1>1. CASE \E e : Has(state, e) /\ e.row = 0 /\ During(t, e)
  BY <1>1 DEF Shown, Listing
<1>2. CASE \E j \in 1 .. k : Has(state, Ref(s[j])) /\ During(t, s[j])
  <2>1. PICK j \in 1 .. k : Has(state, Ref(s[j])) /\ During(t, s[j])
    BY <1>2
  <2>2. PICK i \in imp : i = s[j]
    BY <2>1
  <2>3. Listing(state, Ref(i)) = state.maps[i.id]
    BY IdTypes DEF Listing, Ref
  <2>4. During(t, Listing(state, Ref(i)))
    BY <2>1, <2>2, <2>3 DEF During, Sane
  <2> QED
    BY <2>1, <2>2, <2>4 DEF Shown
<1> QED
  BY <1>1, <1>2 DEF NamesTime

\* The split of one manual row, when all the imported rows in it are done.
LEMMA PartsAre ==
  ASSUME NEW man, NEW imp, SoundTables(man, imp), NEW m \in man,
         NEW S \in SUBSET imp, \A i \in S : Within(i, m) /\ ~Equal(i, m),
         NEW st, Sane(st, man, imp), st.maps[m.id].from = m.from, st.maps[m.id].to = m.to,
         NEW new, Resolved(new, st, m, Ordered(S))
  PROVE  /\ OfThisRow(new, st, m, S)
         /\ Clear(new.maps[m.id], S)
         /\ \A t \in Int, i \in S : m.from <= t /\ t < i.to => Shown(new, t)
<1> DEFINE V == SaneStates(man, imp)
<1>0. S \in SUBSET (man \cup imp)
  OBVIOUS
<1>1. PICK n \in Nat : /\ Ordered(S) \in [1 .. n -> S]
                       /\ \A row \in S : \E k \in 1 .. n : Ordered(S)[k] = row
                       /\ \A j, k \in 1 .. n : j < k => Earlier(Ordered(S)[j], Ordered(S)[k])
  BY <1>0, OrderedRows, Zenon
<1>2. PICK s : s = Ordered(S)
  OBVIOUS
<1>3. s \in [1 .. n -> S] /\ DOMAIN s = 1 .. n
  BY <1>1, <1>2
<1>4. InTurn(S, s, n)
  <2>1. ASSUME NEW j \in 1 .. n, NEW l \in 1 .. n, j < l PROVE s[j].to < s[l].from
    <3>1. PICK a \in S, b \in S : a = s[j] /\ b = s[l]
      BY <1>3
    <3>2. Earlier(a, b)
      BY <1>1, <1>2, <2>1, <3>1
    <3>3. a.from \in Int /\ a.to \in Int /\ a.from < a.to /\ b.from \in Int /\ b.to \in Int /\ b.from < b.to
          /\ a.id \in Int
      BY DEF SoundTables
    <3>4. a # b
      BY <3>2, <3>3 DEF Earlier
    <3>5. a.to < b.from \/ b.to < a.from
      BY <3>4 DEF SoundTables
    <3> QED
      BY <3>1, <3>2, <3>3, <3>5 DEF Earlier
  <2> QED
    BY <1>1, <1>2, <1>3, <2>1 DEF InTurn
<1>5. st \in V /\ \A t \in V : Sane(t, man, imp)
  BY DEF SaneStates, Sane
<1>6. \A t, i : t \in V /\ i \in imp => Resolve(t, m, i) \in V
  <2>1. ASSUME NEW t, NEW i, t \in V, i \in imp PROVE Sane(Resolve(t, m, i), man, imp)
    BY <1>5, <2>1, ResolveAdds DEF Adds
  <2> QED
    BY <2>1 DEF SaneStates, Sane
<1> HIDE DEF V
<1>7. PICK h : /\ h[0] = st /\ \A k \in 1 .. n : h[k] = Resolve(h[k - 1], m, s[k])
               /\ new = h[n]
  <2>0. Resolved(new, st, m, s)
    BY <1>2
  <2>1. ResolvesKeep(V, m, s, n)
    BY <1>3, <1>6 DEF ResolvesKeep
  <2>2. PICK g : ResolveSteps(g, st, m, s, n, new)
    BY <1>5, <2>0, <2>1, Resolves
  <2> QED
    BY <2>2 DEF ResolveSteps
<1> DEFINE So(k) == Parted(h[k], st, man, imp, m, S, s, k, n)
           X == {k \in Nat : k <= n => So(k)}
<1>8. 0 \in X
  <2>1. OfThisRow(st, st, m, S) /\ Covered(st, m, s, 0)
    BY IdTypes DEF OfThisRow, Covered
  <2>2. RestIs(st, m, s, 0, n)
    <3>1. m.from \in Int /\ \A j \in 1 .. n : s[j].from \in Int /\ m.from <= s[j].from
      BY <1>3, IdTypes DEF Within
    <3> QED
      BY <3>1 DEF RestIs
  <2>3. Parted(st, st, man, imp, m, S, s, 0, n)
    BY <2>1, <2>2 DEF Parted
  <2> QED
    BY <1>7, <2>3
<1>9. ASSUME NEW k \in Nat, k \in X PROVE k + 1 \in X
  <2>1. SUFFICES ASSUME k + 1 <= n PROVE So(k + 1)
    OBVIOUS
  <2>2. So(k) /\ k + 1 \in 1 .. n /\ (k + 1) - 1 = k /\ k < n
    BY <1>9, <2>1
  <2>3. PICK acc, after : acc = h[k] /\ after = h[k + 1]
    OBVIOUS
  <2>4. after = Resolve(acc, m, s[k + 1])
    BY <1>7, <2>2, <2>3
  <2>5. Parted(acc, st, man, imp, m, S, s, k, n)
    BY <2>2, <2>3
  <2>6. Parted(after, st, man, imp, m, S, s, k + 1, n)
    BY <1>4, <2>2, <2>4, <2>5, PartStep
  <2> QED
    BY <2>3, <2>6
<1> HIDE DEF X
<1>10. Nat \subseteq X
  BY <1>8, <1>9, NumbersByInduction
<1>11. Parted(new, st, man, imp, m, S, s, n, n)
  BY <1>7, <1>10 DEF X
<1>12. PICK cur : cur = new.maps[m.id]
  OBVIOUS
<1>13. /\ cur.from \in Int /\ cur.to \in Int /\ m.from \in Int /\ m.from <= cur.from
       /\ \A j \in 1 .. n : s[j].to <= cur.from \/ (j = n /\ cur.to = s[n].from /\ Has(new, Ref(m)))
       /\ \A r \in S : r.from \in Int /\ r.to \in Int
  BY <1>11, <1>12, IdTypes, StateTypes DEF Parted, RestIs, Sane
<1>14. Clear(cur, S)
  BY <1>4, <1>13 DEF Clear, InTurn
<1>15. ASSUME NEW t \in Int, NEW i \in S, m.from <= t, t < i.to PROVE Shown(new, t)
  <2>1. PICK j \in 1 .. n : s[j] = i
    BY <1>4 DEF InTurn
  <2>2. CASE t < cur.from
    <3>1. NamesTime(new, t, s, n)
      BY <1>11, <1>12, <1>15, <2>2 DEF Parted, Covered
    <3> QED
      BY <1>3, <1>11, <3>1, ListedIsShown DEF Parted
  <2>3. CASE cur.from <= t /\ t < cur.to /\ Has(new, Ref(m))
    <3>1. Listing(new, Ref(m)) = cur
      BY <1>12, IdTypes DEF Listing, Ref
    <3> QED
      BY <2>3, <3>1 DEF Shown, During
  <2>4. CASE j = n /\ s[n].from <= t
    <3>1. Has(new, Ref(s[j])) /\ During(t, s[j])
      BY <1>11, <1>15, <2>1, <2>4 DEF Parted, During
    <3>2. NamesTime(new, t, s, n)
      BY <3>1 DEF NamesTime
    <3> QED
      BY <1>3, <1>11, <3>2, ListedIsShown DEF Parted
  <2> QED
    BY <1>13, <1>15, <2>1, <2>2, <2>3, <2>4
<1> QED
  BY <1>11, <1>12, <1>14, <1>15 DEF Parted

-----------------------------------------------------------------------------
\* The imported rows in a manual row.
Inner(m, imp) == {i \in imp : Within(i, m)}

\* The imported rows that the loop meets in a manual row that holds some.
LEMMA MetAreInner ==
  ASSUME NEW man, NEW imp, SoundTables(man, imp), Apart(man), NEW m \in Holding(man, imp)
  PROVE  /\ Meeting(m, OverlappingImported(man, imp)) = Inner(m, imp)
         /\ Inner(m, imp) # {}
         /\ \A i \in Inner(m, imp) : Within(i, m) /\ ~Equal(i, m)
<1>1. /\ m \in man /\ \A i \in imp : ~Equal(i, m)
      /\ \E i \in imp : Inside(i, m)
  BY DEF Holding, Matched
<1>2. \A r \in man \cup imp : r.from \in Int /\ r.to \in Int /\ r.from < r.to
  BY IdTypes
<1>3. \A i \in imp, n \in man : Inside(i, n) => Within(i, n)
  BY <1>2 DEF Inside, Within
<1>4. \A i \in imp : Within(i, m) => Inside(i, m)
  BY <1>1, <1>2 DEF Inside, Within, Equal
<1>5. ASSUME NEW i \in imp, Within(i, m) PROVE i \in Meeting(m, OverlappingImported(man, imp))
  <2>1. i \in OverlappingImported(man, imp)
    BY <1>4, <1>5 DEF OverlappingImported
  <2>2. i.from >= m.from /\ i.from < m.to
    BY <1>1, <1>2, <1>5 DEF Within
  <2> QED
    BY <2>1, <2>2 DEF Meeting
<1>6. ASSUME NEW i \in Meeting(m, OverlappingImported(man, imp)) PROVE i \in imp /\ Within(i, m)
  <2>1. PICK n \in man : i \in imp /\ Within(i, n)
    BY <1>3 DEF Meeting, OverlappingImported, Holding
  <2>2. /\ i.from \in Int /\ i.to \in Int /\ i.from < i.to
        /\ m.from \in Int /\ m.to \in Int /\ m.from < m.to
        /\ n.from \in Int /\ n.to \in Int /\ n.from < n.to
    BY <1>1, <1>2, <2>1
  <2>3. i.from < m.to /\ i.to > m.from
    BY <2>2 DEF Meeting
  <2>4. n # m => n.to < m.from \/ m.to < n.from
    BY <1>1 DEF Apart
  <2>5. n = m
    BY <2>1, <2>2, <2>3, <2>4 DEF Within
  <2> QED
    BY <2>1, <2>5
<1> QED
  BY <1>1, <1>3, <1>5, <1>6 DEF Inner

\* An imported row in a manual one is found by a query: it is as long as the manual
\* row, or the loop meets it.
LEMMA InnerIsFound ==
  ASSUME NEW man, NEW imp, SoundTables(man, imp), NEW m \in man, NEW i \in imp, Within(i, m)
  PROVE  \/ i \in NonOverlappingImported(man, imp)
         \/ \E n \in Holding(man, imp) : i \in Meeting(n, OverlappingImported(man, imp))
<1>1. \A r \in man \cup imp : r.from \in Int /\ r.to \in Int /\ r.from < r.to
  BY IdTypes
<1>2. ASSUME i \in OverlappingImported(man, imp)
      PROVE  \E n \in Holding(man, imp) : i \in Meeting(n, OverlappingImported(man, imp))
  <2>1. PICK n \in Holding(man, imp) : Inside(i, n)
    BY <1>2 DEF OverlappingImported
  <2>2. i.from >= n.from /\ i.from < n.to
    BY <1>1, <2>1 DEF Inside, Holding
  <2> QED
    BY <1>2, <2>2 DEF Meeting
<1>3. CASE Equal(i, m)
  BY <1>2, <1>3 DEF NonOverlappingImported
<1>4. CASE ~Equal(i, m)
  <2>1. Inside(i, m)
    BY <1>1, <1>4 DEF Inside, Within, Equal
  <2>2. m \notin Matched(man, imp)
    <3>1. ASSUME NEW j \in imp, Equal(j, m) PROVE FALSE
      <4>1. j # i
        BY <1>4, <3>1
      <4>2. j.to < i.from \/ i.to < j.from
        BY <4>1 DEF SoundTables
      <4> QED
        BY <1>1, <3>1, <4>2 DEF Equal, Within
    <3> QED
      BY <3>1 DEF Matched
  <2>3. i \in OverlappingImported(man, imp)
    BY <2>1, <2>2 DEF OverlappingImported, Holding
  <2> QED
    BY <1>2, <2>3
<1> QED
  BY <1>3, <1>4

\* All the manual rows that are split, whatever they are: what was in the answer
\* stays, and every imported row that the loop meets comes into it.
LEMMA SplitsAdd ==
  ASSUME NEW man, NEW imp, SoundTables(man, imp), NEW st, Sane(st, man, imp),
         NEW imps \in SUBSET imp, NEW S \in SUBSET man, NEW new, Divided(new, st, imps, Ordered(S))
  PROVE  /\ Sane(new, man, imp)
         /\ \A e : Has(st, e) => Has(new, e)
         /\ \A m \in S : \A i \in Meeting(m, imps) : Has(new, Ref(i))
<1> DEFINE V == SaneStates(man, imp)
<1>0. S \in SUBSET (man \cup imp)
  OBVIOUS
<1>1. PICK n \in Nat : /\ Ordered(S) \in [1 .. n -> S]
                       /\ \A row \in S : \E k \in 1 .. n : Ordered(S)[k] = row
                       /\ \A j, k \in 1 .. n : j < k => Earlier(Ordered(S)[j], Ordered(S)[k])
  BY <1>0, OrderedRows, Zenon
<1>2. PICK s : s = Ordered(S)
  OBVIOUS
<1>3. s \in [1 .. n -> S] /\ DOMAIN s = 1 .. n /\ \A row \in S : \E k \in 1 .. n : s[k] = row
  BY <1>1, <1>2
<1>4. st \in V /\ \A t \in V : Sane(t, man, imp)
  BY DEF SaneStates, Sane
<1>5. \A t, m : t \in V /\ m \in man => SplitAround(t, m, imps) \in V
  <2>1. ASSUME NEW t, NEW m, t \in V, m \in man PROVE Sane(SplitAround(t, m, imps), man, imp)
    BY <1>4, <2>1, SplitAdds DEF Adds
  <2> QED
    BY <2>1 DEF SaneStates, Sane
<1> HIDE DEF V
<1>6. PICK h : /\ h[0] = st /\ \A k \in 1 .. n : h[k] = SplitAround(h[k - 1], s[k], imps)
               /\ new = h[n]
  <2>0. Divided(new, st, imps, s)
    BY <1>2
  <2>1. SplitsKeep(V, imps, s, n)
    BY <1>3, <1>5 DEF SplitsKeep
  <2>2. PICK g : SplitSteps(g, st, imps, s, n, new)
    BY <1>4, <2>0, <2>1, Splits
  <2> QED
    BY <2>2 DEF SplitSteps
<1> DEFINE So(k) == /\ Sane(h[k], man, imp)
                    /\ \A e : Has(st, e) => Has(h[k], e)
                    /\ \A j \in 1 .. k : \A i \in Meeting(s[j], imps) : Has(h[k], Ref(i))
           X == {k \in Nat : k <= n => So(k)}
<1>7. 0 \in X
  BY <1>6
<1>8. ASSUME NEW k \in Nat, k \in X PROVE k + 1 \in X
  <2>1. SUFFICES ASSUME k + 1 <= n PROVE So(k + 1)
    OBVIOUS
  <2>2. So(k) /\ k + 1 \in 1 .. n /\ (k + 1) - 1 = k
    BY <1>8, <2>1
  <2>3. PICK acc, after, m : acc = h[k] /\ after = h[k + 1] /\ m = s[k + 1]
    OBVIOUS
  <2>4. after = SplitAround(acc, m, imps) /\ m \in man /\ Sane(acc, man, imp)
    BY <1>3, <1>6, <2>2, <2>3
  <2>5. Adds(after, acc, man, imp, m) /\ \A i \in Meeting(m, imps) : Has(after, Ref(i))
    BY <2>4, SplitAdds
  <2>6. Sane(after, man, imp) /\ \A e : Has(acc, e) => Has(after, e)
    BY <2>5 DEF Adds
  <2>7. \A j \in 1 .. k + 1 : j \in 1 .. k \/ j = k + 1
    OBVIOUS
  <2> QED
    BY <2>2, <2>3, <2>5, <2>6, <2>7
<1> HIDE DEF X
<1>9. Nat \subseteq X
  BY <1>7, <1>8, NumbersByInduction
<1>10. So(n)
  BY <1>9 DEF X
<1>11. \A m \in S : \A i \in Meeting(m, imps) : Has(new, Ref(i))
  BY <1>3, <1>6, <1>10
<1> QED
  BY <1>6, <1>10, <1>11

\* The loop over the manual rows, which are apart: those in done have been split.
\* The others have the times of the table, and are in the answer only if nothing
\* lies in them; what is in the answer of the manual rows leaves out the imported
\* rows, and a row that is done is shown up to the end of the last one in it.
OthersAreWhole(state, man, done) ==
  \A m \in man \ done : state.maps[m.id].from = m.from /\ state.maps[m.id].to = m.to
RefsAreRight(state, man, imp, done) ==
  /\ \A m \in man : Has(state, Ref(m)) => m \in NonOverlappingManual(man, imp) \cup done
  /\ \A i \in imp : Has(state, Ref(i)) => \E m \in man : Within(i, m)
HalvesAreClear(state, man, imp) ==
  \A e : Has(state, e) /\ e.row = 0 => \E m \in man : Within(e, m) /\ Clear(e, Inner(m, imp))
DoneAreClear(state, imp, done) == \A m \in done : Clear(state.maps[m.id], Inner(m, imp))
DoneAreShown(state, imp, done) ==
  \A m \in done : \A i \in Inner(m, imp) : \A t \in Int : m.from <= t /\ t < i.to => Shown(state, t)

Dividing(state, man, imp, done) ==
  /\ Sane(state, man, imp)
  /\ OthersAreWhole(state, man, done)
  /\ RefsAreRight(state, man, imp, done)
  /\ HalvesAreClear(state, man, imp)
  /\ DoneAreClear(state, imp, done)
  /\ DoneAreShown(state, imp, done)

\* One more manual row is split.
LEMMA DivideStep ==
  ASSUME NEW man, NEW imp, SoundTables(man, imp), Apart(man),
         NEW done \in SUBSET man, NEW m \in Holding(man, imp), m \notin done,
         NEW state, Dividing(state, man, imp, done)
  PROVE  Dividing(SplitAround(state, m, OverlappingImported(man, imp)), man, imp, done \cup {m})
<1> DEFINE imps == OverlappingImported(man, imp)
           S == Inner(m, imp)
<1>1. PICK new : new = SplitAround(state, m, imps)
  OBVIOUS
<1>2. /\ Meeting(m, imps) = S /\ S # {} /\ S \in SUBSET imp
      /\ \A i \in S : Within(i, m) /\ ~Equal(i, m)
  BY MetAreInner DEF Inner
<1>3. Resolved(new, state, m, Ordered(S))
  <2>1. Resolved(new, state, m, Ordered(Meeting(m, imps)))
    <3>1. Meeting(m, imps) # {}
      BY <1>2
    <3> HIDE DEF imps
    <3> QED
      BY <1>1, <3>1, Zenon DEF SplitAround, Resolved
  <2> QED
    BY <1>2, <2>1
<1>4. /\ m \in man /\ m \notin NonOverlappingManual(man, imp) /\ imps \in SUBSET imp
  BY DEF Holding, NonOverlappingManual, OverlappingImported
<1>5. /\ Sane(state, man, imp) /\ OthersAreWhole(state, man, done) /\ RefsAreRight(state, man, imp, done)
      /\ HalvesAreClear(state, man, imp) /\ DoneAreClear(state, imp, done) /\ DoneAreShown(state, imp, done)
  BY DEF Dividing
<1>6. Adds(new, state, man, imp, m)
  BY <1>1, <1>4, <1>5, SplitAdds
<1> HIDE DEF S, imps
<1>7. /\ OfThisRow(new, state, m, S)
      /\ Clear(new.maps[m.id], S)
      /\ \A t \in Int, i \in S : m.from <= t /\ t < i.to => Shown(new, t)
  <2>1. state.maps[m.id].from = m.from /\ state.maps[m.id].to = m.to
    BY <1>4, <1>5 DEF OthersAreWhole
  <2> QED
    BY <1>2, <1>3, <1>4, <1>5, <2>1, PartsAre
<1>8. OthersAreWhole(new, man, done \cup {m})
  BY <1>5, <1>6 DEF OthersAreWhole, Adds
<1>9. /\ \A r \in man \cup imp : Ref(r).row = r.id /\ r.id # 0
      /\ \A r, q \in man \cup imp : Ref(r) = Ref(q) => r = q
      /\ \A r \in man, i \in imp : r # i
  BY IdTypes DEF Ref
<1>10. \A e : Has(new, e) => Has(state, e) \/ (\E i \in S : e = Ref(i)) \/ e = Ref(m)
                               \/ (e.row = 0 /\ Within(e, m) /\ Clear(e, S))
  BY <1>7, Zenon DEF OfThisRow
<1>11. RefsAreRight(new, man, imp, done \cup {m})
  <2>1. ASSUME NEW r \in man, Has(new, Ref(r)) PROVE r \in NonOverlappingManual(man, imp) \cup (done \cup {m})
    <3>1. Has(state, Ref(r)) \/ r = m
      BY <1>2, <1>4, <1>9, <1>10, <2>1
    <3> QED
      BY <1>5, <3>1 DEF RefsAreRight
  <2>2. ASSUME NEW i \in imp, Has(new, Ref(i)) PROVE \E r \in man : Within(i, r)
    <3>1. Has(state, Ref(i)) \/ i \in S
      BY <1>2, <1>4, <1>9, <1>10, <2>2
    <3> QED
      BY <1>2, <1>4, <1>5, <3>1 DEF RefsAreRight
  <2> QED
    BY <2>1, <2>2 DEF RefsAreRight
<1>12. HalvesAreClear(new, man, imp)
  <2>1. ASSUME NEW e, Has(new, e), e.row = 0 PROVE \E r \in man : Within(e, r) /\ Clear(e, Inner(r, imp))
    <3>1. Has(state, e) \/ (Within(e, m) /\ Clear(e, S))
      BY <1>2, <1>4, <1>9, <1>10, <2>1
    <3> QED
      BY <1>4, <1>5, <2>1, <3>1 DEF HalvesAreClear, S
  <2> QED
    BY <2>1 DEF HalvesAreClear
<1>13. DoneAreClear(new, imp, done \cup {m})
  <2>1. ASSUME NEW r \in done PROVE Clear(new.maps[r.id], Inner(r, imp))
    <3>1. new.maps[r.id].from = state.maps[r.id].from /\ new.maps[r.id].to = state.maps[r.id].to
      BY <1>6, <2>1 DEF Adds
    <3>2. Clear(state.maps[r.id], Inner(r, imp))
      BY <1>5 DEF DoneAreClear
    <3> QED
      BY <3>1, <3>2 DEF Clear
  <2> QED
    BY <1>7, <2>1 DEF DoneAreClear, S
<1>14. ASSUME NEW t, Shown(state, t) PROVE Shown(new, t)
  <2>1. PICK e : Has(state, e) /\ During(t, Listing(state, e))
    BY <1>14 DEF Shown
  <2>2. Has(new, e)
    BY <1>6, <2>1 DEF Adds
  <2>3. CASE e.row = 0
    <3>1. Listing(new, e) = Listing(state, e)
      BY <2>3 DEF Listing
    <3> QED
      BY <2>1, <2>2, <3>1 DEF Shown
  <2>4. CASE e.row # 0
    <3>1. e = [row |-> e.row, from |-> 0, to |-> 0, number |-> 0] /\ e.row \in Ids(man, imp)
      BY <1>5, <2>1, <2>4, StateTypes DEF Sane
    <3>2. PICK r \in man \cup imp : e.row = r.id
      BY <3>1 DEF Ids
    <3>3. e = Ref(r)
      BY <3>1, <3>2 DEF Ref
    <3>4. r # m
      BY <1>4, <1>5, <2>1, <3>3 DEF RefsAreRight
    <3>5. new.maps[r.id].from = state.maps[r.id].from /\ new.maps[r.id].to = state.maps[r.id].to
      <4>1. CASE r \in man
        BY <1>6, <3>4, <4>1 DEF Adds
      <4>2. CASE r \in imp
        BY <1>5, <1>6, <4>2 DEF Adds, Sane
      <4> QED
        BY <4>1, <4>2
    <3>6. Listing(new, e) = new.maps[r.id] /\ Listing(state, e) = state.maps[r.id]
      BY <2>4, <3>2 DEF Listing
    <3>7. During(t, Listing(new, e))
      BY <2>1, <3>5, <3>6 DEF During
    <3> QED
      BY <2>2, <3>7 DEF Shown
  <2> QED
    BY <2>3, <2>4
<1>15. DoneAreShown(new, imp, done \cup {m})
  <2>1. ASSUME NEW r \in done \cup {m}, NEW i \in Inner(r, imp), NEW t \in Int, r.from <= t, t < i.to
        PROVE  Shown(new, t)
    <3>1. CASE r = m
      BY <1>7, <2>1, <3>1 DEF S
    <3>2. CASE r \in done
      BY <1>5, <1>14, <2>1, <3>2 DEF DoneAreShown
    <3> QED
      BY <3>1, <3>2
  <2> QED
    BY <2>1 DEF DoneAreShown
<1>16. Sane(new, man, imp)
  BY <1>6 DEF Adds
<1>17. Dividing(new, man, imp, done \cup {m})
  BY <1>8, <1>11, <1>12, <1>13, <1>15, <1>16 DEF Dividing
<1> QED
  BY <1>1, <1>17 DEF imps

\* All of them are, when the loop ends.
LEMMA SplitsPart ==
  ASSUME NEW man, NEW imp, SoundTables(man, imp), Apart(man), NEW st, Dividing(st, man, imp, {}),
         NEW new, Divided(new, st, OverlappingImported(man, imp), Ordered(Holding(man, imp)))
  PROVE  Dividing(new, man, imp, Holding(man, imp))
<1> DEFINE V == SaneStates(man, imp)
           imps == OverlappingImported(man, imp)
           S == Holding(man, imp)
<1>0. S \in SUBSET (man \cup imp) /\ S \in SUBSET man /\ imps \in SUBSET imp
  BY DEF Holding, OverlappingImported
<1> HIDE DEF S, imps
<1>1. PICK n \in Nat : /\ Ordered(S) \in [1 .. n -> S]
                       /\ \A row \in S : \E k \in 1 .. n : Ordered(S)[k] = row
                       /\ \A j, k \in 1 .. n : j < k => Earlier(Ordered(S)[j], Ordered(S)[k])
  BY <1>0, OrderedRows, Zenon
<1>2. PICK s : s = Ordered(S)
  OBVIOUS
<1>3. s \in [1 .. n -> S] /\ DOMAIN s = 1 .. n /\ \A row \in S : \E k \in 1 .. n : s[k] = row
  BY <1>1, <1>2
<1>4. \A j, k \in 1 .. n : j < k => s[j] # s[k]
  <2>1. ASSUME NEW j \in 1 .. n, NEW k \in 1 .. n, j < k, s[j] = s[k] PROVE FALSE
    <3>1. PICK r \in S : r = s[j]
      BY <1>3
    <3>2. Earlier(r, r)
      BY <1>1, <1>2, <2>1, <3>1
    <3>3. r.from \in Int /\ r.id \in Int
      BY <1>0 DEF SoundTables
    <3> QED
      BY <3>2, <3>3 DEF Earlier
  <2> QED
    BY <2>1
<1>5. st \in V /\ \A t \in V : Sane(t, man, imp)
  BY DEF SaneStates, Sane, Dividing
<1>6. \A t, m : t \in V /\ m \in man => SplitAround(t, m, imps) \in V
  <2>1. ASSUME NEW t, NEW m, t \in V, m \in man PROVE Sane(SplitAround(t, m, imps), man, imp)
    BY <1>0, <1>5, <2>1, SplitAdds DEF Adds
  <2> QED
    BY <2>1 DEF SaneStates, Sane
<1> HIDE DEF V
<1>7. PICK h : /\ h[0] = st /\ \A k \in 1 .. n : h[k] = SplitAround(h[k - 1], s[k], imps)
               /\ new = h[n]
  <2>0. Divided(new, st, imps, s)
    BY <1>2 DEF imps, S
  <2>1. SplitsKeep(V, imps, s, n)
    BY <1>0, <1>3, <1>6 DEF SplitsKeep
  <2>2. PICK g : SplitSteps(g, st, imps, s, n, new)
    BY <1>5, <2>0, <2>1, Splits
  <2> QED
    BY <2>2 DEF SplitSteps
<1> DEFINE Done(k) == {s[j] : j \in 1 .. k}
           So(k) == Dividing(h[k], man, imp, Done(k))
           X == {k \in Nat : k <= n => So(k)}
<1>8. 0 \in X
  <2>1. Done(0) = {}
    OBVIOUS
  <2> QED
    BY <1>7, <2>1
<1>9. ASSUME NEW k \in Nat, k \in X PROVE k + 1 \in X
  <2>1. SUFFICES ASSUME k + 1 <= n PROVE So(k + 1)
    OBVIOUS
  <2>2. So(k) /\ k + 1 \in 1 .. n /\ (k + 1) - 1 = k /\ \A j \in 1 .. k : j \in 1 .. n /\ j < k + 1
    BY <1>9, <2>1
  <2>3. PICK acc, after, m : acc = h[k] /\ after = h[k + 1] /\ m = s[k + 1]
    OBVIOUS
  <2>4. after = SplitAround(acc, m, imps) /\ m \in S
    BY <1>3, <1>7, <2>2, <2>3
  <2>5. PICK done : done = Done(k)
    OBVIOUS
  <2>6. done \in SUBSET man /\ m \notin done
    BY <1>0, <1>3, <1>4, <2>2, <2>3, <2>5
  <2>7. Dividing(acc, man, imp, done)
    BY <2>2, <2>3, <2>5
  <2>8. Dividing(after, man, imp, done \cup {m})
    BY <2>4, <2>6, <2>7, DivideStep DEF S, imps
  <2>9. Done(k + 1) = done \cup {m}
    <3>1. \A j \in 1 .. k + 1 : j \in 1 .. k \/ j = k + 1
      OBVIOUS
    <3>2. 1 .. k \subseteq 1 .. k + 1 /\ k + 1 \in 1 .. k + 1
      OBVIOUS
    <3> QED
      BY <2>3, <2>5, <3>1, <3>2
  <2> QED
    BY <2>3, <2>8, <2>9
<1> HIDE DEF X
<1>10. Nat \subseteq X
  BY <1>8, <1>9, NumbersByInduction
<1>11. So(n)
  BY <1>10 DEF X
<1>12. Done(n) = S
  BY <1>3
<1> QED
  BY <1>7, <1>11, <1>12 DEF S

-----------------------------------------------------------------------------
\* The loop's first state and its last one's answer.
FirstState(man, imp) ==
  [maps |-> [k \in {r.id : r \in man \cup imp} |->
               LET r == CHOOSE r \in man \cup imp : r.id = k
               IN [from |-> r.from, to |-> r.to, number |-> 0]],
   answer |-> <<>>, next |-> 0]
Answered(all, imp) ==
  [k \in DOMAIN all.answer |->
     LET e == all.answer[k]
         m == IF e.row = 0 THEN e ELSE all.maps[e.row]
     IN [from |-> m.from, to |-> m.to, number |-> m.number, imported |-> e.row \in {i.id : i \in imp}]]
Skipped(st) == [st EXCEPT !.next = @ + 1]

\* The listing is the answer of the three loops, one after the other.
LEMMA ListingIs ==
  ASSUME NEW man, NEW imp
  PROVE  \E manual, whole, all :
           /\ Wholly(manual, FirstState(man, imp), Ordered(NonOverlappingManual(man, imp)))
           /\ Wholly(whole, manual, Ordered(NonOverlappingImported(man, imp)))
           /\ Divided(all, Skipped(whole), OverlappingImported(man, imp), Ordered(OverlappingManual(man, imp)))
           /\ GetAllWithImported(man, imp) = Answered(all, imp)
<1> DEFINE manual == FoldLeft(Whole, FirstState(man, imp), Ordered(NonOverlappingManual(man, imp)))
           whole == FoldLeft(Whole, manual, Ordered(NonOverlappingImported(man, imp)))
           imps == OverlappingImported(man, imp)
           all == FoldLeft(LAMBDA st, m : SplitAround(st, m, imps), Skipped(whole), Ordered(OverlappingManual(man, imp)))
<1>1. GetAllWithImported(man, imp) = Answered(all, imp)
  BY Zenon DEF GetAllWithImported, Answered, FirstState, Skipped
<1>2. Wholly(manual, FirstState(man, imp), Ordered(NonOverlappingManual(man, imp)))
  BY Zenon DEF Wholly
<1>3. Wholly(whole, manual, Ordered(NonOverlappingImported(man, imp)))
  BY Zenon DEF Wholly
<1>4. Divided(all, Skipped(whole), imps, Ordered(OverlappingManual(man, imp)))
  BY Zenon DEF Divided
<1> HIDE DEF manual, whole, all
<1> QED
  BY <1>1, <1>2, <1>3, <1>4, Zenon

\* The first state has the times of the tables, and nothing in the answer.
LEMMA StartIs ==
  ASSUME NEW man, NEW imp, SoundTables(man, imp)
  PROVE  /\ Sane(FirstState(man, imp), man, imp)
         /\ \A r \in man \cup imp : FirstState(man, imp).maps[r.id].from = r.from /\ FirstState(man, imp).maps[r.id].to = r.to
         /\ \A e : ~Has(FirstState(man, imp), e)
<1> DEFINE Row(k) == CHOOSE r \in man \cup imp : r.id = k
<1>1. PICK st : st = FirstState(man, imp)
  OBVIOUS
<1>2. PICK maps : maps = [k \in Ids(man, imp) |-> [from |-> Row(k).from, to |-> Row(k).to, number |-> 0]]
  OBVIOUS
<1>3. st = [maps |-> maps, answer |-> <<>>, next |-> 0]
  BY <1>1, <1>2, Zenon DEF FirstState, Ids
<1>4. ASSUME NEW r \in man \cup imp PROVE Row(r.id) = r
  BY <1>4, IdTypes
<1>5. \A k \in Ids(man, imp) : Row(k).from \in Int /\ Row(k).to \in Int
  <2>1. \A k \in Ids(man, imp) : \E r \in man \cup imp : k = r.id
    BY DEF Ids
  <2> HIDE DEF Row
  <2> QED
    BY <1>4, <2>1, IdTypes
<1> HIDE DEF Row
<1>6. maps \in Maps(Ids(man, imp))
  BY <1>2, <1>5 DEF Maps
<1>7. st \in States(Ids(man, imp)) /\ st.maps = maps /\ \A e : ~Has(st, e)
  BY <1>3, <1>6 DEF States, Has
<1>8. \A r \in man \cup imp : maps[r.id].from = r.from /\ maps[r.id].to = r.to
  <2>1. \A r \in man \cup imp : r.id \in Ids(man, imp)
    BY IdTypes
  <2> QED
    BY <1>2, <1>4, <2>1
<1>9. Sane(st, man, imp)
  <2>1. \A m \in man : m.from >= m.from /\ m.to <= m.to
    BY IdTypes
  <2> QED
    BY <1>7, <1>8, <2>1 DEF Sane
<1> QED
  BY <1>1, <1>7, <1>8, <1>9

\* A number that is left out changes nothing else.
LEMMA SkippedIs ==
  ASSUME NEW man, NEW imp, NEW st, Sane(st, man, imp)
  PROVE  /\ Sane(Skipped(st), man, imp)
         /\ Skipped(st).maps = st.maps
         /\ \A e : Has(Skipped(st), e) <=> Has(st, e)
<1> DEFINE ids == Ids(man, imp)
<1>1. PICK maps \in Maps(ids), answer \in Seq(Entries(ids)), next \in Nat :
        st = [maps |-> maps, answer |-> answer, next |-> next]
  BY DEF Sane, States
<1>2. PICK new : new = Skipped(st)
  OBVIOUS
<1>3. new = [maps |-> maps, answer |-> answer, next |-> next + 1]
  BY <1>1, <1>2 DEF Skipped
<1>4. /\ new \in States(ids) /\ new.maps = st.maps /\ new.answer = st.answer /\ new.next = st.next + 1
      /\ st.next \in Nat
  BY <1>1, <1>3 DEF States
<1>5. \A e : (Has(new, e) <=> Has(st, e)) /\ Listing(new, e) = Listing(st, e)
  BY <1>4 DEF Has, Listing
<1>6. \A e : Has(st, e) => Listing(st, e).number \in Nat
  <2>1. st \in States(ids)
    BY DEF Sane
  <2> HIDE DEF ids
  <2> QED
    BY <2>1, StateTypes DEF Listing
<1>7. \A e : Has(new, e) => Listing(new, e).number < new.next
  <2>1. \A e : Has(st, e) => Listing(st, e).number < st.next
    BY DEF Sane
  <2> QED
    BY <1>4, <1>5, <1>6, <2>1
<1>8. Sane(new, man, imp)
  BY <1>4, <1>5, <1>7 DEF Sane
<1> QED
  BY <1>2, <1>4, <1>5, <1>8

\* What the loop leaves behind: every imported row in a manual one is in the
\* answer, so are the manual rows that nothing overlaps.
LEMMA CalendarOf ==
  ASSUME NEW man, NEW imp, SoundTables(man, imp)
  PROVE  \E all : /\ GetAllWithImported(man, imp) = Answered(all, imp)
                  /\ Sane(all, man, imp)
                  /\ \A m \in man, i \in imp : Within(i, m) => Has(all, Ref(i))
                  /\ \A m \in NonOverlappingManual(man, imp) : Has(all, Ref(m))
                  /\ Apart(man) => Dividing(all, man, imp, Holding(man, imp))
<1>1. PICK manual, whole, all :
        /\ Wholly(manual, FirstState(man, imp), Ordered(NonOverlappingManual(man, imp)))
        /\ Wholly(whole, manual, Ordered(NonOverlappingImported(man, imp)))
        /\ Divided(all, Skipped(whole), OverlappingImported(man, imp), Ordered(OverlappingManual(man, imp)))
        /\ GetAllWithImported(man, imp) = Answered(all, imp)
  BY ListingIs, Zenon
<1>2. PICK start : start = FirstState(man, imp)
  OBVIOUS
<1>3. PICK M, I, O, H : /\ M = NonOverlappingManual(man, imp) /\ I = NonOverlappingImported(man, imp)
                        /\ O = OverlappingImported(man, imp) /\ H = Holding(man, imp)
  OBVIOUS
<1>4. /\ M \in SUBSET man /\ M \in SUBSET (man \cup imp) /\ H \in SUBSET man
      /\ I \in SUBSET imp /\ I \in SUBSET (man \cup imp) /\ O \in SUBSET imp
  BY <1>3 DEF NonOverlappingManual, NonOverlappingImported, OverlappingImported, Holding
<1>5. /\ Sane(start, man, imp) /\ \A e : ~Has(start, e)
      /\ \A r \in man \cup imp : start.maps[r.id].from = r.from /\ start.maps[r.id].to = r.to
  BY <1>2, StartIs
<1>6. /\ Sane(manual, man, imp) /\ SameRanges(manual, start, Ids(man, imp))
      /\ \A e : Has(manual, e) <=> Has(start, e) \/ \E r \in M : e = Ref(r)
  <2>1. Wholly(manual, start, Ordered(M))
    BY <1>1, <1>2, <1>3
  <2> QED
    BY <1>4, <1>5, <2>1, WholesAdd
<1>7. /\ Sane(whole, man, imp) /\ SameRanges(whole, manual, Ids(man, imp))
      /\ \A e : Has(whole, e) <=> Has(manual, e) \/ \E r \in I : e = Ref(r)
  <2>1. Wholly(whole, manual, Ordered(I))
    BY <1>1, <1>3
  <2> QED
    BY <1>4, <1>6, <2>1, WholesAdd
<1>8. PICK st : st = Skipped(whole)
  OBVIOUS
<1>9. Sane(st, man, imp) /\ st.maps = whole.maps /\ \A e : Has(st, e) <=> Has(whole, e)
  BY <1>7, <1>8, SkippedIs
<1>10. \A e : Has(st, e) <=> (\E r \in M : e = Ref(r)) \/ (\E r \in I : e = Ref(r))
  BY <1>5, <1>6, <1>7, <1>9
<1>11. \A r \in man : st.maps[r.id].from = r.from /\ st.maps[r.id].to = r.to
  <2>1. \A r \in man : r.id \in Ids(man, imp)
    BY IdTypes
  <2> QED
    BY <1>5, <1>6, <1>7, <1>9, <2>1 DEF SameRanges
<1>12. Divided(all, st, O, Ordered(H))
  BY <1>1, <1>3, <1>8, Zenon DEF OverlappingManual
<1>13. /\ Sane(all, man, imp)
       /\ \A e : Has(st, e) => Has(all, e)
       /\ \A m \in H : \A i \in Meeting(m, O) : Has(all, Ref(i))
  BY <1>4, <1>9, <1>12, SplitsAdd
<1>14. ASSUME NEW m \in man, NEW i \in imp, Within(i, m) PROVE Has(all, Ref(i))
  <2>1. i \in I \/ \E n \in H : i \in Meeting(n, O)
    BY <1>3, <1>14, InnerIsFound
  <2> QED
    BY <1>10, <1>13, <2>1
<1>15. ASSUME Apart(man) PROVE Dividing(all, man, imp, H)
  <2>0. /\ \A r, q \in man \cup imp : Ref(r) = Ref(q) => r = q
        /\ \A r \in man \cup imp : Ref(r).row # 0
        /\ \A r \in man, i \in imp : r # i
    BY IdTypes DEF Ref
  <2>1. OthersAreWhole(st, man, {})
    BY <1>11 DEF OthersAreWhole
  <2>2. RefsAreRight(st, man, imp, {})
    <3>1. ASSUME NEW m \in man, Has(st, Ref(m)) PROVE m \in M
      BY <1>4, <1>10, <2>0, <3>1
    <3>2. ASSUME NEW i \in imp, Has(st, Ref(i)) PROVE \E m \in man : Within(i, m)
      <4>1. i \in I
        BY <1>4, <1>10, <2>0, <3>2
      <4>2. PICK m \in man : Equal(i, m)
        BY <1>3, <4>1 DEF NonOverlappingImported
      <4>3. m.from \in Int /\ m.to \in Int
        BY IdTypes
      <4> QED
        BY <4>2, <4>3 DEF Equal, Within
    <3> QED
      BY <1>3, <3>1, <3>2 DEF RefsAreRight
  <2>3. HalvesAreClear(st, man, imp)
    BY <1>4, <1>10, <2>0 DEF HalvesAreClear
  <2>4. DoneAreClear(st, imp, {}) /\ DoneAreShown(st, imp, {})
    BY DEF DoneAreClear, DoneAreShown
  <2>5. Dividing(st, man, imp, {})
    BY <1>9, <2>1, <2>2, <2>3, <2>4 DEF Dividing
  <2>6. Divided(all, st, OverlappingImported(man, imp), Ordered(Holding(man, imp)))
    BY <1>3, <1>12
  <2> QED
    BY <1>3, <1>15, <2>5, <2>6, SplitsPart
<1> QED
  BY <1>1, <1>3, <1>10, <1>13, <1>14, <1>15

\* An entry of the loop's answer, as it is listed.
ListedAs(all, e, imp) ==
  [from |-> Listing(all, e).from, to |-> Listing(all, e).to, number |-> Listing(all, e).number,
   imported |-> e.row \in {i.id : i \in imp}]

\* The listed entries are those of the answer.
LEMMA AnsweredIs ==
  ASSUME NEW man, NEW imp, NEW all, Sane(all, man, imp), NEW answer, answer = Answered(all, imp)
  PROVE  /\ \A k \in DOMAIN answer : Has(all, all.answer[k]) /\ answer[k] = ListedAs(all, all.answer[k], imp)
         /\ \A x \in ToSet(answer) : \E e : Has(all, e) /\ x = ListedAs(all, e, imp)
         /\ \A e : Has(all, e) => ListedAs(all, e, imp) \in ToSet(answer)
<1>1. DOMAIN answer = DOMAIN all.answer
  BY DEF Answered
<1>2. ASSUME NEW k \in DOMAIN answer
      PROVE  Has(all, all.answer[k]) /\ answer[k] = ListedAs(all, all.answer[k], imp)
  BY <1>1, <1>2, Zenon DEF Answered, ListedAs, Listing, Has
<1> QED
  BY <1>1, <1>2 DEF ToSet, Has

\* The entries are of three kinds.
OfImported(all, e, imp) ==
  \E i \in imp : /\ e = Ref(i) /\ ListedAs(all, e, imp).imported = TRUE
                /\ Listing(all, e).from = i.from /\ Listing(all, e).to = i.to
OfHalf(all, e, imp) == e.row = 0 /\ Listing(all, e) = e /\ ListedAs(all, e, imp).imported = FALSE
OfManual(all, e, man, imp) ==
  \E m \in man : e = Ref(m) /\ ListedAs(all, e, imp).imported = FALSE /\ Listing(all, e) = all.maps[m.id]

\* Every entry is of one of the three kinds.
LEMMA EntryKinds ==
  ASSUME NEW man, NEW imp, SoundTables(man, imp), NEW all, Sane(all, man, imp), NEW e, Has(all, e)
  PROVE  /\ Listing(all, e).from \in Int /\ Listing(all, e).to \in Int
         /\ OfImported(all, e, imp) \/ OfHalf(all, e, imp) \/ OfManual(all, e, man, imp)
<1>1. /\ \A r \in man \cup imp : r.id \in Ids(man, imp) /\ r.id # 0
      /\ \A m \in man, i \in imp : m.id # i.id
  BY IdTypes
<1>2. e.row \in Ids(man, imp) \cup {0} /\ e.from \in Int /\ e.to \in Int
  BY StateTypes DEF Sane
<1>3. \A k \in Ids(man, imp) : all.maps[k].from \in Int /\ all.maps[k].to \in Int
  BY StateTypes DEF Sane
<1>4. /\ (\E i \in imp : e.row = i.id) => ListedAs(all, e, imp).imported = TRUE
      /\ ~(\E i \in imp : e.row = i.id) => ListedAs(all, e, imp).imported = FALSE
  <2>1. ASSUME \E i \in imp : e.row = i.id PROVE ListedAs(all, e, imp).imported = TRUE
    <3>1. (e.row \in {i.id : i \in imp}) = TRUE
      BY <2>1, Zenon
    <3>2. ListedAs(all, e, imp) =
            [from |-> Listing(all, e).from, to |-> Listing(all, e).to, number |-> Listing(all, e).number,
             imported |-> TRUE]
      BY <3>1, Zenon DEF ListedAs
    <3> QED
      BY <3>2
  <2>2. ASSUME ~(\E i \in imp : e.row = i.id) PROVE ListedAs(all, e, imp).imported = FALSE
    <3>0. ~(e.row \in {i.id : i \in imp})
      BY <2>2
    <3>1. (e.row \in {i.id : i \in imp}) = FALSE
      BY <3>0, SMT
    <3>2. ListedAs(all, e, imp) =
            [from |-> Listing(all, e).from, to |-> Listing(all, e).to, number |-> Listing(all, e).number,
             imported |-> FALSE]
      BY <3>1, Zenon DEF ListedAs
    <3> QED
      BY <3>2
  <2> QED
    BY <2>1, <2>2
<1>5. CASE e.row = 0
  <2>1. Listing(all, e) = e
    BY <1>5 DEF Listing
  <2> QED
    BY <1>1, <1>2, <1>4, <1>5, <2>1 DEF OfHalf
<1>6. CASE e.row # 0
  <2>1. Listing(all, e) = all.maps[e.row] /\ e = [row |-> e.row, from |-> 0, to |-> 0, number |-> 0]
    BY <1>6 DEF Listing, Sane
  <2>2. PICK r \in man \cup imp : e.row = r.id
    BY <1>2, <1>6 DEF Ids
  <2>3. e = Ref(r)
    BY <2>1, <2>2 DEF Ref
  <2>4. CASE r \in imp
    BY <1>1, <1>3, <1>4, <2>1, <2>2, <2>3, <2>4 DEF Sane, OfImported
  <2>5. CASE r \in man
    BY <1>1, <1>3, <1>4, <2>1, <2>2, <2>3, <2>5 DEF OfManual
  <2> QED
    BY <2>4, <2>5
<1> QED
  BY <1>5, <1>6

-----------------------------------------------------------------------------
\* What a listing is: the loop's answer on the tables, for all of the proofs below.
AnswerOf(all, man, imp) ==
  /\ SoundTables(man, imp) /\ man = tables.manual /\ imp = tables.imported
  /\ Sane(all, man, imp)
  /\ listing = Answered(all, imp)
  /\ \A m \in man, i \in imp : Within(i, m) => Has(all, Ref(i))
  /\ \A m \in NonOverlappingManual(man, imp) : Has(all, Ref(m))
  /\ Apart(man) => Dividing(all, man, imp, Holding(man, imp))

\* The listed entries and where they come from.
LEMMA ListedAre ==
  ASSUME NEW man, NEW imp, NEW all, AnswerOf(all, man, imp)
  PROVE  /\ \A x \in ToSet(listing) : \E e : Has(all, e) /\ x = ListedAs(all, e, imp)
         /\ \A x \in ToSet(listing) : x.from \in Int /\ x.to \in Int
         /\ \A x \in Listed("imported") :
              \E i \in imp : Has(all, Ref(i)) /\ x.from = i.from /\ x.to = i.to
         /\ \A x \in Listed("manual") :
              \/ \E e : Has(all, e) /\ e.row = 0 /\ x.from = e.from /\ x.to = e.to
              \/ \E m \in man : Has(all, Ref(m)) /\ x.from = all.maps[m.id].from /\ x.to = all.maps[m.id].to
<1>1. /\ \A x \in ToSet(listing) : \E e : Has(all, e) /\ x = ListedAs(all, e, imp)
      /\ Sane(all, man, imp) /\ SoundTables(man, imp)
  BY AnsweredIs DEF AnswerOf
<1>2. ASSUME NEW x \in ToSet(listing)
      PROVE  /\ x.from \in Int /\ x.to \in Int
             /\ \/ /\ x.imported = TRUE
                   /\ \E i \in imp : Has(all, Ref(i)) /\ x.from = i.from /\ x.to = i.to
                \/ /\ x.imported = FALSE
                   /\ \E e : Has(all, e) /\ e.row = 0 /\ x.from = e.from /\ x.to = e.to
                \/ /\ x.imported = FALSE
                   /\ \E m \in man : Has(all, Ref(m)) /\ x.from = all.maps[m.id].from /\ x.to = all.maps[m.id].to
  <2>1. PICK e : Has(all, e) /\ x = ListedAs(all, e, imp)
    BY <1>1
  <2>2. x.from = Listing(all, e).from /\ x.to = Listing(all, e).to
    BY <2>1 DEF ListedAs
  <2>3. /\ Listing(all, e).from \in Int /\ Listing(all, e).to \in Int
        /\ OfImported(all, e, imp) \/ OfHalf(all, e, imp) \/ OfManual(all, e, man, imp)
    BY <1>1, <2>1, EntryKinds
  <2> QED
    BY <2>1, <2>2, <2>3 DEF OfImported, OfHalf, OfManual
<1>3. ASSUME NEW x \in Listed("imported") PROVE x \in ToSet(listing) /\ x.imported # FALSE
  BY DEF Listed
<1>4. ASSUME NEW x \in Listed("manual") PROVE x \in ToSet(listing) /\ x.imported # TRUE
  BY DEF Listed
<1> QED
  BY <1>1, <1>2, <1>3, <1>4

\* A time that the loop's answer shows is listed.
LEMMA ShownIsListed ==
  ASSUME NEW man, NEW imp, NEW all, AnswerOf(all, man, imp), NEW t \in Int, Shown(all, t)
  PROVE  t \in Cells(ToSet(listing))
<1>1. PICK e : Has(all, e) /\ During(t, Listing(all, e))
  BY DEF Shown
<1>2. Sane(all, man, imp) /\ SoundTables(man, imp) /\ listing = Answered(all, imp)
  BY DEF AnswerOf
<1>3. PICK x \in ToSet(listing) : x = ListedAs(all, e, imp)
  BY <1>1, <1>2, AnsweredIs
<1>4. x.from = Listing(all, e).from /\ x.to = Listing(all, e).to
  BY <1>3 DEF ListedAs
<1>5. x.from \in Int /\ x.to \in Int
  BY ListedAre
<1>6. t \in x.from .. (x.to - 1)
  BY <1>1, <1>4, <1>5 DEF During
<1> QED
  BY <1>3, <1>6 DEF Cells

\* Nothing is made up (NothingInvented).
LEMMA NoneInvented ==
  ASSUME NEW man, NEW imp, NEW all, AnswerOf(all, man, imp)
  PROVE  NothingInvented
<1>1. Sane(all, man, imp) /\ SoundTables(man, imp) /\ man = tables.manual /\ imp = tables.imported
  BY DEF AnswerOf
<1>2. ASSUME NEW x \in Listed("manual") PROVE \E m \in man : Within(x, m)
  <2>1. CASE \E e : Has(all, e) /\ e.row = 0 /\ x.from = e.from /\ x.to = e.to
    BY <1>1, <2>1 DEF Sane, Within
  <2>2. CASE \E m \in man : Has(all, Ref(m)) /\ x.from = all.maps[m.id].from /\ x.to = all.maps[m.id].to
    BY <1>1, <2>2 DEF Sane, Within
  <2> QED
    BY <2>1, <2>2, ListedAre
<1>3. ASSUME NEW x \in Listed("imported") PROVE \E i \in imp : Equal(x, i)
  BY ListedAre DEF Equal
<1> QED
  BY <1>1, <1>2, <1>3 DEF NothingInvented

\* No time is listed as of both kinds (KindsApart).
LEMMA KindsAreApart ==
  ASSUME NEW man, NEW imp, NEW all, AnswerOf(all, man, imp)
  PROVE  KindsApart
<1>1. SUFFICES ASSUME Apart(man), NEW x \in Listed("manual"), NEW y \in Listed("imported"),
                      NEW t \in x.from .. (x.to - 1), t \in y.from .. (y.to - 1)
               PROVE  FALSE
  BY DEF KindsApart, Cells, AnswerOf
<1>2. Sane(all, man, imp) /\ SoundTables(man, imp)
  BY DEF AnswerOf
<1>3. Dividing(all, man, imp, Holding(man, imp))
  BY <1>1 DEF AnswerOf
<1>4. x \in ToSet(listing) /\ y \in ToSet(listing)
  BY DEF Listed
<1>5. x.from \in Int /\ x.to \in Int /\ y.from \in Int /\ y.to \in Int
  BY <1>4, ListedAre
<1>6. x.from <= t /\ t < x.to /\ y.from <= t /\ t < y.to /\ t \in Int
  BY <1>1, <1>5
<1>7. PICK i \in imp : Has(all, Ref(i)) /\ y.from = i.from /\ y.to = i.to
  BY ListedAre
<1>8. PICK home \in man : Within(i, home)
  BY <1>3, <1>7 DEF Dividing, RefsAreRight
<1>9. \A r \in man \cup imp : r.from \in Int /\ r.to \in Int /\ r.from < r.to
  BY <1>2, IdTypes
<1>10. ASSUME NEW m \in man, Within(x, m) PROVE m = home
  <2>1. m # home => m.to < home.from \/ home.to < m.from
    BY <1>1 DEF Apart
  <2> QED
    BY <1>5, <1>6, <1>7, <1>8, <1>9, <1>10, <2>1 DEF Within
<1>11. i \in Inner(home, imp)
  BY <1>8 DEF Inner
<1>12. CASE \E e : Has(all, e) /\ e.row = 0 /\ x.from = e.from /\ x.to = e.to
  <2>1. PICK e : Has(all, e) /\ e.row = 0 /\ x.from = e.from /\ x.to = e.to
    BY <1>12
  <2>2. PICK m \in man : Within(e, m) /\ Clear(e, Inner(m, imp))
    BY <1>3, <2>1 DEF Dividing, HalvesAreClear
  <2>3. m = home
    BY <1>10, <2>1, <2>2 DEF Within
  <2>4. i.to <= e.from \/ e.to <= i.from
    BY <1>11, <2>2, <2>3 DEF Clear
  <2> QED
    BY <1>5, <1>6, <1>7, <2>1, <2>4
<1>13. CASE \E m \in man : Has(all, Ref(m)) /\ x.from = all.maps[m.id].from /\ x.to = all.maps[m.id].to
  <2>1. PICK m \in man : Has(all, Ref(m)) /\ x.from = all.maps[m.id].from /\ x.to = all.maps[m.id].to
    BY <1>13
  <2>2. Within(x, m)
    BY <1>2, <2>1 DEF Sane, Within
  <2>3. m = home
    BY <1>10, <2>2
  <2>4. m \in Holding(man, imp)
    <3>1. m \in NonOverlappingManual(man, imp) \cup Holding(man, imp)
      BY <1>3, <2>1 DEF Dividing, RefsAreRight
    <3>2. m \notin NonOverlappingManual(man, imp)
      BY <1>8, <1>9, <2>3 DEF NonOverlappingManual, Holding, Matched, Inside, Equal, Within
    <3> QED
      BY <3>1, <3>2
  <2>5. Clear(all.maps[m.id], Inner(m, imp))
    BY <1>3, <2>4 DEF Dividing, DoneAreClear
  <2>6. i.to <= x.from \/ x.to <= i.from
    BY <1>11, <2>1, <2>3, <2>5 DEF Clear
  <2> QED
    BY <1>5, <1>6, <1>7, <2>6
<1> QED
  BY <1>12, <1>13, ListedAre

\* Imported rows in manual ones are listed (HeldRowsAreListed).
LEMMA HeldAreListed ==
  ASSUME NEW man, NEW imp, NEW all, AnswerOf(all, man, imp)
  PROVE  HeldRowsAreListed
<1>1. SUFFICES ASSUME NEW i \in imp, NEW m \in man, Within(i, m)
               PROVE  \E x \in Listed("imported") : Equal(x, i)
  BY DEF HeldRowsAreListed, AnswerOf
<1>2. Sane(all, man, imp) /\ SoundTables(man, imp) /\ listing = Answered(all, imp) /\ Has(all, Ref(i))
  BY <1>1 DEF AnswerOf
<1>3. PICK e : e = Ref(i) /\ Has(all, e)
  BY <1>2
<1>4. PICK x \in ToSet(listing) : x = ListedAs(all, e, imp)
  BY <1>2, <1>3, AnsweredIs
<1>5. /\ i.id # 0 /\ i.id \in Ids(man, imp)
      /\ \A j \in man, l \in imp : j.id # l.id
      /\ \A r, q \in man \cup imp : Ref(r) = Ref(q) => r = q
      /\ Ref(i).row = i.id
  BY <1>2, IdTypes DEF Ref
<1>6. x.imported = TRUE /\ x.from = i.from /\ x.to = i.to
  <2>1. PICK j \in imp : /\ e = Ref(j) /\ ListedAs(all, e, imp).imported = TRUE
                         /\ Listing(all, e).from = j.from /\ Listing(all, e).to = j.to
    <3>1. e.row # 0 /\ ~(\E n \in man : e = Ref(n))
      BY <1>3, <1>5 DEF Ref
    <3>2. OfImported(all, e, imp) \/ OfHalf(all, e, imp) \/ OfManual(all, e, man, imp)
      BY <1>2, <1>3, EntryKinds
    <3> QED
      BY <3>1, <3>2 DEF OfImported, OfHalf, OfManual
  <2>2. j = i
    BY <1>3, <1>5, <2>1
  <2>3. x.from = Listing(all, e).from /\ x.to = Listing(all, e).to
    BY <1>4 DEF ListedAs
  <2> QED
    BY <1>4, <2>1, <2>2, <2>3
<1>7. x \in Listed("imported")
  <2>1. (x.imported = ("imported" = "imported"))
    BY <1>6
  <2> QED
    BY <2>1 DEF Listed
<1> QED
  BY <1>6, <1>7 DEF Equal

\* Only what comes after the last imported row is lost (OnlyTheRestIsLost).
LEMMA RestIsLost ==
  ASSUME NEW man, NEW imp, NEW all, AnswerOf(all, man, imp)
  PROVE  OnlyTheRestIsLost
<1>1. SUFFICES ASSUME Apart(man), NEW m \in man, NEW t \in Cells({m}), t \notin Cells(ToSet(listing))
               PROVE  Inner(m, imp) # {} /\ \A i \in Inner(m, imp) : i.to <= t
  BY DEF OnlyTheRestIsLost, AnswerOf, Inner
<1>2. /\ Sane(all, man, imp) /\ SoundTables(man, imp) /\ Dividing(all, man, imp, Holding(man, imp))
      /\ \A i \in imp : Within(i, m) => Has(all, Ref(i))
      /\ m \in NonOverlappingManual(man, imp) => Has(all, Ref(m))
  BY <1>1 DEF AnswerOf
<1>3. \A r \in man \cup imp : r.from \in Int /\ r.to \in Int /\ r.from < r.to /\ r.id # 0
  BY <1>2, IdTypes
<1>4. t \in Int /\ m.from <= t /\ t < m.to
  BY <1>3 DEF Cells
<1>5. ~Shown(all, t)
  BY <1>1, <1>4, ShownIsListed
<1>6. Inner(m, imp) # {}
  <2>1. SUFFICES ASSUME Inner(m, imp) = {} PROVE FALSE
    OBVIOUS
  <2>2. m \notin Holding(man, imp) /\ m \notin Matched(man, imp)
    BY <1>3, <2>1 DEF Holding, Matched, Inner, Inside, Equal, Within
  <2>3. Has(all, Ref(m)) /\ all.maps[m.id].from = m.from /\ all.maps[m.id].to = m.to
    BY <1>2, <2>2 DEF NonOverlappingManual, Dividing, OthersAreWhole
  <2>4. Listing(all, Ref(m)) = all.maps[m.id]
    BY <1>3 DEF Listing, Ref
  <2> QED
    BY <1>4, <1>5, <2>3, <2>4 DEF Shown, During
<1>7. ASSUME NEW i \in Inner(m, imp) PROVE i.to <= t
  <2>1. i \in imp /\ Within(i, m) /\ i.from \in Int /\ i.to \in Int /\ i.from < i.to
    BY <1>3 DEF Inner
  <2>2. CASE m \in Holding(man, imp)
    <3>1. m.from <= t /\ t < i.to => Shown(all, t)
      BY <1>2, <1>4, <2>2 DEF Dividing, DoneAreShown
    <3> QED
      BY <1>4, <1>5, <2>1, <3>1
  <2>3. CASE m \notin Holding(man, imp)
    <3>1. Equal(i, m)
      <4>1. m \in Matched(man, imp) \/ ~Inside(i, m)
        BY <2>1, <2>3 DEF Holding
      <4>2. CASE ~Inside(i, m)
        BY <1>3, <2>1, <4>2 DEF Inside, Within, Equal
      <4>3. CASE m \in Matched(man, imp)
        <5>1. PICK j \in imp : Equal(j, m)
          BY <4>3 DEF Matched
        <5>2. j # i => j.to < i.from \/ i.to < j.from
          BY <1>2, <2>1 DEF SoundTables
        <5> QED
          BY <1>3, <2>1, <5>1, <5>2 DEF Equal, Within
      <4> QED
        BY <4>1, <4>2, <4>3
    <3>2. Listing(all, Ref(i)) = all.maps[i.id]
      BY <1>3, <2>1 DEF Listing, Ref
    <3>3. all.maps[i.id].from = m.from /\ all.maps[i.id].to = m.to
      BY <1>2, <2>1, <3>1 DEF Sane, Equal
    <3> QED
      BY <1>2, <1>4, <1>5, <2>1, <3>2, <3>3 DEF Shown, During
  <2> QED
    BY <2>2, <2>3
<1> QED
  BY <1>6, <1>7

\* Entries of one number are one range (NumbersIdentify).
LEMMA NumbersAreIds ==
  ASSUME NEW man, NEW imp, NEW all, AnswerOf(all, man, imp)
  PROVE  NumbersIdentify
<1>1. SUFFICES ASSUME NEW j \in DOMAIN listing, NEW k \in DOMAIN listing, listing[j].number = listing[k].number
               PROVE  listing[j] = listing[k]
  BY DEF NumbersIdentify
<1>2. Sane(all, man, imp) /\ listing = Answered(all, imp)
  BY DEF AnswerOf
<1>3. PICK e, f : e = all.answer[j] /\ f = all.answer[k]
  OBVIOUS
<1>4. Has(all, e) /\ listing[j] = ListedAs(all, e, imp) /\ Has(all, f) /\ listing[k] = ListedAs(all, f, imp)
  BY <1>2, <1>3, AnsweredIs
<1>5. Listing(all, e).number = Listing(all, f).number
  BY <1>1, <1>4 DEF ListedAs
<1>6. e = f
  BY <1>2, <1>4, <1>5 DEF Sane
<1> QED
  BY <1>4, <1>6

\* The tables are one of the calendars there may be, and the listing is still to
\* come or is the answer on them.
ListingInv ==
  /\ tables \in Calendars
  /\ listing = <<>> \/ listing = GetAllWithImported(tables.manual, tables.imported)

\* The five together.
LEMMA ListingIsSound ==
  ASSUME ListingInv
  PROVE  CalendarIsSound
<1>1. CASE listing = <<>>
  <2>1. ToSet(listing) = {} /\ \A as : Listed(as) = {}
    BY <1>1 DEF Listed, ToSet
  <2>2. Cells(Listed("manual")) = {}
    BY <2>1 DEF Cells
  <2>3. NothingInvented /\ KindsApart /\ HeldRowsAreListed /\ OnlyTheRestIsLost /\ NumbersIdentify
    BY <1>1, <2>1, <2>2 DEF NothingInvented, KindsApart, HeldRowsAreListed, OnlyTheRestIsLost, NumbersIdentify
  <2> QED
    BY <2>3 DEF CalendarIsSound
<1>2. CASE listing # <<>>
  <2>1. PICK man, imp : man = tables.manual /\ imp = tables.imported
    OBVIOUS
  <2>2. SoundTables(man, imp)
    BY <2>1, CalendarsAssumption DEF ListingInv, SoundTables
  <2>3. PICK all : /\ GetAllWithImported(man, imp) = Answered(all, imp)
                   /\ Sane(all, man, imp)
                   /\ \A m \in man, i \in imp : Within(i, m) => Has(all, Ref(i))
                   /\ \A m \in NonOverlappingManual(man, imp) : Has(all, Ref(m))
                   /\ Apart(man) => Dividing(all, man, imp, Holding(man, imp))
    BY <2>2, CalendarOf, Zenon
  <2>4. AnswerOf(all, man, imp)
    BY <1>2, <2>1, <2>2, <2>3 DEF AnswerOf, ListingInv
  <2>5. NothingInvented /\ KindsApart /\ HeldRowsAreListed /\ OnlyTheRestIsLost /\ NumbersIdentify
    BY <2>4, NoneInvented, KindsAreApart, HeldAreListed, RestIsLost, NumbersAreIds
  <2> QED
    BY <2>5 DEF CalendarIsSound
<1> QED
  BY <1>1, <1>2

\* The calendar a moderator is listed is sound, for whatever manual rows and
\* whatever imported rows that are apart: the loop over shared maps invents no
\* time, lists none as of both kinds, loses only what comes after the last
\* imported row of a manual one, and gives no number to two ranges.
THEOREM CalendarKept == ListingSpec => []CalendarIsSound
<1>1. ListingInit => ListingInv
  BY DEF ListingInit, ListingInv
<1>2. ListingInv /\ [List]_listingVars => ListingInv'
  BY DEF ListingInv, List, listingVars
<1>3. ListingInv => CalendarIsSound
  BY ListingIsSound
<1> QED
  BY <1>1, <1>2, <1>3, PTL DEF ListingSpec
=============================================================================
