----------------------------- MODULE PagedLists -----------------------------
(***************************************************************************)
(* Lists that are handed out by pages.  One statement counts what there    *)
(* is, a second one reads LIMIT rows from an OFFSET on; a client asks for  *)
(* one page after another until it has as many as it was told of.  Nothing *)
(* holds the table still meanwhile: rows are added, removed and touched    *)
(* between two pages and between the two statements.                       *)
(*                                                                         *)
(* What is listed differs: rows may be multiplied by a join while the      *)
(* count is of the distinct ones, the order may be by a time that every    *)
(* change renews, two databases may be asked for the same page.            *)
(***************************************************************************)
EXTENDS Integers, FiniteSets, FiniteSetsExt

CONSTANTS
  Item,        \* slots, respondents, projects, users or crowds
  Default, Cap, \* 20 and 100 rows to a page
  Latest,      \* keys of the order are 0 .. Latest; the first rows are between them
  Changes,     \* bounds what happens to the table
  MaxPage      \* bounds the pages that are read

ASSUME PagesAssumption == IsFiniteSet(Item) /\ {Default, Cap} \subseteq Nat \ {0} /\ Latest \in Nat

VARIABLES
  kind,    \* the list
  table,   \* by item: its database, the key it is ordered by, its joined rows, whether it is to be shown
  reader,  \* the client: what it asked for, the page it is at, what it was told and what it saw
  past     \* history: what happened since it began

pagedVars == <<kind, table, reader, past>>

Lists == {"timeslots", "bookings", "participants", "projects", "admins", "crowds", "questionTypes"}

\* An item has several rows: moderators of a slot, telephones of a respondent.
Joined == {"timeslots", "bookings", "participants"}

\* Two databases give a page each.
Sources == [k \in Lists |-> IF k \in {"projects", "admins"} THEN {"iris", "qs"} ELSE {"qs"}]

\* ORDER BY modified_on DESC: what is touched comes to the front.  The order by
\* created_on or id stays; by start_time or name, a change moves a row anywhere.
Newest == {"participants", "admins"}
Anywhere == {"timeslots", "bookings", "crowds"}

-----------------------------------------------------------------------------
(* One page *)

There(k) == {i \in Item : table[i].there}
RowsOf(s) == {r \in {j \in There(kind) : table[j].source = s} \X {1, 2} : r[2] <= table[r[1]].rows}

\* The sizes that the handlers settle on: what is out of range is the default
\* for one group and the largest for the other; a crowd list is not capped.
PageSize(k, asked) ==
  CASE k \in {"projects", "admins"} -> IF asked < 1 THEN Default ELSE IF asked > Cap THEN Cap ELSE asked
    [] k = "crowds" -> IF asked < 1 THEN Default ELSE asked
    [] OTHER -> IF asked < 1 \/ asked > Cap THEN Default ELSE asked

\* Mutant: a row is left out between two pages.
Offset_Gap(page, size) == (page - 1) * (size + 1)

Offset(page, size) == (page - 1) * size

\* LIMIT and OFFSET over rows in descending order.  Rows of one key come in any
\* order: of those that the page cuts through, any may be in it.
Before(s, key) == Cardinality({r \in RowsOf(s) : table[r[1]].key > key})
With(s, key) == {r \in RowsOf(s) : table[r[1]].key = key}
InWindow(s, key, off, size) ==
  LET first == Before(s, key)
      Least(a, b) == IF a < b THEN a ELSE b
      from == IF first > off THEN first ELSE off
      to == Least(first + Cardinality(With(s, key)), off + size)
  IN IF to > from THEN to - from ELSE 0
Pages(s, off, size) ==
  {P \in SUBSET RowsOf(s) :
     \A key \in 0 .. Latest : Cardinality(P \cap With(s, key)) = InWindow(s, key, off, size)}
Ties(s, off, size) ==
  \E key \in 0 .. Latest : InWindow(s, key, off, size) \notin {0, Cardinality(With(s, key))}

\* The question types are read whole and then cut; an offset beyond the end and
\* a limit beyond it are ignored.
Slice(off, size) ==
  LET all == RowsOf("qs")
      rest == IF off < Cardinality(all) THEN off ELSE 0
  IN CHOOSE P \in Pages("qs", rest, size) : TRUE

\* COUNT(DISTINCT id) or COUNT(*) of the table.
Count == Cardinality(There(kind))

-----------------------------------------------------------------------------
(* The client *)

Start == [size |-> 0, page |-> 1, told |-> 0, seen |-> [i \in Item |-> 0], at |-> "idle"]
Untouched == [at |-> {}, added |-> FALSE, removed |-> FALSE, overtaken |-> FALSE, tied |-> FALSE,
              failed |-> FALSE, changes |-> 0]

\* The first page is asked for, with a size of the client's choice.
Begin(asked) ==
  /\ reader.at = "idle"
  /\ reader' = [reader EXCEPT !.size = PageSize(kind, asked), !.at = "count"]
  /\ UNCHANGED <<kind, table, past>>

\* The first statement of a page; for the merged lists its result is not used.
ReadCount ==
  /\ reader.at = "count"
  /\ reader' = [reader EXCEPT !.told = Count, !.at = "page"]
  /\ UNCHANGED <<kind, table, past>>

Twice(n) == IF n < 2 THEN n ELSE 2
Seen(P) ==
  [i \in Item |->
     IF kind = "bookings" /\ ~table[i].shown THEN 0
     ELSE Twice(reader.seen[i] + Cardinality({r \in P : r[1] = i}))]

\* What the client does with a page of n rows: it goes on until it has been
\* given as many as there are, or, told no number, until a page is empty.
Turn(P, told) ==
  LET over == IF kind = "admins" THEN P = {} ELSE reader.page * reader.size >= told
  IN reader' = [reader EXCEPT !.told = told, !.seen = Seen(P),
                              !.page = IF over THEN @ ELSE @ + 1,
                              !.at = IF over THEN "done" ELSE "count"]

\* The second statement of one database.
ReadPage ==
  /\ reader.at = "page" /\ kind \notin {"projects", "admins", "questionTypes"}
  /\ reader.page <= MaxPage
  /\ LET off == Offset(reader.page, reader.size)
     IN /\ \E P \in Pages("qs", off, reader.size) : Turn(P, reader.told)
        /\ past' = [past EXCEPT !.tied = @ \/ Ties("qs", off, reader.size)]
  /\ UNCHANGED <<kind, table>>

ReadQuestionTypes ==
  /\ reader.at = "page" /\ kind = "questionTypes" /\ reader.page <= MaxPage
  /\ Turn(Slice(Offset(reader.page, reader.size), reader.size), Cardinality(RowsOf("qs")))
  /\ UNCHANGED <<kind, table, past>>

\* The merged lists: the page of each database, and as the total of projects the
\* length of what was put together.  A database that fails is logged and left out.
ReadBoth ==
  /\ reader.at = "page" /\ kind \in {"projects", "admins"} /\ reader.page <= MaxPage
  /\ LET off == Offset(reader.page, reader.size)
     IN \E P \in Pages("iris", off, reader.size), Q \in Pages("qs", off, reader.size), fails \in SUBSET {"iris", "qs"} :
          LET both == {r \in P \cup Q : table[r[1]].source \notin fails}
          IN /\ Turn(both, Cardinality(both))
             /\ past' = [past EXCEPT !.tied = @ \/ \E s \in Sources[kind] : Ties(s, off, reader.size),
                                     !.failed = @ \/ fails # {}]
  /\ UNCHANGED <<kind, table>>

-----------------------------------------------------------------------------
(* Everybody else *)

Change(i, row) ==
  /\ reader.at # "done" /\ past.changes < Changes
  /\ table' = [table EXCEPT ![i] = row]
  /\ UNCHANGED <<kind, reader>>
Happened(i) == [past EXCEPT !.at = @ \cup {i}, !.changes = @ + 1]

\* A new row is the newest: the first of a list in order of time, the last by id.
AddItem(i, key) ==
  /\ ~table[i].there
  /\ kind \notin Anywhere => key = (IF kind = "questionTypes" THEN 0 ELSE Latest)
  /\ Change(i, [table[i] EXCEPT !.there = TRUE, !.key = key])
  /\ past' = [Happened(i) EXCEPT !.added = TRUE, !.overtaken = @ \/ reader.at = "page"]

RemoveItem(i) ==
  /\ table[i].there
  /\ Change(i, [table[i] EXCEPT !.there = FALSE])
  /\ past' = [Happened(i) EXCEPT !.removed = TRUE]

\* A row is changed, which moves it where the order says.
TouchItem(i, key) ==
  /\ table[i].there /\ kind \in Newest \cup Anywhere
  /\ kind \in Newest => key = Latest
  /\ Change(i, [table[i] EXCEPT !.key = key])
  /\ past' = Happened(i)

PagedInit ==
  /\ kind \in Lists
  /\ table \in [Item -> [source : Sources[kind], key : 1 .. Latest - 1, there : BOOLEAN,
                         rows : IF kind \in Joined THEN {1, 2} ELSE {1},
                         shown : IF kind = "bookings" THEN BOOLEAN ELSE {TRUE}]]
  /\ kind = "questionTypes" => \A i, j \in Item : i # j => table[i].key # table[j].key
  /\ reader = Start /\ past = Untouched

PagedNext ==
  \/ \E asked \in {0, Default, Cap + 1} : Begin(asked)
  \/ ReadCount \/ ReadPage \/ ReadQuestionTypes \/ ReadBoth
  \/ \E i \in Item, key \in 0 .. Latest : AddItem(i, key) \/ RemoveItem(i) \/ TouchItem(i, key)

PagedSpec == PagedInit /\ [][PagedNext]_pagedVars

-----------------------------------------------------------------------------
(* Properties: what a client that reads all of a list may rely on *)

Still == {i \in Item : table[i].there /\ table[i].shown /\ i \notin past.at}
Wide == \E i \in Item : table[i].rows > 1
Cut == kind = "projects" /\ \E s \in Sources[kind] : Cardinality(RowsOf(s)) > reader.size

\* A client that has read a list to its end has been shown every row that was
\* there all the time and that nobody touched; where it has not, a row before it
\* went away (or, in an order by name or start, was moved), rows of one key fell
\* on two pages, a joined row took the place of others, a row was added after the
\* count, a database failed, or the total of the merged projects was a page's.
SkippedHasCause ==
  reader.at = "done" =>
    \A i \in Still :
      reader.seen[i] = 0 =>
        \/ past.removed \/ past.tied \/ past.overtaken \/ past.failed \/ Wide \/ Cut
        \/ kind \in Anywhere /\ past.at # {}

\* It has been shown such a row twice only where a row came in before it (added,
\* or touched in an order that this changes), rows of one key fell on two pages,
\* the row is several by a join, or question types went away and the offset, now
\* beyond the end, was ignored.
RepeatedHasCause ==
  reader.at = "done" =>
    \A i \in Still :
      reader.seen[i] > 1 =>
        \/ past.added \/ past.tied \/ Wide
        \/ kind = "questionTypes" /\ past.removed
        \/ kind \in Newest \cup Anywhere /\ past.at # {}

\* Both, for every list of the server that comes by pages.
PagesHaveCause == SkippedHasCause /\ RepeatedHasCause
=============================================================================
