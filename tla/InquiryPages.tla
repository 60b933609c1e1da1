---------------------------- MODULE InquiryPages ----------------------------
(***************************************************************************)
(* The proposal of a qualitative project: the preview that prices it and   *)
(* says whether its crowds are feasible, and the page of a proposal that   *)
(* was saved.  Both put many statements; products, the table of            *)
(* difficulties, the market's panelists and the project's fees are edited  *)
(* meanwhile, and most statements that fail are only logged.               *)
(*                                                                         *)
(* Prices and the discount multiply the counts of this model and are left  *)
(* out.  The legacy application saves proposals.                           *)
(***************************************************************************)
EXTENDS Integers, Sequences

CONSTANTS
  Crowd, Product, Fee,
  Market,         \* 1 is the market of physicians
  Catalogs,       \* products there may be
  Proposals,      \* crowds of a proposal there may be
  Tables,         \* tables of difficulties there may be, a table a sequence of rows
  People,         \* panelists in a market: as many expected to attend for one unit of the level
  InquiryEdits,   \* bounds what others change
  InquiryFaults   \* statements that may fail

ASSUME RowsAssumption ==
  /\ \A g \in Catalogs, p \in Product : g[p].specialized \in BOOLEAN
  /\ \A g \in Proposals, c \in Crowd : g[c].market \in Market

VARIABLES
  catalog, difficulties, people, \* the products, the rows of difficulty_assessment, the markets' panelists
  crowds,   \* of the proposal
  preview,  \* where it is and what it knows
  saved,    \* the inquiry and its project: status, fees not removed, assessments; none at first
  page,     \* where the page is and what it knows
  changed   \* history: what others changed, and what failed

inquiryVars == <<catalog, difficulties, people, crowds, preview, saved, page, changed>>

\* Bound: statements of one kind fail in a behaviour.
MayFail(what) == what \in InquiryFaults /\ changed.failed \subseteq {what}

Nowhere == 0

-----------------------------------------------------------------------------
(* What the preview computes *)

\* IPIsSpecializedCrowd; special is an attribute 1 with a choice other than 304.
IsSpecialized(c) == crowds[c].market = 1 /\ (crowds[c].custom \/ crowds[c].special)

\* IPCrowdMatchesProduct.
Matches(c, p, related) ==
  \/ crowds[c].market \in related
  \/ catalog[p].specialized /\ IsSpecialized(c)
  \/ ~catalog[p].specialized /\ ~IsSpecialized(c) /\ crowds[c].market = 1

\* The crowds whose respondents are the units of a product's fee: for a honorarium
\* those that it is for; a flat fee has one unit.
Units(p, related) ==
  CASE catalog[p].kind = "honorarium" -> {c \in Crowd : Matches(c, p, related)}
    [] catalog[p].kind = "flat" -> {}
    [] OTHER -> Crowd

\* Transcription products if they are asked for, and of the products with a
\* length those of the interviews' length.
Chosen(p) ==
  /\ ~catalog[p].transcription
  /\ catalog[p].ofLength

\* min_percent <= score and score < max_percent; a row may lack either.  The
\* score is attendance / requested.
Holds(row, attendance, requested) ==
  /\ row.min = Nowhere \/ row.min * requested <= attendance
  /\ row.max = Nowhere \/ attendance < row.max * requested

\* The first row that holds; none for a crowd of nobody.
Assessment(table, attendance, requested) ==
  LET rows == {k \in DOMAIN table : Holds(table[k], attendance, requested)}
  IN IF requested = 0 \/ rows = {} THEN Nowhere
     ELSE CHOOSE k \in rows : \A j \in rows : k <= j

Attendance(c) == people[crowds[c].market] * crowds[c].level

Stops(table, k) == k # Nowhere /\ table[k].stop

\* Mutant: the last crowd decides.
StopSoFar_Last(before, table, k) == Stops(table, k)

\* One crowd that stops the preview is enough.
StopSoFar(before, table, k) == before \/ Stops(table, k)

-----------------------------------------------------------------------------
(* PUT .../inquiry/preview *)

ReadProducts ==
  /\ preview.at = "products"
  /\ preview' = [preview EXCEPT !.at = "markets", !.products = {p \in Product : Chosen(p)}]
  /\ UNCHANGED <<catalog, difficulties, people, crowds, saved, page, changed>>

ProductsFail ==
  /\ preview.at = "products" /\ MayFail("products")
  /\ preview' = [preview EXCEPT !.at = "refused"]
  /\ UNCHANGED <<catalog, difficulties, people, crowds, saved, page, changed>>

\* The markets of one product; a failure leaves it without.
ReadMarkets(p) ==
  /\ preview.at = "markets" /\ p \in preview.products \ DOMAIN preview.related
  /\ LET known(markets) ==
           [preview EXCEPT !.related = [q \in DOMAIN @ \cup {p} |-> IF q = p THEN markets ELSE @[q]]]
     IN \/ preview' = known(catalog[p].markets) /\ UNCHANGED changed
        \/ /\ MayFail("markets")
           /\ preview' = known({})
           /\ changed' = [changed EXCEPT !.failed = @ \cup {"markets"}]
  /\ UNCHANGED <<catalog, difficulties, people, crowds, saved, page>>

\* The fees are put together, the table of difficulties is read.
ReadDifficulties ==
  /\ preview.at = "markets" /\ preview.products = DOMAIN preview.related
  /\ LET priced == [p \in preview.products |-> Units(p, preview.related[p])]
     IN preview' \in {[preview EXCEPT !.at = "crowds", !.units = priced, !.table = t] :
                        t \in {difficulties} \cup IF MayFail("difficulties") THEN {<<>>} ELSE {}}
  /\ changed' = IF preview'.table = difficulties THEN changed
                ELSE [changed EXCEPT !.failed = @ \cup {"difficulties"}]
  /\ UNCHANGED <<catalog, difficulties, people, crowds, saved, page>>

\* assessCrowdDifficulty of one crowd, standard or custom: the population is
\* counted and the level read; a failure leaves it without an assessment.
Assess(c) ==
  /\ preview.at = "crowds" /\ c \notin DOMAIN preview.assessed
  /\ LET found(k) ==
           [preview EXCEPT !.assessed = [d \in DOMAIN @ \cup {c} |-> IF d = c THEN k ELSE @[d]],
                           !.stop = StopSoFar(@, preview.table, k)]
     IN \/ preview' = found(Assessment(preview.table, Attendance(c), crowds[c].requested)) /\ UNCHANGED changed
        \/ /\ MayFail("population")
           /\ preview' = found(Nowhere)
           /\ changed' = [changed EXCEPT !.failed = @ \cup {"population"}]
  /\ UNCHANGED <<catalog, difficulties, people, crowds, saved, page>>

AnswerPreview ==
  /\ preview.at = "crowds" /\ DOMAIN preview.assessed = Crowd
  /\ preview' = [preview EXCEPT !.at = "answered"]
  /\ UNCHANGED <<catalog, difficulties, people, crowds, saved, page, changed>>

-----------------------------------------------------------------------------
(* GET .../project/{pid}/inquiry *)

\* The project, its status and, in a query of its own, its fees.
ReadProject ==
  /\ page.at = "project" /\ saved.there
  /\ page' \in {[page EXCEPT !.at = "crowds", !.status = saved.status, !.listed = f] :
                  f \in {saved.fees} \cup IF MayFail("fees") THEN {{}} ELSE {}}
  /\ changed' = IF page'.listed = saved.fees THEN changed
                ELSE [changed EXCEPT !.failed = @ \cup {"fees"}]
  /\ UNCHANGED <<catalog, difficulties, people, crowds, preview, saved>>

\* The crowds whose assessment stops the page: the standard ones.
Watched(c) == ~crowds[c].custom

\* The crowds with their assessments, as the table has them now: all of them, or
\* none, or some without their assessment.
ReadCrowds ==
  /\ page.at = "crowds"
  /\ \E seen \in SUBSET Crowd :
       /\ seen # Crowd => MayFail("assessment")
       /\ page' = [page EXCEPT !.at = "fees",
                               !.stop = \E c \in seen : Watched(c) /\ Stops(difficulties, saved.assessed[c])]
       /\ changed' = IF seen = Crowd THEN changed ELSE [changed EXCEPT !.failed = @ \cup {"assessment"}]
  /\ UNCHANGED <<catalog, difficulties, people, crowds, preview, saved>>

\* A draft costs nothing.
Costs(status) == IF status = 1 THEN {} ELSE saved.fees

ReadFees ==
  /\ page.at = "fees"
  /\ page' \in {[page EXCEPT !.at = "answered", !.costs = f] :
                  f \in {Costs(page.status)} \cup IF MayFail("fees") THEN {{}} ELSE {}}
  /\ changed' = IF page'.costs = Costs(page.status) THEN changed
                ELSE [changed EXCEPT !.failed = @ \cup {"fees"}]
  /\ UNCHANGED <<catalog, difficulties, people, crowds, preview, saved>>

-----------------------------------------------------------------------------
(* Everybody else *)

Edited(what) == changed' = [changed EXCEPT !.edits = @ + 1, !.what = @ \cup {what}]
MayEdit == changed.edits < InquiryEdits

\* The legacy application saves what the preview answered.
Save(status) ==
  /\ preview.at = "answered" /\ ~saved.there
  /\ saved' = [there |-> TRUE, status |-> status, fees |-> Fee, assessed |-> preview.assessed]
  /\ UNCHANGED <<catalog, difficulties, people, crowds, preview, page, changed>>

RelateMarket(p, m) ==
  /\ MayEdit /\ preview.at \in {"products", "markets"}
  /\ catalog' = [catalog EXCEPT ![p].markets = IF m \in @ THEN @ \ {m} ELSE @ \cup {m}]
  /\ Edited("catalog")
  /\ UNCHANGED <<difficulties, people, crowds, preview, saved, page>>

EditDifficulty(k) ==
  /\ MayEdit /\ k \in DOMAIN difficulties
  /\ difficulties' = [difficulties EXCEPT ![k].stop = ~@]
  /\ Edited("difficulties")
  /\ UNCHANGED <<catalog, people, crowds, preview, saved, page>>

PeopleJoin(m) ==
  /\ MayEdit /\ preview.at # "answered"
  /\ people' = [people EXCEPT ![m] = @ + 1]
  /\ Edited("people")
  /\ UNCHANGED <<catalog, difficulties, crowds, preview, saved, page>>

\* A fee is removed; a draft is submitted.
RemoveFee(f) ==
  /\ MayEdit /\ saved.there /\ f \in saved.fees
  /\ saved' = [saved EXCEPT !.fees = @ \ {f}]
  /\ Edited("fees")
  /\ UNCHANGED <<catalog, difficulties, people, crowds, preview, page>>

Submit ==
  /\ saved.there /\ saved.status = 1
  /\ saved' = [saved EXCEPT !.status = 2]
  /\ UNCHANGED <<catalog, difficulties, people, crowds, preview, page, changed>>

NoInquiry == [there |-> FALSE, status |-> 0, fees |-> {}, assessed |-> <<>>]

InquiryInit ==
  /\ catalog \in Catalogs /\ crowds \in Proposals /\ difficulties \in Tables
  /\ people \in [Market -> People]
  /\ preview = [at |-> "products", products |-> {}, related |-> <<>>, units |-> <<>>,
                table |-> <<>>, assessed |-> <<>>, stop |-> FALSE]
  /\ saved = NoInquiry
  /\ page = [at |-> "project", status |-> 0, listed |-> {}, costs |-> {}, stop |-> FALSE]
  /\ changed = [edits |-> 0, what |-> {}, failed |-> {}]

InquiryNext ==
  \/ ReadProducts \/ ProductsFail \/ ReadDifficulties \/ AnswerPreview
  \/ \E p \in Product : ReadMarkets(p)
  \/ \E c \in Crowd : Assess(c)
  \/ ReadProject \/ ReadCrowds \/ ReadFees
  \/ Save(1) \/ Save(2) \/ Submit
  \/ \E p \in Product, m \in Market : RelateMarket(p, m)
  \/ \E k \in DOMAIN difficulties : EditDifficulty(k)
  \/ \E m \in Market : PeopleJoin(m)
  \/ \E f \in Fee : RemoveFee(f)

InquirySpec == InquiryInit /\ [][InquiryNext]_inquiryVars

-----------------------------------------------------------------------------
(* Properties *)

Honoraria == {p \in Product : catalog[p].kind = "honorarium" /\ Chosen(p)}
Only(S) == \E x \in S : S = {x}

\* One honorarium of the length for special crowds and one for the others, and
\* one of both for each other market.
Orderly ==
  /\ \A s \in BOOLEAN : Only({p \in Honoraria : catalog[p].specialized = s})
  /\ \A m \in Market \ {1} : Only({p \in Honoraria : m \in catalog[p].markets})
  /\ \A p \in Honoraria : 1 \notin catalog[p].markets

\* With an orderly catalogue the honoraria are for every crowd once, however the
\* crowds are made up; only a product whose markets could not be read leaves
\* crowds out, and nothing counts them twice.
HonorariaAddUp ==
  preview.at = "answered" /\ Orderly /\ "catalog" \notin changed.what =>
    \A c \in Crowd :
      LET payers == {p \in Honoraria : c \in preview.units[p]}
      IN Only(payers) \/ (payers = {} /\ "markets" \in changed.failed)

\* The page of the saved proposal stops where its preview did, unless only custom
\* crowds stopped that, the table was edited since or the page could not read an
\* assessment.  It never stops where the preview did not, but for an edit.
StopIsKept ==
  page.at = "answered" /\ "difficulties" \notin changed.what =>
    /\ page.stop => preview.stop
    /\ preview.stop => \/ page.stop \/ "assessment" \in changed.failed
                       \/ \A c \in Crowd : Stops(difficulties, preview.assessed[c]) => crowds[c].custom

\* The costs of the page are the fees that its project lists, unless it was a
\* draft (then there are none), a fee was removed meanwhile or could not be read.
CostsMatchFees ==
  page.at = "answered" /\ {"fees"} \cap (changed.what \cup changed.failed) = {} =>
    IF page.status = 1 THEN page.costs = {} ELSE page.costs = page.listed

\* A proposal adds up: its honoraria are for its respondents, its page stops where
\* its preview did and its costs are its project's fees, but for the causes named.
ProposalsAddUp == HonorariaAddUp /\ StopIsKept /\ CostsMatchFees
=============================================================================
