------------------------------ MODULE MCReaders ------------------------------
(***************************************************************************)
(* Readers that are put together by several statements or several requests,  *)
(* while others write what they read.  The parts share no state: a         *)
(* behaviour is one part's, while the others stay where they begin.        *)
(***************************************************************************)
EXTENDS InterviewTabs, InquiryPages, ProjectCatalogue, SurveyPages, TLC

CONSTANTS p1, p2, p3, w1, w2, q1, n1, c1, c2

VARIABLE part

\* Requests are alike, and so are moderators; the properties are invariants.
AlikeReaders == Permutations(Export) \cup Permutations(Visit) \cup Permutations(Moderator)

readersVars == <<part, tabVars, inquiryVars, catalogueVars, surveyVars>>

\* Products: an orderly catalogue with a third product that is not to be priced,
\* and a disorderly one.
Item(type, special, markets) ==
  [kind |-> type, specialized |-> special, markets |-> markets, transcription |-> FALSE, ofLength |-> TRUE]
Honorarium(special, markets) == Item("honorarium", special, markets)
OtherLength == [Honorarium(FALSE, {2}) EXCEPT !.ofLength = FALSE]
Transcript == [Honorarium(FALSE, {2}) EXCEPT !.transcription = TRUE]
MCCatalogs ==
  {p1 :> Honorarium(TRUE, {2}) @@ p2 :> Honorarium(FALSE, {}) @@ p3 :> x :
     x \in {Item("flat", FALSE, {}), OtherLength, Transcript}}
  \cup {p1 :> Honorarium(TRUE, {}) @@ p2 :> Honorarium(FALSE, {2}) @@ p3 :> Item("perRespondent", FALSE, {2})}

\* Crowds: one of standard attributes and one of any kind.
Asked(market, custom, special, requested) ==
  [market |-> market, custom |-> custom, special |-> special, requested |-> requested, level |-> 1]
Standard == {<<1, FALSE, TRUE>>, <<1, FALSE, FALSE>>, <<2, FALSE, FALSE>>}
Custom == {<<1, TRUE, FALSE>>, <<2, TRUE, FALSE>>}
MCProposals ==
  {w1 :> Asked(a[1], a[2], a[3], 1) @@ w2 :> Asked(b[1], b[2], b[3], 2) : a \in {<<1, FALSE, TRUE>>, <<2, FALSE, FALSE>>}, b \in Standard \cup Custom}

\* Difficulties: two levels, three, and two that overlap.
Row(min, max, stop) == [min |-> min, max |-> max, stop |-> stop]
Three == <<Row(2, 0, FALSE), Row(1, 2, TRUE), Row(0, 1, TRUE)>>
MCTables ==
  {<<Row(0, 1, TRUE), Row(1, 0, FALSE)>>, Three, <<Row(0, 2, TRUE), Row(1, 0, FALSE)>>}

\* A survey: the crowd that comes first is being fielded, the other is excluded.
CrowdRow(out, gone, shc, level, abroad) ==
  [excluded |-> out, deleted |-> gone, shc |-> shc, level |-> level, abroad |-> abroad]
MCSamples ==
  {c1 :> CrowdRow(x, d, "fielding", 1, FALSE) @@ c2 :> CrowdRow(TRUE, FALSE, "unfielded", 0, TRUE) : x, d \in BOOLEAN}
MCStages == {c1 :> [p \in Panelist |-> s] @@ c2 :> [p \in Panelist |-> "none"] : s \in Stage}
InOrder == sample[c1].excluded = FALSE /\ ~sample[c1].deleted /\ survey.named /\ survey.status = 1 /\ survey.slots

ReadersInit ==
  /\ part \in {"tabs", "inquiry", "exports", "lists", "sheets", "checks", "favorites"}
  \* One beginning for the parts that stay there; what narrows the beginnings comes first.
  /\ survey \in {row \in SurveyRow : part \in {"sheets", "checks"} \/ row.kind = "qual"}
  /\ sample \in MCSamples
  /\ part # "checks" => InOrder
  /\ stage \in {s \in MCStages : part = "sheets" \/ \A p \in Panelist : s[c1][p] = "none"}
  /\ favorite \in IF part = "favorites" THEN SUBSET Reader ELSE {{}}
  /\ leave \in IF part = "favorites" THEN SUBSET Reader ELSE {{}}
  /\ part # "tabs" =>
       /\ interview = [s \in Interview |-> [start |-> 0, status |-> "gone", invalidated |-> FALSE, paid |-> FALSE]]
       /\ hosts = [s \in Interview |-> {}]
  /\ part # "inquiry" =>
       /\ catalog = CHOOSE g \in MCCatalogs : TRUE
       /\ crowds = CHOOSE g \in MCProposals : TRUE
       /\ difficulties = Three
  /\ TabsInit /\ InquiryInit /\ SurveyInit /\ CatalogueInit
  /\ part # "lists" => \A p \in Project : project[p].there
  /\ part \notin {"exports", "lists"} => \A p \in Project : project[p].name = n1
  /\ project[q1].there /\ project[q1].name = n1
  /\ \A r \in Person : reply[r].of = q1
  /\ part # "exports" => \A r \in Person : ~reply[r].declined
  \* Fewer beginnings: the products that are not priced with one table only.
  /\ catalog[p3].kind = "flat" \/ difficulties = Three

Others(name) ==
  /\ UNCHANGED part
  /\ name # "tabs" => UNCHANGED tabVars
  /\ name # "inquiry" => UNCHANGED inquiryVars
  /\ name \notin {"exports", "lists"} => UNCHANGED catalogueVars
  /\ name \notin {"sheets", "checks", "favorites"} => UNCHANGED surveyVars

\* In the order of their names; a page of crowds shows the type of the survey only.
SheetOnly ==
  /\ sheet'.done[c2] > 0 => sheet'.done[c1] > 0
  /\ survey' \in {[survey EXCEPT !.kind = k] : k \in {"qual", "quant"}}

ReadersNext ==
  \/ part = "tabs" /\ TabsNext /\ Others("tabs")
  \/ part = "inquiry" /\ InquiryNext /\ Others("inquiry")
  \/ part = "exports" /\ CatalogueNext /\ Others("exports") /\ UNCHANGED <<visit, selection>>
  \/ part = "lists" /\ CatalogueNext /\ Others("lists") /\ UNCHANGED <<reply, export>>
  \/ part = "sheets" /\ SurveyNext /\ Others("sheets") /\ UNCHANGED <<check, favorite, copied, leave, favoring>> /\ SheetOnly
  \/ part = "checks" /\ SurveyNext /\ Others("checks") /\ UNCHANGED <<sheet, stage, favorite, copied, leave, favoring>>
  \/ part = "favorites" /\ SurveyNext /\ Others("favorites") /\ UNCHANGED <<survey, sample, stage, check, sheet>>

ReadersSpec == ReadersInit /\ [][ReadersNext]_readersVars
=============================================================================
