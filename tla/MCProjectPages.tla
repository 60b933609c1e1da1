--------------------------- MODULE MCProjectPages ---------------------------
(***************************************************************************)
(* Three parts of the project pages, and the change of a moderator's       *)
(* buffer.  They share no state: a run of one is a run of it beside any of *)
(* the others.  Each behaviour is one part's, while the others stay in a   *)
(* state they can begin in.                                                *)
(***************************************************************************)
EXTENDS ProjectStaff, ConferenceLinks, IrisSlot, MCModeratorAvailability, TLC

CONSTANTS one, two, three

VARIABLE part

pagesVars == <<part, staffVars, linkVars, irisVars, vars>>

\* Requests are alike, and so are moderators; the properties are invariants.
Alike == Permutations(StaffCall) \cup Permutations(Member)

MCListing == {<<one>>, <<two>>, <<one, two>>, <<two, two>>, <<three>>}

PagesInit ==
  /\ part \in {"staff", "links", "slot", "buffer"}
  /\ StaffInit /\ LinkInit /\ IrisInit /\ Init
  /\ part # "staff" => staff = {} /\ hours = {}
  /\ part # "buffer" => rows = {} /\ calendar = "unset"

PagesNext ==
  /\ UNCHANGED part
  /\ \/ part = "staff" /\ StaffNext /\ UNCHANGED <<linkVars, irisVars, vars>>
     \/ part = "links" /\ LinkNext /\ UNCHANGED <<staffVars, irisVars, vars>>
     \/ part = "slot" /\ IrisNext /\ UNCHANGED <<staffVars, linkVars, vars>>
     \/ part = "buffer" /\ Next /\ UNCHANGED <<staffVars, linkVars, irisVars>>

PagesSpec == PagesInit /\ [][PagesNext]_pagesVars
=============================================================================
