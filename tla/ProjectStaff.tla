---------------------------- MODULE ProjectStaff ----------------------------
(***************************************************************************)
(* The moderators of one QS project (projects_users) and the hours each    *)
(* may be booked in it (moderator_time_range).  A reset takes the members  *)
(* away that its list does not name and adds those it does, in one         *)
(* transaction, but it works both out from a list it read before that      *)
(* transaction began.  Hours may be written for anybody, member or not.    *)
(*                                                                         *)
(* The schema is not in the repository: whether a second row for the same  *)
(* member is refused (a unique key) is not known, and both are allowed.    *)
(***************************************************************************)
EXTENDS FiniteSets

CONSTANTS
  StaffCall,    \* requests to change the staff
  Member,       \* moderators
  StaffFaults   \* "commit": a transaction may be rolled back for no reason shown here

VARIABLES
  staff,     \* projects_users
  hours,     \* the moderators that moderator_time_range holds a row for
  defining,  \* the project's status is Defining
  staffCall, \* where each request is, and what it knows
  outsider,  \* history: moderators whose hours were written while not members
  overtaken  \* history: resets another request wrote in the middle of

staffVars == <<staff, hours, defining, staffCall, outsider, overtaken>>

StaffInit ==
  /\ staff \in SUBSET Member
  /\ hours \in SUBSET staff
  /\ defining = TRUE
  /\ staffCall = [c \in StaffCall |-> [at |-> "idle"]]
  /\ outsider = {}
  /\ overtaken = {}

StaffMoves(c, to) == staffCall' = [staffCall EXCEPT ![c] = to]

Overtake(c) == overtaken' = overtaken \cup {d \in StaffCall \ {c} : staffCall[d].at = "reset"}

\* Hours that remain without their member were an outsider's.
Forget == outsider' = outsider \cap hours'

-----------------------------------------------------------------------------
\* ResetProjectModeratorsMRA: the members are read, on a connection of their own.
ReadStaff(c, list) ==
  /\ staffCall[c].at = "idle"
  /\ StaffMoves(c, [at |-> "reset", list |-> list, seen |-> staff])
  /\ UNCHANGED <<staff, hours, defining, outsider, overtaken>>

\* Mutant: nobody is taken away, those named are only added.
ToRemove_Never(c) == {}

ToRemove(c) == staffCall[c].seen \ staffCall[c].list
ToAdd(c) == staffCall[c].list \ staffCall[c].seen

\* An empty list removes everybody, whatever was read, and all hours.
ResetStaff(c) ==
  /\ staffCall[c].at = "reset"
  /\ staff' = IF staffCall[c].list = {} THEN {} ELSE (staff \ ToRemove(c)) \cup ToAdd(c)
  /\ hours' = IF staffCall[c].list = {} THEN {}
              ELSE IF ToRemove(c) = {} THEN hours ELSE hours \cap staff'
  /\ StaffMoves(c, [at |-> "answered", list |-> staffCall[c].list, left |-> staff'])
  /\ Overtake(c)
  /\ Forget
  /\ UNCHANGED defining

\* A member to be added is there already, or the database refuses: all is undone.
ResetRefused(c) ==
  /\ staffCall[c].at = "reset"
  /\ ToAdd(c) \cap staff # {} \/ "commit" \in StaffFaults
  /\ StaffMoves(c, [at |-> "over"])
  /\ UNCHANGED <<staff, hours, defining, outsider, overtaken>>

\* mode=unassign: the first moderator named leaves, with the hours.
UnassignMember(c, m) ==
  /\ staffCall[c].at = "idle"
  /\ staff' = staff \ {m}
  /\ hours' = hours \ {m}
  /\ StaffMoves(c, [at |-> "over"])
  /\ Overtake(c)
  /\ Forget
  /\ UNCHANGED defining

\* The status is read; only a project being defined takes hours.
CheckDefining(c, m) ==
  /\ staffCall[c].at = "idle"
  /\ defining
  /\ StaffMoves(c, [at |-> "upsert", member |-> m])
  /\ UNCHANGED <<staff, hours, defining, outsider, overtaken>>

\* Nobody asks whether the moderator is a member, or the project still defined.
UpsertHours(c) ==
  LET m == staffCall[c].member
  IN /\ staffCall[c].at = "upsert"
     /\ hours' = hours \cup {m}
     /\ outsider' = IF m \in staff THEN outsider \ {m} ELSE outsider \cup {m}
     /\ StaffMoves(c, [at |-> "over"])
     /\ UNCHANGED <<staff, defining, overtaken>>

\* The project is edited (InterviewSlots): it leaves Defining or comes back to it.
ProjectEdited ==
  /\ defining' = ~defining
  /\ UNCHANGED <<staff, hours, staffCall, outsider, overtaken>>

StaffNext ==
  \/ \E c \in StaffCall :
       \/ \E list \in SUBSET Member : ReadStaff(c, list)
       \/ ResetStaff(c)
       \/ ResetRefused(c)
       \/ \E m \in Member : UnassignMember(c, m) \/ CheckDefining(c, m)
       \/ UpsertHours(c)
  \/ ProjectEdited

StaffSpec == StaffInit /\ [][StaffNext]_staffVars

-----------------------------------------------------------------------------
(* What must hold.                                                         *)

\* A reset that was answered left exactly the members of its list, unless
\* another request changed the staff after it had read who was there: the
\* difference is worked out from that list, not from the rows it is applied to.
ResetHolds ==
  \A c \in StaffCall \ overtaken :
    staffCall[c].at = "answered" => staffCall[c].left = staffCall[c].list

\* Hours of somebody who is not a member were written when they were not one:
\* no way of leaving the project, however resets and removals overlap, leaves
\* hours behind in which that moderator could be booked.
StrayHoursHaveCause == hours \ staff \subseteq outsider

\* However requests overlap, a reset leaves its list and nobody leaves hours behind,
\* but for the causes named.
StaffHolds == ResetHolds /\ StrayHoursHaveCause
=============================================================================
