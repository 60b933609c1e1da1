------------------------------ MODULE IrisSlot ------------------------------
(***************************************************************************)
(* What IRIS keeps of one time slot besides its times: its conference hash *)
(* and pins, and its observers with their invitations and calendar events. *)
(* Reads go to a replica that lags behind the rows written, each statement *)
(* commits by itself, and nearly every failure is logged and passed over.  *)
(*                                                                         *)
(* Observers share nothing, so the slot has one, known by one address; an  *)
(* observer added twice has two rows.  A statement that fails and is       *)
(* passed over is one that changes nothing: action Passes.                 *)
(***************************************************************************)
EXTENDS FiniteSets, Naturals

CONSTANTS
  SlotCall,    \* requests; each inserts one row of observer at most, named by it
  SlotFaults   \* "call": a statement, or a call to the calendar, fails

VARIABLES
  db,        \* the primary: the mark, the hashes and pins the slot has been given,
             \* its rows of observer, time_slot_event and conference_invitation
  replica,   \* what reads see of it
  booked,    \* the events of the shared calendar: the row each is for, who made it
  slotCall,  \* where each request is, and what it knows
  causes     \* history: what has happened that can leave the slot's rows at odds

irisVars == <<db, replica, booked, slotCall, causes>>

IrisInit ==
  /\ db = [noShow |-> FALSE, hashes |-> {}, pins |-> {}, observers |-> {}, events |-> {}, invited |-> {}]
  /\ replica = db
  /\ booked = {}
  /\ slotCall = [c \in SlotCall |-> [at |-> "idle"]]
  /\ causes = {}

SlotMoves(c, to) == slotCall' = [slotCall EXCEPT ![c] = to]
AtRest == \A c \in SlotCall : slotCall[c].at \in {"idle", "over"}

\* The replica has caught up with the primary.
Replicate ==
  /\ replica # db
  /\ replica' = db
  /\ UNCHANGED <<db, booked, slotCall, causes>>

\* A request begins; another may be under way.
Begins(c, to) ==
  /\ slotCall[c].at = "idle"
  /\ SlotMoves(c, to)
  /\ causes' = IF AtRest THEN causes ELSE causes \cup {"overlap"}
  /\ UNCHANGED <<db, replica, booked>>

\* A request reads the replica and goes on.
Reads(c, to) ==
  /\ SlotMoves(c, to)
  /\ causes' = IF replica = db THEN causes ELSE causes \cup {"lag"}
  /\ UNCHANGED <<db, replica, booked>>

\* A request writes rows of the primary and goes on.
Writes(c, rows, to) ==
  /\ db' = rows
  /\ SlotMoves(c, to)
  /\ UNCHANGED <<replica, booked, causes>>
-----------------------------------------------------------------------------
(* MarkNoShow: the mark, then a hash and a pin if the slot has none.       *)

StartNoShow(c) == Begins(c, [at |-> "mark"])

SetNoShow(c) ==
  /\ slotCall[c].at = "mark"
  /\ Writes(c, [db EXCEPT !.noShow = TRUE], [at |-> "askHash"])

AskHash(c) ==
  /\ slotCall[c].at = "askHash"
  /\ Reads(c, [at |-> IF replica.hashes = {} THEN "setHash" ELSE "askPin"])

\* The new hash takes the place of whatever the slot has by now.
SetHash(c) ==
  /\ slotCall[c].at = "setHash"
  /\ Writes(c, [db EXCEPT !.hashes = @ \cup {c}], [at |-> "askPin"])

AskPin(c) ==
  /\ slotCall[c].at = "askPin"
  /\ Reads(c, [at |-> IF replica.pins = {} THEN "addPin" ELSE "over"])

AddPin(c) ==
  /\ slotCall[c].at = "addPin"
  /\ Writes(c, [db EXCEPT !.pins = @ \cup {c}], [at |-> "over"])
-----------------------------------------------------------------------------
(* UpdateTimeslotObservers: the observer is deleted, added, or both.       *)

StartObservers(c, del, add) ==
  Begins(c, [at |-> IF del THEN "find" ELSE "insert", add |-> add])

After(add) == [at |-> IF add THEN "insert" ELSE "over", add |-> add]

\* Mutant: the rows are deleted before they are looked for, and none is found.
FindObserver_Late(c) ==
  /\ slotCall[c].at = "find"
  /\ Reads(c, [slotCall[c] EXCEPT !.at = "delete"])

\* One of the observer's rows is looked for, to find its events by.
FindObserver(c) ==
  /\ slotCall[c].at = "find"
  /\ \/ /\ replica.observers = {}
        /\ Reads(c, [slotCall[c] EXCEPT !.at = "delete"])
     \/ \E r \in replica.observers :
          Reads(c, [at |-> "events", add |-> slotCall[c].add, row |-> r])

FindEvents(c) ==
  /\ slotCall[c].at = "events"
  /\ Reads(c, [at |-> "unbook", add |-> slotCall[c].add,
               events |-> {e \in replica.events : e.row = slotCall[c].row}])

ToUnrecord(c, e) == [at |-> "unrecord", add |-> slotCall[c].add, events |-> slotCall[c].events, event |-> e]

\* Each event goes from the calendar, then its row, whether or not it went.
Unbook(c) ==
  LET events == slotCall[c].events
  IN /\ slotCall[c].at = "unbook"
     /\ \/ \E e \in events :
             /\ booked' = booked \ {e}
             /\ SlotMoves(c, ToUnrecord(c, e))
        \/ /\ events = {}
           /\ SlotMoves(c, [at |-> "delete", add |-> slotCall[c].add])
           /\ UNCHANGED booked
     /\ UNCHANGED <<db, replica, causes>>

Unrecord(c) ==
  LET e == slotCall[c].event
  IN /\ slotCall[c].at = "unrecord"
     /\ Writes(c, [db EXCEPT !.events = @ \ {e}],
               [at |-> "unbook", add |-> slotCall[c].add, events |-> slotCall[c].events \ {e}])

\* PutObserversForTimeSlot: every row of the address goes, its invitations stay.
DeleteObserver(c) ==
  /\ slotCall[c].at = "delete"
  /\ Writes(c, [db EXCEPT !.observers = {}], After(slotCall[c].add))

InsertObserver(c) ==
  /\ slotCall[c].at = "insert"
  /\ db' = [db EXCEPT !.observers = @ \cup {c}]
  /\ causes' = IF db.observers = {} THEN causes ELSE causes \cup {"second row"}
  /\ SlotMoves(c, [at |-> "findNew"])
  /\ UNCHANGED <<replica, booked>>

\* The row inserted is looked for by address: none may be seen yet, or another.
FindInserted(c) ==
  /\ slotCall[c].at = "findNew"
  /\ \/ /\ replica.observers = {}
        /\ Reads(c, [at |-> "over"])
     \/ \E r \in replica.observers : Reads(c, [at |-> "askInvited", row |-> r])

AskInvited(c) ==
  LET r == slotCall[c].row
  IN /\ slotCall[c].at = "askInvited"
     /\ Reads(c, [at |-> IF \E i \in replica.invited : i.row = r THEN "book" ELSE "invite", row |-> r])

Invite(c) ==
  LET r == slotCall[c].row
  IN /\ slotCall[c].at = "invite"
     /\ Writes(c, [db EXCEPT !.invited = @ \cup {[row |-> r, by |-> c]}], [at |-> "book", row |-> r])

\* The slot's times are read and the event created ...
Book(c) ==
  LET e == [row |-> slotCall[c].row, by |-> c]
  IN /\ slotCall[c].at = "book"
     /\ booked' = booked \cup {e}
     /\ SlotMoves(c, [at |-> "record", event |-> e])
     /\ UNCHANGED <<db, replica, causes>>

\* ... and only then is its id stored, which nothing else can find it by.
RecordEvent(c) ==
  /\ slotCall[c].at = "record"
  /\ Writes(c, [db EXCEPT !.events = @ \cup {slotCall[c].event}], [at |-> "over"])
-----------------------------------------------------------------------------
\* Where a request goes on when what it was about to do has failed.
PassedTo(k) ==
  CASE k.at \in {"mark", "book", "record", "addPin", "askPin"} -> [at |-> "over"]
    [] k.at \in {"askHash", "setHash"} -> [at |-> "askPin"]
    [] k.at \in {"find", "events"} -> [at |-> "delete", add |-> k.add]
    [] k.at = "unrecord" -> [at |-> "unbook", add |-> k.add, events |-> k.events \ {k.event}]
    [] k.at = "delete" -> After(k.add)
    [] k.at = "insert" -> [at |-> "findNew"]
    [] k.at = "findNew" -> [at |-> "over"]
    [] k.at \in {"askInvited", "invite"} -> [at |-> "book", row |-> k.row]

\* A statement or a call fails: it is logged, or not even that.
Passes(c) ==
  /\ "call" \in SlotFaults
  /\ slotCall[c].at \notin {"idle", "over"}
  /\ IF slotCall[c].at = "unbook" THEN \E e \in slotCall[c].events : SlotMoves(c, ToUnrecord(c, e))
                                  ELSE SlotMoves(c, PassedTo(slotCall[c]))
  /\ causes' = causes \cup {"failure"}
  /\ UNCHANGED <<db, replica, booked>>

IrisNext ==
  \/ Replicate
  \/ \E c \in SlotCall :
       \/ StartNoShow(c) \/ SetNoShow(c) \/ AskHash(c) \/ SetHash(c) \/ AskPin(c) \/ AddPin(c)
       \/ \E del, add \in BOOLEAN : (del \/ add) /\ StartObservers(c, del, add)
       \/ FindObserver(c) \/ FindEvents(c) \/ Unbook(c) \/ Unrecord(c)
       \/ DeleteObserver(c) \/ InsertObserver(c) \/ FindInserted(c)
       \/ AskInvited(c) \/ Invite(c) \/ Book(c) \/ RecordEvent(c)
       \/ Passes(c)

IrisSpec == IrisInit /\ [][IrisNext]_irisVars
-----------------------------------------------------------------------------
(* What must hold.                                                         *)

OneRoom == Cardinality(db.hashes) <= 1 /\ Cardinality(db.pins) <= 1
InvitedOnce == \A i, j \in db.invited : i.row = j.row => i = j
BookedAsObserved ==
  AtRest => /\ {e.row : e \in booked} = db.observers
            /\ db.events = booked
            /\ Cardinality(booked) <= 1

\* A slot that had two hashes or pins, an observer invited twice, a calendar
\* event left for an observer who is gone or missing for one who is there: each
\* takes a request that read the replica while it lagged, a call that failed, two
\* requests at once, or an observer added who was there.  Without any of these
\* the requests on a slot, in any order, keep its rows and the calendar in step.
SlotAtOddsHasCause == causes = {} => OneRoom /\ InvitedOnce /\ BookedAsObserved
=============================================================================
