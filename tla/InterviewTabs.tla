---------------------------- MODULE InterviewTabs ----------------------------
(***************************************************************************)
(* The lists of interviews of a QS client: the project manager's tabs, the *)
(* payment filters of a tab, a moderator's own list with its filters, and  *)
(* the calendars.  Each is a query with its own conditions over the same   *)
(* rows, put at its own moment: while somebody reads one after another,    *)
(* interviews begin, are paid, invalidated, moved or called off, and days  *)
(* pass.                                                                   *)
(*                                                                         *)
(* Projects and clients that a request selects are left out: the lists are *)
(* those of the rows selected.  Rows by pages are PagedLists'.             *)
(***************************************************************************)
EXTENDS Integers, FiniteSets

CONSTANTS
  Interview, Moderator,
  Hours,      \* units of time to a day
  DueDays,    \* 7
  Horizon     \* the clock stops there

ASSUME ClockAssumption == Hours \in Nat \ {0} /\ {DueDays, Horizon} \subseteq Nat

VARIABLES
  now,
  interview, \* when each begins, whether it is called, invalidated and paid
  hosts,     \* the moderators of each with is_host
  deleted,   \* moderators whose user is deleted
  looking,   \* who reads which lists, what is read and how often each interview was seen
  since      \* history: since the reading began

tabVars == <<now, interview, hosts, deleted, looking, since>>

\* status_id IN (2, 7, 8, 9): pending or over; other statuses are "gone".
Called(s) == interview[s].status = "called"
End(s) == interview[s].start + 1
Paid(s) == interview[s].paid

-----------------------------------------------------------------------------
(* The queries *)

Live(s) == hosts[s] \ deleted

\* activeTab "upcoming", "invalidate" and any other.
Upcoming(s) == Called(s) /\ ~interview[s].invalidated /\ interview[s].start >= now
Invalidate(s) == interview[s].invalidated
Completed(s) == Called(s) /\ ~interview[s].invalidated /\ interview[s].start < now

\* end_time < CURDATE() - INTERVAL 7 DAY
PastDays(s) == End(s) < ((now \div Hours) - DueDays) * Hours

\* Mutant: seven days old is neither.
Due_Sharp(filter, s) ==
  CASE filter = "CREDITED" -> Paid(s)
    [] filter = "NOT_CREDITED" -> ~Paid(s) /\ End(s) > ((now \div Hours) - DueDays) * Hours
    [] filter = "PAST_DUE" -> ~Paid(s) /\ PastDays(s)

\* The paymentStatusCode of the project manager's lists and of a moderator's.
Due(filter, s) ==
  CASE filter = "CREDITED" -> Paid(s)
    [] filter = "NOT_CREDITED" -> ~Paid(s) /\ ~PastDays(s)
    [] filter = "PAST_DUE" -> ~Paid(s) /\ PastDays(s)
OwnDue(filter, s) ==
  CASE filter = "CREDITED" -> Paid(s)
    [] filter = "NOT_CREDITED" -> ~Paid(s)
    [] filter = "PAST_DUE" -> ~Paid(s) /\ PastDays(s)

\* A moderator's list has the interviews of every status of a call, invalidated
\* or not, to come or past, and of deleted users too.
Own(m, s) == Called(s) /\ m \in hosts[s]

\* GET .../time_slots and the project manager's calendar.
OnCalendar(m, s) == Called(s) /\ m \in hosts[s]

Tabs == {"upcoming", "completed", "invalidate"}
Filters == {"NOT_CREDITED", "PAST_DUE", "CREDITED"}
Views(cover) == IF cover = "tabs" THEN Tabs ELSE Filters

OnTab(tab, s) ==
  /\ Live(s) # {}
  /\ CASE tab = "upcoming" -> Upcoming(s) [] tab = "completed" -> Completed(s) [] tab = "invalidate" -> Invalidate(s)

\* The interviews that a list shows.
Shown(cover, m, view) ==
  {s \in Interview :
     CASE cover = "tabs" -> OnTab(view, s)
       [] cover = "payments" -> OnTab("completed", s) /\ Due(view, s)
       [] cover = "own" -> Own(m, s) /\ OwnDue(view, s)}

\* The interviews that the lists together are to show.
Concerned(cover, m, s) ==
  CASE cover = "tabs" -> Called(s) /\ Live(s) # {}
    [] cover = "payments" -> OnTab("completed", s)
    [] cover = "own" -> Own(m, s)

-----------------------------------------------------------------------------
(* The reader *)

Nobody == [cover |-> "none", me |-> "nobody", read |-> {}, seen |-> [s \in Interview |-> 0]]
Fresh == [still |-> {}, moved |-> {}, edited |-> {}, disorder |-> FALSE]

\* Rows go this way and no other, as time passes and as interviews are paid or
\* invalidated.
Rank == [v \in Tabs \cup Filters |->
           CASE v \in {"upcoming", "NOT_CREDITED"} -> 1 [] v \in {"completed", "PAST_DUE"} -> 2 [] OTHER -> 3]

Reading == looking.cover # "none"
Done == Reading /\ looking.read = Views(looking.cover)

\* Somebody sets out to read the tabs, the payment filters, or as moderator m the
\* filters of the own list.
Open(cover, m) ==
  /\ ~Reading
  /\ looking' = [Nobody EXCEPT !.cover = cover, !.me = m]
  /\ since' = [Fresh EXCEPT !.still = {s \in Interview : Concerned(cover, m, s)}]
  /\ UNCHANGED <<now, interview, hosts, deleted>>

\* GetAllInterviewsMRA and GetModeratorInterviewsMRA: one of the lists.
Read(view) ==
  /\ Reading /\ view \in Views(looking.cover) \ looking.read
  /\ LET rows == Shown(looking.cover, looking.me, view)
     IN looking' = [looking EXCEPT !.read = @ \cup {view},
                                   !.seen = [s \in Interview |-> @[s] + IF s \in rows THEN 1 ELSE 0]]
  /\ since' = [since EXCEPT !.disorder = @ \/ \E v \in looking.read : Rank[v] > Rank[view]]
  /\ UNCHANGED <<now, interview, hosts, deleted>>

-----------------------------------------------------------------------------
(* Meanwhile *)

Place(s) == {v \in Views(looking.cover) : s \in Shown(looking.cover, looking.me, v)}

\* What the reader cannot know of.
Noted(edited) ==
  since' = IF Reading
           THEN [since EXCEPT !.still = {s \in @ : Concerned(looking.cover, looking.me, s)'},
                              !.moved = @ \cup {s \in Interview : Place(s)' # Place(s)},
                              !.edited = @ \cup edited]
           ELSE since

Step(edited) == ~Done /\ UNCHANGED looking /\ Noted(edited)

TimePasses ==
  /\ now < Horizon
  /\ now' = now + 1
  /\ UNCHANGED <<interview, hosts, deleted>>
  /\ Step({})

\* By the external scheduler, or by hand (PUT /timeslots/{id}).
Arrange(s, start) ==
  /\ interview' = [interview EXCEPT ![s].start = start, ![s].status = "called"]
  /\ UNCHANGED <<now, hosts, deleted>>
  /\ Step({s})

CallOff(s) ==
  /\ Called(s)
  /\ interview' = [interview EXCEPT ![s].status = "gone"]
  /\ UNCHANGED <<now, hosts, deleted>>
  /\ Step({})

\* InvalidateInterviewMRA, which refuses an interview that is paid.
IsInvalidated(s) ==
  /\ Called(s) /\ ~Paid(s)
  /\ interview' = [interview EXCEPT ![s].invalidated = TRUE]
  /\ UNCHANGED <<now, hosts, deleted>>
  /\ Step({})

\* A payment of the interview is COMPLETED, invalidated or not.
IsPaid(s) ==
  /\ Called(s) /\ ~Paid(s)
  /\ interview' = [interview EXCEPT ![s].paid = TRUE]
  /\ UNCHANGED <<now, hosts, deleted>>
  /\ Step({})

DeleteUser(m) ==
  /\ m \notin deleted
  /\ deleted' = deleted \cup {m}
  /\ UNCHANGED <<now, interview, hosts>>
  /\ Step({})

TabsInit ==
  /\ now = 1
  /\ interview \in [Interview -> [start : 0 .. Horizon, status : {"called", "gone"},
                                  invalidated : BOOLEAN, paid : BOOLEAN]]
  /\ hosts \in [Interview -> SUBSET Moderator]
  /\ deleted = {} /\ looking = Nobody /\ since = Fresh

TabsNext ==
  \/ Open("tabs", "nobody") \/ Open("payments", "nobody")
  \/ \E m \in Moderator : Open("own", m)
  \/ \E view \in Tabs \cup Filters : Read(view)
  \/ TimePasses
  \/ \E s \in Interview :
       (\E start \in {now, now + 2} : Arrange(s, start)) \/ CallOff(s) \/ IsInvalidated(s) \/ IsPaid(s)
  \/ \E m \in Moderator : DeleteUser(m)

TabsSpec == TabsInit /\ [][TabsNext]_tabVars

-----------------------------------------------------------------------------
(* Properties *)

\* Somebody who reads the lists of a cover one after another sees each interview
\* that belonged there all the while, unless it was given another time, or the
\* lists were read in another order than rows go from one to the next.
MissedHasCause ==
  Done => \A s \in since.still : looking.seen[s] = 0 => s \in since.edited \/ since.disorder

\* It is seen twice only if it moved from one list to another meanwhile: at any
\* one moment the lists have no interview in common.  A moderator's unpaid
\* interviews are those past due, too.
TwiceHasCause ==
  Done =>
    \A s \in since.still :
      looking.seen[s] > 1 => s \in since.moved \/ (looking.cover = "own" /\ ~Paid(s))

\* An interview on a host's calendar is on exactly one of the project manager's
\* tabs, unless the users of all of its hosts are deleted: then on none.
CalendarsMatchTabs ==
  \A s \in Interview, m \in Moderator :
    OnCalendar(m, s) => Cardinality({t \in Tabs : OnTab(t, s)}) = (IF Live(s) = {} THEN 0 ELSE 1)

\* The lists are complete: of the interviews that belong on one of them all the
\* while each is seen, and once, but for the causes named; and what is on the
\* calendar is on a tab.
TabsAreComplete == MissedHasCause /\ TwiceHasCause /\ CalendarsMatchTabs
=============================================================================
