------------------------ MODULE ModeratorAvailability ------------------------
(***************************************************************************)
(* The availability of one moderator for one client: the handlers that     *)
(* add, change and delete ranges, the change of the buffer kept around     *)
(* interviews, the import from a Google sheet (a goroutine that goes on    *)
(* after the answer) and its unlinking.  Every statement is a step of its  *)
(* own: no handler uses a transaction, and the only thing that keeps       *)
(* handlers apart is the status of the moderator's external calendar.      *)
(*                                                                         *)
(* moderator_availability is table "manual", imported_moderator_           *)
(* availability table "imported"; a row's id is unique over both.  Times   *)
(* are counted in quarters of an hour.  Interviews do not change.          *)
(***************************************************************************)
EXTENDS AvailabilityRules

CONSTANTS
  Call,          \* handler calls
  Kinds,         \* the kinds of calls that occur
  Horizon,       \* the times of requests are 0 .. Horizon
  Hour,          \* 60 minutes
  Buffers,       \* the buffers the moderator may choose
  DefaultBuffer, \* 15 minutes, for a buffer that is not set or not read
  Interview,     \* the moderator's interviews, records with from and to
  Sheet,         \* the green cells of the sheet
  Initial,       \* the rows and the buffer there may be at first
  ParseTime,     \* DB_PARAMS has parseTime=true, its default
  Overlap,       \* calls may overlap
  Faults         \* the faults that occur

KindsOfCalls == {"post", "create", "remove", "update", "delete", "buffer", "import", "forced", "unlink"}
KindsOfFaults == {"read", "statement", "sheet", "timeout", "crash"}

ASSUME KindsAssumption == Kinds \subseteq KindsOfCalls /\ Faults \subseteq KindsOfFaults
ASSUME TimesAssumption == Horizon \in Nat /\ Hour \in Nat /\ Buffers \cup {DefaultBuffer} \subseteq Nat
ASSUME InterviewAssumption == Interview \subseteq [from : Int, to : Int] /\ \A i \in Interview : i.from < i.to
ASSUME SwitchAssumption == ParseTime \in BOOLEAN /\ Overlap \in BOOLEAN

VARIABLES
  rows,     \* both tables
  nextId,   \* their AUTO_INCREMENT
  calendar, \* status in the moderator's row of moderator_external_calendar
  buffer,   \* moderator_buffer
  pc,       \* where each call is
  arg,      \* the range in its request
  seen,     \* the row it works on
  todo,     \* the rows, or blocks of the sheet, it has still to handle
  plan,     \* what it is going to write, and whether it is
  buf       \* the buffer it has read, or is setting

tables == <<rows, nextId, calendar, buffer>>
callVars == <<pc, arg, seen, todo, plan, buf>>
vars == <<tables, callVars>>

Times == 0 .. Horizon
Zero == -1  \* Go's zero time, before every other
AnyRange == [from : Times, to : Times]
TimeRange == {r \in AnyRange : r.from < r.to}
Tables == {"manual", "imported"}
Status == {"noRow", "unset", "In Progress", "Completed", "Failed"}

Posting == {"readBuffer", "conflicts", "overlaps", "merge"}
Updating == {"updateBuffer", "updateConflicts", "write"}
Deleting == {"deleteCalendar", "deleteImported", "copy"}
Adjusting == {"listManual", "listImported", "manual", "imported", "pass1", "pass2", "erase", "setFrom", "setTo",
              "cleanImported", "cleanManual", "nestManual", "nestImported"}
Starting == {"setStatus", "clearImported"}
Importing == {"fetch", "insert"}
Unlinking == {"unlinkRows", "unlinkStatus"}
Active == UNION {Posting, Updating, Deleting, Adjusting, Starting, Importing, Unlinking}
Final == {"posted", "refused", "failed", "created", "removed", "updated", "deleted", "adjusted",
          "imported!", "importFailed", "importLost", "unlinked", "crashed"}

InTable(t) == {r \in rows : r.table = t}
Span(row) == [from |-> row.from, to |-> row.to]
Without(row) == {r \in rows : r.id # row.id}
SetTimes(row, from, to) ==
  {IF r.id = row.id THEN [r EXCEPT !.from = from, !.to = to] ELSE r : r \in rows}

\* INSERT into a table.
Insert(t, r) ==
  /\ rows' = rows \cup {[id |-> nextId, table |-> t, from |-> r.from, to |-> r.to]}
  /\ nextId' = nextId + 1

Running(c) == pc[c] \in Active
Quiet == \A c \in Call : ~Running(c)
Begin(c, k) == k \in Kinds /\ pc[c] = "idle" /\ (Overlap \/ Quiet)
Goto(c, l) == pc' = [pc EXCEPT ![c] = l]
At(c, l) == pc[c] = l

\* An UPDATE of the status finds no row when there is none.
SetStatus(s) == calendar' = IF calendar = "noRow" THEN "noRow" ELSE s

\* A handler that finds an import in progress answers 405; one that cannot
\* read the status ignores the error and goes on.
CheckCalendar(c, next) ==
  \/ Goto(c, IF calendar = "In Progress" THEN "refused" ELSE next)
  \/ "read" \in Faults /\ Goto(c, next)

Init ==
  /\ \E i \in Initial : rows = i.rows /\ buffer = i.buffer
  /\ nextId = Cardinality(rows) + 1
  /\ calendar \in {"noRow", "unset"}
  /\ pc = [c \in Call |-> "idle"]
  /\ arg = [c \in Call |-> [from |-> 0, to |-> 0]]
  /\ plan = [c \in Call |-> [from |-> 0, to |-> 0, do |-> FALSE]]
  /\ seen = [c \in Call |-> {}]
  /\ todo = [c \in Call |-> {}]
  /\ buf = [c \in Call |-> DefaultBuffer]

-----------------------------------------------------------------------------
(* POST /moderator/post-availability *)

PostBegins(c, r) ==
  /\ Begin(c, "post")
  /\ arg' = [arg EXCEPT ![c] = r]
  /\ CheckCalendar(c, "readBuffer")
  /\ UNCHANGED <<tables, seen, todo, plan, buf>>

\* The error of this read is ignored, the buffer is then the default.
PostReadsBuffer(c) ==
  /\ At(c, "readBuffer")
  /\ \/ buf' = [buf EXCEPT ![c] = buffer]
     \/ "read" \in Faults /\ buf' = [buf EXCEPT ![c] = DefaultBuffer]
  /\ Goto(c, "conflicts")
  /\ UNCHANGED <<tables, arg, seen, todo, plan>>

PostChecksConflicts(c) ==
  /\ At(c, "conflicts")
  /\ Goto(c, IF \E i \in Interview : Conflicts(arg[c], i, buf[c]) THEN "refused" ELSE "overlaps")
  /\ UNCHANGED <<tables, arg, seen, todo, plan, buf>>

PostReadsOverlapping(c) ==
  /\ At(c, "overlaps")
  /\ todo' = [todo EXCEPT ![c] = {r \in InTable("manual") : Overlaps(arg[c], r)}]
  /\ plan' = [plan EXCEPT ![c] = [from |-> arg[c].from, to |-> arg[c].to, do |-> TRUE]]
  /\ Goto(c, "merge")
  /\ UNCHANGED <<tables, arg, seen, buf>>

\* The handler parses a row's times with the layout MySQL prints; with
\* parseTime=true the driver hands them over in RFC 3339, the parse fails and
\* its error is ignored.
Parsed(row) == IF ParseTime THEN [from |-> Zero, to |-> Zero] ELSE Span(row)

Wraps(o, m) == o.from < m.from /\ o.to > m.to
Within(o, m) == o.from >= m.from /\ o.to <= m.to

\* Mutant: the end of a row that starts before the new range is kept too.
Merged_Replaced(m, o) ==
  IF Within(o, m) THEN m
  ELSE IF Wraps(o, m) THEN [m EXCEPT !.do = FALSE]
  ELSE IF o.from < m.from \/ o.to = m.from THEN [m EXCEPT !.from = o.from, !.to = o.to]
  ELSE [m EXCEPT !.to = o.to]

\* What a row with times o makes of the range m that is to be created.
Merged(m, o) ==
  IF Within(o, m) THEN m
  ELSE IF Wraps(o, m) THEN [m EXCEPT !.do = FALSE]
  ELSE IF o.from < m.from \/ o.to = m.from THEN [m EXCEPT !.from = o.from]
  ELSE [m EXCEPT !.to = o.to]

\* The rows come in no particular order.  Each is deleted, unless it is around
\* the new range; a failure to delete it is ignored.
PostMerges(c, row) ==
  /\ At(c, "merge") /\ row \in todo[c]
  /\ plan' = [plan EXCEPT ![c] = Merged(@, Parsed(row))]
  /\ \/ rows' = IF Wraps(Parsed(row), plan[c]) THEN rows ELSE Without(row)
     \/ "statement" \in Faults /\ UNCHANGED rows
  /\ todo' = [todo EXCEPT ![c] = @ \ {row}]
  /\ UNCHANGED <<nextId, calendar, buffer, pc, arg, seen, buf>>

\* MySQL refuses the zero time in its strict mode, the default.
PostCreates(c) ==
  /\ At(c, "merge") /\ todo[c] = {}
  /\ plan[c].do => plan[c].from # Zero
  /\ IF plan[c].do THEN Insert("manual", plan[c]) ELSE UNCHANGED <<rows, nextId>>
  /\ Goto(c, "posted")
  /\ UNCHANGED <<calendar, buffer, arg, seen, todo, plan, buf>>

PostCreateRefused(c) ==
  /\ At(c, "merge") /\ todo[c] = {}
  /\ plan[c].do /\ plan[c].from = Zero
  /\ Goto(c, "failed")
  /\ UNCHANGED <<tables, arg, seen, todo, plan, buf>>

-----------------------------------------------------------------------------
(* The endpoints that insert or delete a row and look at nothing else *)

PostModeratorAvailability(c, r) ==
  /\ Begin(c, "create")
  /\ Insert("manual", r)
  /\ Goto(c, "created")
  /\ UNCHANGED <<calendar, buffer, arg, seen, todo, plan, buf>>

DeleteModeratorAvailability(c, row) ==
  /\ Begin(c, "remove") /\ row \in InTable("manual")
  /\ rows' = Without(row)
  /\ Goto(c, "removed")
  /\ UNCHANGED <<nextId, calendar, buffer, arg, seen, todo, plan, buf>>

-----------------------------------------------------------------------------
(* PUT /moderator/{id}/update-availability: the new range is any, the old  *)
(* one is checked.                                                         *)

UpdateFinds(c, row, r) ==
  /\ Begin(c, "update") /\ row \in InTable("manual")
  /\ arg' = [arg EXCEPT ![c] = r]
  /\ seen' = [seen EXCEPT ![c] = {row}]
  /\ Goto(c, "updateBuffer")
  /\ UNCHANGED <<tables, todo, plan, buf>>

\* The buffer comes by way of the row, which may be gone.
UpdateReadsBuffer(c) ==
  /\ At(c, "updateBuffer")
  /\ buf' = [buf EXCEPT ![c] = IF \E r \in rows, s \in seen[c] : r.id = s.id THEN buffer ELSE DefaultBuffer]
  /\ Goto(c, "updateConflicts")
  /\ UNCHANGED <<tables, arg, seen, todo, plan>>

UpdateChecksConflicts(c) ==
  /\ At(c, "updateConflicts")
  /\ \E row \in seen[c] :
       Goto(c, IF \E i \in Interview : Conflicts(row, i, buf[c]) THEN "refused" ELSE "write")
  /\ UNCHANGED <<tables, arg, seen, todo, plan, buf>>

UpdateWrites(c) ==
  /\ At(c, "write")
  /\ \E row \in seen[c] : rows' = SetTimes(row, arg[c].from, arg[c].to)
  /\ Goto(c, "updated")
  /\ UNCHANGED <<nextId, calendar, buffer, arg, seen, todo, plan, buf>>

-----------------------------------------------------------------------------
(* DELETE /moderator/{id}/delete-availability *)

DeleteFinds(c, row) ==
  /\ Begin(c, "delete") /\ row \in InTable("manual")
  /\ seen' = [seen EXCEPT ![c] = {row}]
  /\ Goto(c, "deleteCalendar")
  /\ UNCHANGED <<tables, arg, todo, plan, buf>>

DeleteChecksCalendar(c) ==
  /\ At(c, "deleteCalendar")
  /\ CheckCalendar(c, "deleteImported")
  /\ UNCHANGED <<tables, arg, seen, todo, plan, buf>>

\* A failure to read the imported rows is logged and taken for none.
DeleteReadsImported(c) ==
  /\ At(c, "deleteImported")
  /\ \/ \E row \in seen[c] :
          todo' = [todo EXCEPT ![c] = {r \in InTable("imported") : OverlapsInside(row, r)}]
     \/ "read" \in Faults /\ UNCHANGED todo
  /\ Goto(c, "copy")
  /\ UNCHANGED <<tables, arg, seen, plan, buf>>

\* The copy is inserted with the times as they were scanned into strings; those
\* of RFC 3339, with their Z, MySQL refuses in its strict mode.  The error is
\* ignored.
DeleteCopies(c, imp) ==
  /\ At(c, "copy") /\ imp \in todo[c]
  /\ \/ ~ParseTime /\ Insert("manual", imp)
     \/ (ParseTime \/ "statement" \in Faults) /\ UNCHANGED <<rows, nextId>>
  /\ todo' = [todo EXCEPT ![c] = @ \ {imp}]
  /\ UNCHANGED <<calendar, buffer, pc, arg, seen, plan, buf>>

DeleteRow(c) ==
  /\ At(c, "copy") /\ todo[c] = {}
  /\ \E row \in seen[c] : rows' = Without(row)
  /\ Goto(c, "deleted")
  /\ UNCHANGED <<nextId, calendar, buffer, arg, seen, todo, plan, buf>>

-----------------------------------------------------------------------------
(* The change of the moderator's buffer *)

\* The interviews are scanned into time.Time, which takes parseTime=true.
BufferSets(c, b) ==
  /\ Begin(c, "buffer")
  /\ buffer' = b
  /\ buf' = [buf EXCEPT ![c] = b]
  /\ Goto(c, IF ParseTime \/ Interview = {} THEN "listManual" ELSE "failed")
  /\ UNCHANGED <<rows, nextId, calendar, arg, seen, todo, plan>>

\* Mutant: only rows that touch an interview are looked at.
NearInterview_Touching(row) ==
  \E i \in Interview : row.to >= i.from /\ row.from <= i.to

NearInterview(row) ==
  \E i \in Interview : row.to + Hour >= i.from /\ row.from - Hour <= i.to

\* The rows of the table with an interview within the hour, as they are now.
BufferLists(c, t) ==
  /\ At(c, IF t = "manual" THEN "listManual" ELSE "listImported")
  /\ todo' = [todo EXCEPT ![c] = {r \in InTable(t) : NearInterview(r)}]
  /\ Goto(c, t)
  /\ UNCHANGED <<tables, arg, seen, plan, buf>>

BufferTakes(c, row) ==
  /\ pc[c] \in Tables /\ row \in todo[c]
  /\ seen' = [seen EXCEPT ![c] = {row}]
  /\ todo' = [todo EXCEPT ![c] = @ \ {row}]
  /\ Goto(c, "pass1")
  /\ UNCHANGED <<tables, arg, plan, buf>>

BufferTableDone(c) ==
  /\ pc[c] \in Tables /\ todo[c] = {}
  /\ Goto(c, IF At(c, "manual") THEN "listImported" ELSE "cleanImported")
  /\ UNCHANGED <<tables, arg, seen, todo, plan, buf>>

Distance(t, u) == IF t < u THEN u - t ELSE t - u

\* The times nearest to t and within the hour of it.
Nearest(t, ts) == {u \in ts : Distance(t, u) <= Hour /\ \A v \in ts : Distance(t, u) <= Distance(t, v)}

Length(row) == row.to - row.from

\* A row with no room for the buffer b; squeezed: the end that stays lies
\* within the buffer.
TooShort(row, b, squeezed) ==
  \/ Length(row) < 0
  \/ Length(row) # 0 /\ Length(row) < Hour /\ b > Length(row) /\ squeezed

\* The first pass looks for the interview that ends nearest to the row's start,
\* the second for the one that starts nearest to its end, both from the times
\* listed; the row is then read again, and one that is gone makes the handler
\* fail.  With ties the first interview of the query is taken, which is any.
BufferReadsForStart(c) ==
  /\ At(c, "pass1")
  /\ \E row \in seen[c] :
       LET ends == Nearest(row.from, {i.to : i \in Interview})
           now == {r \in rows : r.id = row.id}
       IN \/ ends = {} /\ Goto(c, "pass2") /\ UNCHANGED plan
          \/ ends # {} /\ now = {} /\ Goto(c, "failed") /\ UNCHANGED plan
          \/ \E e \in ends, al \in now :
               /\ plan' = [plan EXCEPT ![c].from = e + buf[c]]
               /\ Goto(c, IF TooShort(al, buf[c], al.to <= e + buf[c]) THEN "erase"
                          ELSE IF e < al.to /\ Distance(e, al.from) <= Hour THEN "setFrom"
                          ELSE "pass2")
  /\ UNCHANGED <<tables, arg, seen, todo, buf>>

BufferReadsForEnd(c) ==
  /\ At(c, "pass2")
  /\ \E row \in seen[c] :
       LET starts == Nearest(row.to, {i.from : i \in Interview})
           now == {r \in rows : r.id = row.id}
       IN \/ starts = {} /\ Goto(c, row.table) /\ UNCHANGED plan
          \/ starts # {} /\ now = {} /\ Goto(c, "failed") /\ UNCHANGED plan
          \/ \E s \in starts, al \in now :
               /\ plan' = [plan EXCEPT ![c].to = s - buf[c]]
               /\ Goto(c, IF TooShort(al, buf[c], al.from >= s - buf[c]) THEN "erase"
                          ELSE IF s > al.from /\ Distance(s, al.to) <= Hour THEN "setTo"
                          ELSE row.table)
  /\ UNCHANGED <<tables, arg, seen, todo, buf>>

BufferErases(c) ==
  /\ At(c, "erase")
  /\ \E row \in seen[c] : rows' = Without(row) /\ Goto(c, row.table)
  /\ UNCHANGED <<nextId, calendar, buffer, arg, seen, todo, plan, buf>>

BufferSetsStart(c) ==
  /\ At(c, "setFrom")
  /\ \E row \in seen[c] :
       rows' = {IF r.id = row.id THEN [r EXCEPT !.from = plan[c].from] ELSE r : r \in rows}
  /\ Goto(c, "pass2")
  /\ UNCHANGED <<nextId, calendar, buffer, arg, seen, todo, plan, buf>>

BufferSetsEnd(c) ==
  /\ At(c, "setTo")
  /\ \E row \in seen[c] :
       /\ rows' = {IF r.id = row.id THEN [r EXCEPT !.to = plan[c].to] ELSE r : r \in rows}
       /\ Goto(c, row.table)
  /\ UNCHANGED <<nextId, calendar, buffer, arg, seen, todo, plan, buf>>

\* CleanUpAvailabilitiesByModeratorIdMRA
BufferCleansUp(c, t) ==
  /\ At(c, IF t = "imported" THEN "cleanImported" ELSE "cleanManual")
  /\ rows' = {r \in rows : r.table = t => r.from < r.to}
  /\ Goto(c, IF t = "imported" THEN "cleanManual" ELSE "nestManual")
  /\ UNCHANGED <<nextId, calendar, buffer, arg, seen, todo, plan, buf>>

BufferRemovesNested(c, t) ==
  /\ At(c, IF t = "manual" THEN "nestManual" ELSE "nestImported")
  /\ rows' = rows \ Nested(InTable(t))
  /\ Goto(c, IF t = "manual" THEN "nestImported" ELSE "adjusted")
  /\ UNCHANGED <<nextId, calendar, buffer, arg, seen, todo, plan, buf>>

-----------------------------------------------------------------------------
(* The import from a Google sheet *)

ImportBegins(c, force) ==
  /\ Begin(c, IF force THEN "forced" ELSE "import")
  /\ IF force THEN Goto(c, "setStatus") ELSE CheckCalendar(c, "setStatus")
  /\ UNCHANGED <<tables, arg, seen, todo, plan, buf>>

ImportSetsStatus(c) ==
  /\ At(c, "setStatus")
  /\ SetStatus("In Progress")
  /\ Goto(c, "clearImported")
  /\ UNCHANGED <<rows, nextId, buffer, arg, seen, todo, plan, buf>>

\* Then the goroutine is started and the handler answers.
ImportClears(c) ==
  /\ At(c, "clearImported")
  /\ rows' = rows \ InTable("imported")
  /\ Goto(c, "fetch")
  /\ UNCHANGED <<nextId, calendar, buffer, arg, seen, todo, plan, buf>>

ImportFetches(c) ==
  /\ At(c, "fetch")
  /\ todo' = [todo EXCEPT ![c] = MergeOverlappingSlots(Sheet)]
  /\ Goto(c, "insert")
  /\ UNCHANGED <<tables, arg, seen, plan, buf>>

\* Mutant: the status is left as it is.
ImportFetchFails_Silent(c) ==
  /\ At(c, "fetch") /\ "sheet" \in Faults
  /\ Goto(c, "importFailed")
  /\ UNCHANGED <<tables, arg, seen, todo, plan, buf>>

\* Google Sheets is not configured or not reached, or the sheet not understood.
ImportFetchFails(c) ==
  /\ At(c, "fetch") /\ "sheet" \in Faults
  /\ SetStatus("Failed")
  /\ Goto(c, "importFailed")
  /\ UNCHANGED <<rows, nextId, buffer, arg, seen, todo, plan, buf>>

\* The blocks are inserted in their order, into moderator_availability; one
\* that fails is logged and left out.
ImportInserts(c, block) ==
  /\ At(c, "insert") /\ block \in todo[c]
  /\ \A b \in todo[c] : block.from <= b.from
  /\ \/ Insert("manual", block)
     \/ "statement" \in Faults /\ UNCHANGED <<rows, nextId>>
  /\ todo' = [todo EXCEPT ![c] = @ \ {block}]
  /\ UNCHANGED <<calendar, buffer, pc, arg, seen, plan, buf>>

ImportCompletes(c) ==
  /\ At(c, "insert") /\ todo[c] = {}
  /\ SetStatus("Completed")
  /\ Goto(c, "imported!")
  /\ UNCHANGED <<rows, nextId, buffer, arg, seen, todo, plan, buf>>

\* After the two minutes of its context every statement of the goroutine
\* fails, the update of the status among them.
ImportTimesOut(c) ==
  /\ "timeout" \in Faults
  /\ pc[c] \in Importing
  /\ Goto(c, "importLost")
  /\ UNCHANGED <<tables, arg, seen, todo, plan, buf>>

-----------------------------------------------------------------------------
(* POST /moderator/unlink-imp-mod: the calendar is read, the error of the  *)
(* read ends the handler.                                                  *)

UnlinkBegins(c) ==
  /\ Begin(c, "unlink")
  /\ Goto(c, IF calendar = "In Progress" THEN "refused" ELSE "unlinkRows")
  /\ UNCHANGED <<tables, arg, seen, todo, plan, buf>>

UnlinkDeletesRows(c) ==
  /\ At(c, "unlinkRows")
  /\ rows' = rows \ InTable("imported")
  /\ Goto(c, "unlinkStatus")
  /\ UNCHANGED <<nextId, calendar, buffer, arg, seen, todo, plan, buf>>

UnlinkDeletesStatus(c) ==
  /\ At(c, "unlinkStatus")
  /\ calendar' = "noRow"
  /\ Goto(c, "unlinked")
  /\ UNCHANGED <<rows, nextId, buffer, arg, seen, todo, plan, buf>>

-----------------------------------------------------------------------------
\* A statement fails and the handler, or the last statement of the goroutine
\* and with it the record of how the import ended, with it.
CallFails(c) ==
  /\ "statement" \in Faults
  /\ \/ /\ pc[c] \in Active \ ({"readBuffer", "fetch", "insert"} \cup Tables)
        /\ pc[c] \in {"merge", "copy"} => todo[c] = {}
        /\ Goto(c, "failed")
     \/ At(c, "insert") /\ todo[c] = {} /\ Goto(c, "importLost")
  /\ UNCHANGED <<tables, arg, seen, todo, plan, buf>>

\* The process ends; what was running is gone, the status stays.
Crash ==
  /\ "crash" \in Faults
  /\ ~Quiet
  /\ pc' = [c \in Call |-> IF Running(c) THEN "crashed" ELSE pc[c]]
  /\ UNCHANGED <<tables, arg, seen, todo, plan, buf>>

CallBegins(c) ==
  \/ \E r \in TimeRange : PostBegins(c, r)
  \/ \E r \in AnyRange : PostModeratorAvailability(c, r)
  \/ \E row \in rows, r \in AnyRange : UpdateFinds(c, row, r)
  \/ \E row \in rows : DeleteModeratorAvailability(c, row) \/ DeleteFinds(c, row)
  \/ \E b \in Buffers : BufferSets(c, b)
  \/ \E force \in BOOLEAN : ImportBegins(c, force)
  \/ UnlinkBegins(c)

CallSteps(c) ==
  \/ PostReadsBuffer(c) \/ PostChecksConflicts(c) \/ PostReadsOverlapping(c)
  \/ (\E row \in todo[c] : PostMerges(c, row)) \/ PostCreates(c) \/ PostCreateRefused(c)
  \/ UpdateReadsBuffer(c) \/ UpdateChecksConflicts(c) \/ UpdateWrites(c)
  \/ DeleteChecksCalendar(c) \/ DeleteReadsImported(c)
  \/ (\E imp \in todo[c] : DeleteCopies(c, imp)) \/ DeleteRow(c)
  \/ (\E t \in Tables : BufferLists(c, t) \/ BufferCleansUp(c, t) \/ BufferRemovesNested(c, t))
  \/ (\E row \in todo[c] : BufferTakes(c, row)) \/ BufferTableDone(c)
  \/ BufferReadsForStart(c) \/ BufferReadsForEnd(c)
  \/ BufferErases(c) \/ BufferSetsStart(c) \/ BufferSetsEnd(c)
  \/ ImportSetsStatus(c) \/ ImportClears(c) \/ ImportFetches(c) \/ ImportFetchFails(c)
  \/ (\E block \in todo[c] : ImportInserts(c, block)) \/ ImportCompletes(c)
  \/ UnlinkDeletesRows(c) \/ UnlinkDeletesStatus(c)

Next ==
  \/ \E c \in Call : CallBegins(c) \/ CallSteps(c) \/ ImportTimesOut(c) \/ CallFails(c)
  \/ Crash

Spec == Init /\ [][Next]_vars

\* A handler or goroutine that has started goes on.
FairSpec == Spec /\ \A c \in Call : WF_vars(CallSteps(c))

-----------------------------------------------------------------------------
\* The types, with ids that are unique and behind the AUTO_INCREMENT.
TypeOK ==
  /\ rows \subseteq [id : Nat, table : Tables, from : Int, to : Int]
  /\ \A x, y \in rows : x.id = y.id => x = y
  /\ nextId \in Nat /\ \A r \in rows : r.id < nextId
  /\ calendar \in Status
  /\ buffer \in Buffers
  /\ pc \in [Call -> {"idle"} \cup Active \cup Final]
  /\ arg \in [Call -> AnyRange]
  /\ \A c \in Call : seen[c] \subseteq [id : Nat, table : Tables, from : Int, to : Int]
  /\ \A c \in Call : \A r \in todo[c] : r.from \in Int /\ r.to \in Int
  /\ plan \in [Call -> [from : Int, to : Int, do : BOOLEAN]]
  /\ buf \in [Call -> Buffers \cup {DefaultBuffer}]

\* Ranges posted one after the other are merged: where nothing is imported, no
\* two rows overlap or touch (PostModeratorAvailabilityMRA, "merges overlapping
\* availabilities").
RowsApart == InTable("imported") = {} => \A x, y \in rows : x # y => ~Meets(x, y)

\* When no call is running no row comes closer to an interview than the
\* buffer: posts were refused there, a change of the buffer has cut the rows.
RowsAvoidInterviews == Quiet => \A row \in rows, i \in Interview : ~Intrudes(row, i, buffer)

\* What the moderator offers by hand: the rows, and what a post that has begun
\* to merge is going to create (from the zero time it cannot).
Offered ==
  Cells(InTable("manual") \cup {plan[c] : c \in {d \in Call : At(d, "merge") /\ plan[d].from # Zero}})

Cover == INSTANCE ModeratorCover WITH
  cover <- Offered,
  removed <- {c \in Call : pc[c] \in {"removed", "deleted"}}

\* Handlers that merge, and delete rows in doing so, offer the same as before
\* and the new range, whatever they have deleted at a given moment.
OffersAreKept == Cover!Spec

\* A range that is deleted leaves copies of the imported ones it overlaps
\* ("re-creates overlapping imported avails as manual",
\* DeleteModeratorAvailabilityMRA).
ImportedIsCopied ==
  [][\A c \in Call : DeleteRow(c) =>
       \A row \in seen[c], imp \in InTable("imported") :
         imp.from < row.to /\ row.from < imp.to =>
           \E r \in rows' : r.table = "manual" /\ Span(r) = Span(imp)]_vars

\* A call that ended before its time, and with it the record of its import.
Cut == {c \in Call : pc[c] \in {"failed", "importLost", "crashed"}}

\* The status does not stay "In Progress", and edits refused, while the server
\* runs: RunModeratorImport records how it ends whatever the sheet is like.  Only
\* its time-out, a crash or a failing statement leave the status as it is.
ImportEnds == calendar = "In Progress" ~> calendar # "In Progress" \/ Cut # {}
=============================================================================
