------------------------------ MODULE Meetings ------------------------------
(***************************************************************************)
(* The meeting of one interview and what is known of its recording.  The   *)
(* conference service creates the meeting and later calls back, once or    *)
(* more, when a recording has been uploaded.  The handlers note both in    *)
(* tables, each by a statement whose failure is dropped, and answer well.  *)
(***************************************************************************)
EXTENDS FiniteSets

CONSTANTS
  MeetingCall,    \* calls of the handlers
  Meeting,        \* meetings the service may create
  Body,           \* the recordings that callbacks tell of
  Empty,          \* what a callback with an empty body tells of
  MeetingFaults   \* "statement": a statement fails

NoRecording == "none"

ASSUME BodyAssumption == Empty \notin Body /\ NoRecording \notin Body \cup {Empty}

VARIABLES
  created,     \* the service's meetings for the interview
  linked,      \* QS: those that conference_invitation holds the hash of
  recording,   \* QS: the recording that row tells of
  media,       \* IRIS: the recording that interview_media tells of
  meetingCall, \* where each call is, and what it brings
  told,        \* history: meetings a callback was answered for
  odd          \* history: what has happened that can leave the two at odds

meetingVars == <<created, linked, recording, media, meetingCall, told, odd>>

MeetingInit ==
  /\ created = {}
  /\ linked = {}
  /\ recording = [m \in Meeting |-> NoRecording]
  /\ media = [m \in Meeting |-> NoRecording]
  /\ meetingCall = [c \in MeetingCall |-> [at |-> "idle"]]
  /\ told = {}
  /\ odd = {}

MeetingMoves(c, to) == meetingCall' = [meetingCall EXCEPT ![c] = to]

\* CreateMeeting: the service creates one; a request repeated gets another.
CreateMeeting(c, m) ==
  /\ meetingCall[c].at = "idle"
  /\ m \notin created
  /\ created' = created \cup {m}
  /\ MeetingMoves(c, [at |-> "link", meeting |-> m])
  /\ UNCHANGED <<linked, recording, media, told, odd>>

\* CreateConferenceLink
LinkMeeting(c) ==
  /\ meetingCall[c].at = "link"
  /\ linked' = linked \cup {meetingCall[c].meeting}
  /\ MeetingMoves(c, [at |-> "over"])
  /\ UNCHANGED <<created, recording, media, told, odd>>

\* A callback comes in: of a recording, or with an empty body.
ReceiveCallback(c, m, body) ==
  /\ meetingCall[c].at = "idle"
  /\ m \in created
  /\ MeetingMoves(c, [at |-> "media", meeting |-> m, body |-> body])
  /\ odd' = odd \cup (IF \E d \in MeetingCall : meetingCall[d].at \in {"media", "status"}
                      THEN {"overlap"} ELSE {})
                \cup (IF body = Empty THEN {"empty"} ELSE {})
                \cup (IF m \in linked THEN {} ELSE {"unlinked"})
  /\ UNCHANGED <<created, linked, recording, media, told>>

\* Mutant: the row is inserted, and not changed once it is there.
UpsertMedia_Insert(c) ==
  LET k == meetingCall[c]
  IN /\ k.at = "media"
     /\ media' = [media EXCEPT ![k.meeting] = IF @ = NoRecording THEN k.body ELSE @]
     /\ MeetingMoves(c, [k EXCEPT !.at = "status"])
     /\ UNCHANGED <<created, linked, recording, told, odd>>

\* UpsertInterviewMedia takes whatever the callback tells, an empty body too.
UpsertMedia(c) ==
  LET k == meetingCall[c]
  IN /\ k.at = "media"
     /\ media' = [media EXCEPT ![k.meeting] = k.body]
     /\ MeetingMoves(c, [k EXCEPT !.at = "status"])
     /\ UNCHANGED <<created, linked, recording, told, odd>>

\* UpdateRecordingStatus changes the meeting's row if there is one.
UpdateRecording(c) ==
  LET k == meetingCall[c]
  IN /\ k.at = "status"
     /\ recording' = IF k.meeting \in linked THEN [recording EXCEPT ![k.meeting] = k.body] ELSE recording
     /\ MeetingMoves(c, [at |-> "over"])
     /\ told' = told \cup {k.meeting}
     /\ UNCHANGED <<created, linked, media, odd>>

\* A statement fails, and the call goes on as if it had not.
MeetingPasses(c) ==
  LET k == meetingCall[c]
  IN /\ "statement" \in MeetingFaults
     /\ k.at \in {"link", "media", "status"}
     /\ MeetingMoves(c, IF k.at = "media" THEN [k EXCEPT !.at = "status"] ELSE [at |-> "over"])
     /\ told' = IF k.at = "status" THEN told \cup {k.meeting} ELSE told
     /\ odd' = odd \cup {"failure"}
     /\ UNCHANGED <<created, linked, recording, media>>

MeetingNext ==
  \E c \in MeetingCall :
    \/ \E m \in Meeting :
         CreateMeeting(c, m) \/ \E body \in Body \cup {Empty} : ReceiveCallback(c, m, body)
    \/ LinkMeeting(c) \/ UpsertMedia(c) \/ UpdateRecording(c) \/ MeetingPasses(c)

MeetingSpec == MeetingInit /\ [][MeetingNext]_meetingVars

-----------------------------------------------------------------------------
\* A meeting whose callback was answered has a recording, the same in IRIS and QS,
\* unless a statement failed, a body was empty, the meeting had no row yet, or two
\* callbacks crossed: calls in any other order lose none.
RecordingLostHasCause ==
  odd = {} => \A m \in told :
    (\A c \in MeetingCall : meetingCall[c].at \in {"idle", "over"}) =>
      media[m] # NoRecording /\ media[m] = recording[m]
=============================================================================
