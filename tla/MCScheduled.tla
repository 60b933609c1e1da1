----------------------------- MODULE MCScheduled -----------------------------
(***************************************************************************)
(* The parts of the system that clocks and other systems drive.  They      *)
(* share no state: a behaviour is one part's, while the others stay where  *)
(* they begin.                                                             *)
(***************************************************************************)
EXTENDS SoftLaunch, SurveyClosing, CalendarWatch, Reminders, Meetings

VARIABLE focus

scheduledVars == <<focus, launchVars, closingVars, watchVars, reminderVars, meetingVars>>

Parts == {"launch", "closing", "watch", "reminders", "meetings"}

ScheduledInit ==
  /\ focus \in Parts
  /\ LaunchInit /\ ClosingInit /\ WatchInit /\ ReminderInit /\ MeetingInit
  \* One beginning each for the parts that stay there.
  /\ focus # "launch" => survey.quota = [w \in Crowd |-> CHOOSE q \in Quotas : TRUE]
  /\ focus # "closing" => needsReview
  /\ focus # "watch" => month = 31

Others(part) ==
  /\ UNCHANGED focus
  /\ focus = part
  /\ part # "launch" => UNCHANGED launchVars
  /\ part # "closing" => UNCHANGED closingVars
  /\ part # "watch" => UNCHANGED watchVars
  /\ part # "reminders" => UNCHANGED reminderVars
  /\ part # "meetings" => UNCHANGED meetingVars

ScheduledNext ==
  \/ LaunchNext /\ Others("launch")
  \/ ClosingNext /\ Others("closing")
  \/ WatchNext /\ Others("watch")
  \/ ReminderNext /\ Others("reminders")
  \/ MeetingNext /\ Others("meetings")

\* What ClosingFairness is about is not enabled while another part moves.
ScheduledSpec == ScheduledInit /\ [][ScheduledNext]_scheduledVars /\ ClosingFairness
=============================================================================
