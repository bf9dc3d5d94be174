---------------------------- MODULE MCWorkspace ----------------------------
(***************************************************************************)
(* The parts of the workspace that share no state, side by side.  In the   *)
(* program they run at the same time, but a step of one neither reads nor  *)
(* writes what another keeps, so what holds of each alone holds of all:    *)
(* part says which one moves in a behaviour, and the others stay at their  *)
(* initial states.                                                         *)
(***************************************************************************)
EXTENDS Drafts, Calendar, Feeds, Vacation, Meetings, Accounts, Tasks, Chat, TLC

VARIABLE part

allVars == <<part, draftVars, calendarVars, feedVars, vacationVars, meetingVars, accountVars,
             taskVars, chatVars>>

WorkspaceInit ==
  /\ DraftInit /\ CalendarInit /\ FeedInit /\ VacationInit /\ MeetingInit /\ AccountInit
  /\ TaskInit /\ ChatInit
  /\ part \in {"drafts", "calendar", "feeds", "vacation", "meetings", "accounts", "tasks", "chat"}

WorkspaceNext ==
  /\ UNCHANGED part
  /\ \/ /\ part = "drafts" /\ DraftNext
        /\ UNCHANGED <<calendarVars, feedVars, vacationVars, meetingVars, accountVars,
                       taskVars, chatVars>>
     \/ /\ part = "calendar" /\ CalendarNext
        /\ UNCHANGED <<draftVars, feedVars, vacationVars, meetingVars, accountVars,
                       taskVars, chatVars>>
     \/ /\ part = "feeds" /\ FeedNext
        /\ UNCHANGED <<draftVars, calendarVars, vacationVars, meetingVars, accountVars,
                       taskVars, chatVars>>
     \/ /\ part = "vacation" /\ VacationNext
        /\ UNCHANGED <<draftVars, calendarVars, feedVars, meetingVars, accountVars,
                       taskVars, chatVars>>
     \/ /\ part = "meetings" /\ MeetingNext
        /\ UNCHANGED <<draftVars, calendarVars, feedVars, vacationVars, accountVars,
                       taskVars, chatVars>>
     \/ /\ part = "accounts" /\ AccountNext
        /\ UNCHANGED <<draftVars, calendarVars, feedVars, vacationVars, meetingVars,
                       taskVars, chatVars>>
     \/ /\ part = "tasks" /\ TaskNext
        /\ UNCHANGED <<draftVars, calendarVars, feedVars, vacationVars, meetingVars,
                       accountVars, chatVars>>
     \/ /\ part = "chat" /\ ChatNext
        /\ UNCHANGED <<draftVars, calendarVars, feedVars, vacationVars, meetingVars,
                       accountVars, taskVars>>

WorkspaceSpec == WorkspaceInit /\ [][WorkspaceNext]_allVars

\* Every part keeps its types.
WorkspaceTypeOK ==
  /\ DraftTypeOK /\ CalendarTypeOK /\ FeedTypeOK /\ VacationTypeOK
  /\ MeetingTypeOK /\ AccountTypeOK /\ TaskTypeOK /\ ChatTypeOK

\* Invocations are alike.
WorkspaceSymmetry == Permutations(Workers)
=============================================================================
