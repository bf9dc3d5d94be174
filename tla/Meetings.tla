------------------------------ MODULE Meetings ------------------------------
(***************************************************************************)
(* One meeting and its room at the calling service (meetings.ts): it is    *)
(* created, visitors join, its owner ends it or it expires, and the cron   *)
(* closes what is over.                                                    *)
(*                                                                         *)
(* An await is a step.  The calling service is external: a call may fail   *)
(* without effect, or take effect while its answer is lost.  An UPDATE of  *)
(* createMeeting may fail, and an invocation may end at any await.         *)
(***************************************************************************)
EXTENDS Naturals

CONSTANTS
  Visitors,   \* requests to join
  Closers     \* invocations that end the meeting or clean up

VARIABLES
  meeting,    \* the row: provider_id recorded, ended, expired
  room,       \* external: the room
  creator,    \* createMeeting
  visitor,    \* joinMeeting
  closer,     \* endMeeting and closeExpiredMeetings
  mishap,     \* history: what was known of the room was lost when it was created
  late        \* history: visitors the service admitted when the meeting had ended

meetingVars == <<meeting, room, creator, visitor, closer, mishap, late>>

MeetingTypeOK ==
  /\ meeting \in [there : BOOLEAN, provider : BOOLEAN, ended : BOOLEAN, expired : BOOLEAN]
  /\ room \in {"none", "open", "inactive"}
  /\ creator \in {"insert", "post", "record", "salvage", "deactivate", "fail", "done"}
  /\ visitor \in [Visitors -> {"out", "admit", "participant", "recheck", "answer", "in", "refused"}]
  /\ closer \in [Closers -> [pc : {"idle", "end", "patch", "kick", "clear"}, provider : BOOLEAN]]
  /\ mishap \in BOOLEAN /\ late \subseteq Visitors

MeetingInit ==
  /\ meeting = [there |-> FALSE, provider |-> FALSE, ended |-> FALSE, expired |-> FALSE]
  /\ room = "none" /\ creator = "insert"
  /\ visitor = [v \in Visitors |-> "out"]
  /\ closer = [c \in Closers |-> [pc |-> "idle", provider |-> FALSE]]
  /\ mishap = FALSE /\ late = {}

-----------------------------------------------------------------------------
(* createMeeting *)

InsertMeeting ==
  /\ creator = "insert" /\ creator' = "post"
  /\ meeting' = [meeting EXCEPT !.there = TRUE]
  /\ UNCHANGED <<room, visitor, closer, mishap, late>>

\* The room is made, it is not, or it is and nobody learns which.
PostRoom ==
  /\ creator = "post"
  /\ \/ room' = "open" /\ creator' = "record" /\ UNCHANGED mishap
     \/ UNCHANGED <<room, mishap>> /\ creator' = "fail"
     \/ room' = "open" /\ creator' = "fail" /\ mishap' = TRUE
  /\ UNCHANGED <<meeting, visitor, closer, late>>

RecordRoom ==
  /\ creator = "record"
  /\ \/ meeting' = [meeting EXCEPT !.provider = TRUE] /\ creator' = "done"
     \/ UNCHANGED meeting /\ creator' = "salvage"
  /\ UNCHANGED <<room, visitor, closer, mishap, late>>

\* The catch: the id once more and the end, for the cron; then the room itself.
Salvage ==
  /\ creator = "salvage"
  /\ \/ /\ meeting' = [meeting EXCEPT !.provider = TRUE, !.ended = TRUE]
        /\ creator' = "deactivate" /\ UNCHANGED mishap
     \/ UNCHANGED meeting /\ creator' = "fail" /\ mishap' = TRUE
  /\ UNCHANGED <<room, visitor, closer, late>>
Deactivate ==
  /\ creator = "deactivate" /\ creator' = "fail"
  /\ room' = "inactive" \/ UNCHANGED room
  /\ UNCHANGED <<meeting, visitor, closer, mishap, late>>
EndFailed ==
  /\ creator = "fail" /\ creator' = "done"
  /\ meeting' = [meeting EXCEPT !.ended = TRUE] \/ UNCHANGED meeting
  /\ UNCHANGED <<room, visitor, closer, mishap, late>>

CreatorDies ==
  /\ creator \notin {"insert", "done"} /\ creator' = "done"
  /\ mishap' = (mishap \/ creator \in {"record", "salvage"})
  /\ UNCHANGED <<meeting, room, visitor, closer, late>>

-----------------------------------------------------------------------------
(* joinMeeting *)

Over == meeting.ended \/ meeting.expired
Open == meeting.there /\ meeting.provider /\ ~Over

\* meetingForVisitor, then the admission, which asks for the row again.
Visit(v) ==
  /\ visitor[v] = "out" /\ meeting.there
  /\ visitor' = [visitor EXCEPT ![v] = IF Open THEN "admit" ELSE "refused"]
  /\ UNCHANGED <<meeting, room, creator, closer, mishap, late>>
Admit(v) ==
  /\ visitor[v] = "admit"
  /\ visitor' = [visitor EXCEPT ![v] = IF Over THEN "refused" ELSE "participant"]
  /\ UNCHANGED <<meeting, room, creator, closer, mishap, late>>

\* The service makes a participant, or fails; the code knows nothing of a room that is closed.
Participant(v) ==
  /\ visitor[v] = "participant"
  /\ \/ /\ visitor' = [visitor EXCEPT ![v] = "recheck"]
        /\ late' = IF Over THEN late \cup {v} ELSE late
     \/ visitor' = [visitor EXCEPT ![v] = "refused"] /\ UNCHANGED late
  /\ UNCHANGED <<meeting, room, creator, closer, mishap>>

\* Wrong on purpose: the participant's token is answered as it comes.
RecheckNothing(v) ==
  /\ visitor[v] = "recheck"
  /\ visitor' = [visitor EXCEPT ![v] = "answer"]
  /\ UNCHANGED <<meeting, room, creator, closer, mishap, late>>

\* meetingForVisitor again
RecheckJoin(v) ==
  /\ visitor[v] = "recheck"
  /\ visitor' = [visitor EXCEPT ![v] = IF Open THEN "answer" ELSE "refused"]
  /\ UNCHANGED <<meeting, room, creator, closer, mishap, late>>
AnswerJoin(v) ==
  /\ visitor[v] = "answer"
  /\ visitor' = [visitor EXCEPT ![v] = "in"]
  /\ UNCHANGED <<meeting, room, creator, closer, mishap, late>>

-----------------------------------------------------------------------------
(* endMeeting and closeExpiredMeetings *)

Expire ==
  /\ meeting.there /\ ~meeting.expired
  /\ meeting' = [meeting EXCEPT !.expired = TRUE]
  /\ UNCHANGED <<room, creator, visitor, closer, mishap, late>>

\* The owner knows the meeting when it is listed or its creation has answered.
AskEnd(c) ==
  /\ closer[c].pc = "idle" /\ meeting.there
  /\ meeting.provider \/ creator = "done"
  /\ closer' = [closer EXCEPT ![c] = [pc |-> "end", provider |-> meeting.provider]]
  /\ UNCHANGED <<meeting, room, creator, visitor, mishap, late>>
\* The cron lists meetings that are over and still have a room.
ListOver(c) ==
  /\ closer[c].pc = "idle" /\ meeting.provider /\ Over
  /\ closer' = [closer EXCEPT ![c] = [pc |-> "end", provider |-> TRUE]]
  /\ UNCHANGED <<meeting, room, creator, visitor, mishap, late>>

Relax == [pc |-> "idle", provider |-> FALSE]
EndMeeting(c) ==
  /\ closer[c].pc = "end"
  /\ meeting' = [meeting EXCEPT !.ended = TRUE]
  /\ closer' = [closer EXCEPT ![c] = IF @.provider THEN [@ EXCEPT !.pc = "patch"] ELSE Relax]
  /\ UNCHANGED <<room, creator, visitor, mishap, late>>

\* Wrong on purpose: a call that failed is taken for done.
PatchHopefully(c) ==
  /\ closer[c].pc = "patch"
  /\ room' = "inactive" \/ UNCHANGED room
  /\ closer' = [closer EXCEPT ![c].pc = "kick"]
  /\ UNCHANGED <<meeting, creator, visitor, mishap, late>>

\* closeProvider: a call that fails leaves the rest to the cron.
Patch(c) ==
  /\ closer[c].pc = "patch"
  /\ \/ room' = "inactive" /\ closer' = [closer EXCEPT ![c].pc = "kick"]
     \/ room' \in {room, "inactive"} /\ closer' = [closer EXCEPT ![c] = Relax]
  /\ UNCHANGED <<meeting, creator, visitor, mishap, late>>
Kick(c) ==
  /\ closer[c].pc = "kick"
  /\ \/ closer' = [closer EXCEPT ![c].pc = "clear"]
     \/ closer' = [closer EXCEPT ![c] = Relax]
  /\ UNCHANGED <<meeting, room, creator, visitor, mishap, late>>
Clear(c) ==
  /\ closer[c].pc = "clear"
  /\ meeting' = [meeting EXCEPT !.provider = FALSE]
  /\ closer' = [closer EXCEPT ![c] = Relax]
  /\ UNCHANGED <<room, creator, visitor, mishap, late>>
CloserDies(c) ==
  /\ closer[c].pc # "idle"
  /\ closer' = [closer EXCEPT ![c] = Relax]
  /\ UNCHANGED <<meeting, room, creator, visitor, mishap, late>>

MeetingNext ==
  \/ InsertMeeting \/ PostRoom \/ RecordRoom \/ Salvage \/ Deactivate \/ EndFailed \/ CreatorDies
  \/ Expire
  \/ \E v \in Visitors : Visit(v) \/ Admit(v) \/ Participant(v) \/ RecheckJoin(v) \/ AnswerJoin(v)
  \/ \E c \in Closers : AskEnd(c) \/ ListOver(c) \/ EndMeeting(c) \/ Patch(c) \/ Kick(c)
                          \/ Clear(c) \/ CloserDies(c)

MeetingSpec == MeetingInit /\ [][MeetingNext]_meetingVars

-----------------------------------------------------------------------------
(* Properties *)

\* Ending a meeting while the call to the service is in flight releases no token: whom the
\* service admitted after the end is not told.
NoTokenAfterEnd == \A v \in late : visitor[v] \notin {"answer", "in"}

\* A room that is open is on record for the cron to close, or its meeting is just being made:
\* only a mishap when it was created, the lost answer or the end of the invocation before the
\* id was stored or an UPDATE that fails twice, leaves a room that nobody will close.
OpenRoomOnRecord ==
  room = "open" => meeting.provider \/ mishap \/ creator \in {"record", "salvage"}

=============================================================================
