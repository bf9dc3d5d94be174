------------------------------- MODULE Tasks -------------------------------
(***************************************************************************)
(* The follow-ups of one conversation: a sent message waits for a reply    *)
(* (tasks.ts and the triggers of migrations/0031_productivity.sql).  Saves *)
(* read the task, the message and its replies, and then write; replies     *)
(* arrive, and messages are destroyed, in between.                         *)
(*                                                                         *)
(* An await is a step, a statement is atomic with its triggers.  The       *)
(* reminder of an open task may come due at any time.                      *)
(***************************************************************************)
EXTENDS Naturals

CONSTANTS
  FollowUps,       \* task ids, all of one conversation
  Savers,          \* requests that save a task at the same time
  MaxTaskVersion   \* bound: version at which the user leaves a task alone

ASSUME TasksAssumption == MaxTaskVersion \in Nat \ {0}

VARIABLES
  task,        \* mail_tasks
  answered,    \* a live reply that came after the sent message is stored
  source,      \* the sent message is stored
  saver,       \* a request that saves, and what it has read; history: whether it looked for
               \* replies before the last one came, and whether its task was closed when it
               \* read it, or has been deleted since
  reopened     \* history: such tasks that such a request opened again

taskVars == <<task, answered, source, saver, reopened>>

NoTask == [there |-> FALSE, completed |-> "no", version |-> 0, due |-> FALSE,
           notified |-> FALSE, dismissed |-> FALSE]
NoSave(k) == [pc |-> "idle", task |-> k, version |-> 0, done |-> FALSE, replied |-> FALSE,
              overtaken |-> FALSE, closed |-> FALSE]

Reasons == {"no", "done", "replied"}
TaskTypeOK ==
  /\ task \in [FollowUps -> [there : BOOLEAN, completed : Reasons,
                             version : 0..(MaxTaskVersion + 1),
                             due : BOOLEAN, notified : BOOLEAN, dismissed : BOOLEAN]]
  /\ answered \in BOOLEAN /\ source \in BOOLEAN
  /\ saver \in [Savers -> [pc : {"idle", "message", "replies", "write"}, task : FollowUps,
                           version : 0..MaxTaskVersion, done : BOOLEAN, replied : BOOLEAN,
                           overtaken : BOOLEAN, closed : BOOLEAN]]
  /\ reopened \subseteq FollowUps

TaskInit ==
  /\ task = [k \in FollowUps |-> NoTask]
  /\ answered = FALSE /\ source = TRUE
  /\ saver \in {[s \in Savers |-> NoSave(k)] : k \in FollowUps}
  /\ reopened = {}

Waiting(k) == task[k].there /\ task[k].completed = "no"

-----------------------------------------------------------------------------
(* saveTask *)

IdleAgain(s) == saver' = [saver EXCEPT ![s] = NoSave(saver[s].task)]

\* getTask; a task whose message is gone can only be completed, and no message is looked for.
ReadTask(s, k, done) ==
  /\ saver[s].pc = "idle"
  /\ task[k].version < MaxTaskVersion
  /\ source \/ (task[k].there /\ done)
  /\ saver' = [saver EXCEPT ![s] =
       [NoSave(k) EXCEPT !.pc = IF source THEN "message" ELSE "write",
                         !.version = task[k].version, !.done = done,
                         !.closed = task[k].completed # "no"]]
  /\ UNCHANGED <<task, answered, source, reopened>>

\* getEmailForUser
ReadMessage(s) ==
  /\ saver[s].pc = "message"
  /\ IF source THEN saver' = [saver EXCEPT ![s].pc = "replies"] ELSE IdleAgain(s)
  /\ UNCHANGED <<task, answered, source, reopened>>

\* The replies that came after the message; none, when the message is gone meanwhile.
ReadReplies(s) ==
  /\ saver[s].pc = "replies"
  /\ saver' = [saver EXCEPT ![s].pc = "write", ![s].replied = answered /\ source]
  /\ UNCHANGED <<task, answered, source, reopened>>

Outcome(s) == IF saver[s].replied THEN "replied" ELSE IF saver[s].done THEN "done" ELSE "no"

\* mail_tasks_waiting: one open follow-up in a conversation.
Unique(k, completed) == completed = "no" => \A other \in FollowUps \ {k} : ~Waiting(other)

\* The INSERT with its trigger, which looks for replies once more.
CreateTask(s) ==
  LET k == saver[s].task
      found == Outcome(s) = "no" /\ answered
  IN /\ \E due \in BOOLEAN :
          task' = [task EXCEPT ![k] =
            [NoTask EXCEPT !.there = TRUE, !.due = due,
               !.completed = IF found THEN "replied" ELSE Outcome(s),
               !.version = IF found THEN 2 ELSE 1]]
     /\ UNCHANGED reopened

\* The UPDATE; a reminder that is set anew, or a task that is opened or closed, starts afresh.
UpdateTask(s) ==
  LET k == saver[s].task
      open == Outcome(s) = "no"
  IN /\ \E due \in BOOLEAN, same \in BOOLEAN :
          LET kept == same /\ (open <=> task[k].completed = "no") IN
          task' = [task EXCEPT ![k] =
            [task[k] EXCEPT !.completed = Outcome(s), !.version = @ + 1,
                            !.due = IF same THEN @ ELSE due,
                            !.notified = kept /\ @, !.dismissed = kept /\ @]]
     /\ reopened' = IF ~open THEN reopened \ {k}
                    ELSE IF saver[s].overtaken /\ saver[s].closed THEN reopened \cup {k}
                    ELSE reopened

\* Saved, or refused: the task has changed, is there twice, or has lost its message.
WriteTask(s) ==
  LET k == saver[s].task IN
  /\ saver[s].pc = "write"
  /\ IF saver[s].version = 0 /\ ~task[k].there /\ source /\ Unique(k, Outcome(s))
     THEN CreateTask(s)
     ELSE IF /\ saver[s].version > 0 /\ task[k].there
             /\ task[k].version = saver[s].version /\ Unique(k, Outcome(s))
          THEN UpdateTask(s)
          ELSE UNCHANGED <<task, reopened>>
  /\ IdleAgain(s)
  /\ UNCHANGED <<answered, source>>

-----------------------------------------------------------------------------
(* Single statements *)

\* deleteTask
DeleteTask(k) ==
  /\ task[k].there
  /\ task' = [task EXCEPT ![k] = NoTask]
  /\ reopened' = reopened \ {k}
  /\ saver' = [s \in Savers |->
       IF saver[s].pc # "idle" /\ saver[s].task = k THEN [saver[s] EXCEPT !.closed = TRUE] ELSE saver[s]]
  /\ UNCHANGED <<answered, source>>

\* dismissTaskReminder, with the version of the list the user looks at.
DismissTask(k, snooze) ==
  /\ Waiting(k) /\ task[k].version < MaxTaskVersion
  /\ task' = [task EXCEPT ![k] =
       [task[k] EXCEPT !.dismissed = ~snooze, !.due = @ /\ ~snooze,
                       !.notified = @ /\ ~snooze, !.version = @ + 1]]
  /\ UNCHANGED <<answered, source, saver, reopened>>

TaskComesDue(k) ==
  /\ Waiting(k) /\ ~task[k].due
  /\ task' = [task EXCEPT ![k].due = TRUE]
  /\ UNCHANGED <<answered, source, saver, reopened>>

\* sendTaskReminders: its claim asks again all that its list asked.
RemindOfTask(k) ==
  /\ Waiting(k) /\ task[k].due /\ ~task[k].dismissed /\ ~task[k].notified
  /\ task' = [task EXCEPT ![k].notified = TRUE]
  /\ UNCHANGED <<answered, source, saver, reopened>>

Overtake == saver' = [s \in Savers |->
  IF saver[s].pc = "write" THEN [saver[s] EXCEPT !.overtaken = TRUE] ELSE saver[s]]

\* Wrong on purpose: a task that the reply resolves keeps its version.
ResolveQuietly ==
  /\ answered' = TRUE
  /\ task' = [k \in FollowUps |->
       IF Waiting(k) THEN [task[k] EXCEPT !.completed = "replied"] ELSE task[k]]
  /\ Overtake
  /\ UNCHANGED <<source, reopened>>

\* A reply is stored, and its trigger resolves what waits for it.
Reply ==
  /\ answered' = TRUE
  /\ task' = [k \in FollowUps |->
       IF Waiting(k) THEN [task[k] EXCEPT !.completed = "replied", !.version = @ + 1] ELSE task[k]]
  /\ Overtake
  /\ UNCHANGED <<source, reopened>>

\* Messages are destroyed: the replies, or what they reply to.
DestroyReplies ==
  /\ answered /\ answered' = FALSE
  /\ UNCHANGED <<task, source, saver, reopened>>
DestroySource ==
  /\ source /\ source' = FALSE
  /\ UNCHANGED <<task, answered, saver, reopened>>

TaskNext ==
  \/ \E s \in Savers :
       \/ \E k \in FollowUps, done \in BOOLEAN : ReadTask(s, k, done)
       \/ ReadMessage(s) \/ ReadReplies(s) \/ WriteTask(s)
  \/ \E k \in FollowUps :
       \/ DeleteTask(k) \/ TaskComesDue(k) \/ RemindOfTask(k)
       \/ \E snooze \in BOOLEAN : DismissTask(k, snooze)
  \/ Reply \/ DestroyReplies \/ DestroySource

TaskSpec == TaskInit /\ [][TaskNext]_taskVars

-----------------------------------------------------------------------------
(* Properties *)

\* A reply clears the follow-ups of its conversation, also when requests that have looked for
\* replies in vain are still to write: one that waits although a reply is there was closed (or
\* deleted, and made again) and then opened by a request that had looked just before.
WaitingHasNoReply ==
  \A k \in FollowUps : Waiting(k) /\ answered /\ source => k \in reopened

=============================================================================
