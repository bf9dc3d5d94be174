------------------------------ MODULE Calendar ------------------------------
(***************************************************************************)
(* One event with a guest and a reminder (calendar.ts): edits from several *)
(* tabs, the notices they owe to the guest, and the cron that hands the    *)
(* notices to the outbox and announces the reminder.                       *)
(*                                                                         *)
(* An await is a step, a batch is atomic.  mutation_id tells an edit apart *)
(* from every other and here also names its notice and, while the event    *)
(* keeps its time, the reminder row it made.  A lease can run out at any   *)
(* time.  It starts with an event that has been created and announced to   *)
(* its guest, and the event does not end while it is watched.              *)
(***************************************************************************)
EXTENDS Naturals

CONSTANTS
  Editors,      \* requests that edit the event or act on its reminder
  Crons,        \* invocations of the scheduled worker and of waitUntil
  MaxEdits,     \* bound: edits begun, the creation included
  MaxArms,      \* bound: times a reminder is set, anew or by a snooze
  MaxAttempts   \* attempts at a handoff before a notice fails: 8

ASSUME CalendarAssumption == {MaxEdits, MaxArms, MaxAttempts} \subseteq Nat \ {0}

VARIABLES
  event,      \* version, mutation_id and cancelled
  reminder,   \* the calendar_reminders row
  notice,     \* calendar_notices, one to an edit
  jobs,       \* outbox jobs by the notice their key names
  editor,     \* an edit with the version it has read
  cron,       \* an invocation and the row it has read
  edits,      \* edits begun
  saved,      \* history: edits that became a version
  arms,       \* history: times the reminder was set
  told,       \* history: announcements of each time it was set
  crossed     \* history: crons that had the reminder in hand when the user acted on it

calendarVars == <<event, reminder, notice, jobs, editor, cron, edits, saved, arms, told, crossed>>

Edits == 1..MaxEdits
NoReminder == [row |-> 0, arm |-> 0, due |-> FALSE, notified |-> FALSE, dismissed |-> FALSE]
NoNotice == [state |-> "none", leased |-> FALSE, attempts |-> 0]
Resting == [pc |-> "idle", item |-> 0]

CalendarTypeOK ==
  /\ event \in [version : 0..MaxEdits, by : 0..MaxEdits, cancelled : BOOLEAN]
  /\ reminder \in [row : 0..MaxEdits, arm : 0..MaxArms, due : BOOLEAN, notified : BOOLEAN,
                   dismissed : BOOLEAN]
  /\ notice \in [Edits -> [state : {"none", "pending", "queued", "failed"}, leased : BOOLEAN,
                           attempts : 0..MaxAttempts]]
  /\ jobs \subseteq Edits
  /\ editor \in [Editors -> [pc : {"idle", "edit", "move", "cancel"}, version : 0..MaxEdits,
                             by : 0..MaxEdits]]
  /\ cron \in [Crons -> [pc : {"idle", "claim", "enqueue", "queued", "failed", "remind"},
                      item : 0..MaxEdits]]
  /\ edits \in 0..MaxEdits /\ saved \subseteq Edits
  /\ arms \in 0..MaxArms /\ told \in [1..MaxArms -> 0..2] /\ crossed \subseteq Crons

NoEdit == [pc |-> "idle", version |-> 0, by |-> 0]

CalendarInit ==
  /\ event = [version |-> 1, by |-> 1, cancelled |-> FALSE]
  /\ reminder = [NoReminder EXCEPT !.row = 1, !.arm = 1]
  /\ notice = [e \in Edits |-> IF e = 1 THEN [NoNotice EXCEPT !.state = "queued"] ELSE NoNotice]
  /\ jobs = {1}
  /\ editor = [e \in Editors |-> NoEdit] /\ cron = [c \in Crons |-> Resting]
  /\ edits = 1 /\ saved = {1} /\ arms = 1
  /\ told = [a \in 1..MaxArms |-> 0] /\ crossed = {}

-----------------------------------------------------------------------------
(* Edits *)

\* An edit reads the event; "edit" keeps the time, "move" changes it.
BeginEdit(e, kind) ==
  /\ editor[e].pc = "idle" /\ edits < MaxEdits
  /\ ~event.cancelled
  /\ edits' = edits + 1
  /\ editor' = [editor EXCEPT ![e] = [pc |-> kind, version |-> event.version, by |-> edits']]
  /\ UNCHANGED <<event, reminder, notice, jobs, cron, saved, arms, told, crossed>>

\* Who wins is the version: a losing UPDATE changes nothing and the batch goes on.
Wins(e) == editor[e].version = event.version

\* Reminders after an edit: gone, as they were, or made anew; a new one may be due at once.
Rearm(e) ==
  CASE editor[e].pc = "cancel" -> reminder' = NoReminder /\ UNCHANGED arms
    [] editor[e].pc = "edit" -> UNCHANGED <<reminder, arms>>
    [] OTHER -> /\ arms < MaxArms /\ arms' = arms + 1
                /\ \E due \in BOOLEAN :
                     reminder' = [NoReminder EXCEPT !.row = editor[e].by, !.arm = arms', !.due = due]

\* Wrong on purpose: notices are inserted for the event, whichever edit it holds.
PersistAnyway(e) ==
  /\ editor[e].pc # "idle"
  /\ notice' = [notice EXCEPT ![editor[e].by].state = "pending"]
  /\ IF Wins(e)
     THEN /\ event' = [version |-> event.version + 1, by |-> editor[e].by,
                       cancelled |-> editor[e].pc = "cancel"]
          /\ saved' = saved \cup {editor[e].by}
          /\ Rearm(e)
     ELSE UNCHANGED <<event, saved, reminder, arms>>
  /\ editor' = [editor EXCEPT ![e] = NoEdit]
  /\ UNCHANGED <<jobs, cron, edits, told, crossed>>

\* persistCalendarEvent: every other statement asks for the mutation_id of this edit.
Persist(e) ==
  /\ editor[e].pc # "idle"
  /\ IF Wins(e)
     THEN /\ event' = [version |-> event.version + 1, by |-> editor[e].by,
                       cancelled |-> editor[e].pc = "cancel"]
          /\ notice' = [notice EXCEPT ![editor[e].by].state = "pending"]
          /\ saved' = saved \cup {editor[e].by}
          /\ Rearm(e)
     ELSE UNCHANGED <<event, notice, saved, reminder, arms>>
  /\ editor' = [editor EXCEPT ![e] = NoEdit]
  /\ UNCHANGED <<jobs, cron, edits, told, crossed>>

\* retryNotices
RetryNotices ==
  /\ \E n \in Edits : notice[n].state = "failed"
  /\ notice' = [n \in Edits |-> IF notice[n].state # "failed" THEN notice[n]
                                ELSE [notice[n] EXCEPT !.state = "pending", !.attempts = 0]]
  /\ UNCHANGED <<event, reminder, jobs, editor, cron, edits, saved, arms, told, crossed>>

-----------------------------------------------------------------------------
(* flushCalendarNotices *)

\* A notice that is due and not leased, from the list.
ReadNotice(c, n) ==
  /\ cron[c].pc = "idle" /\ notice[n].state = "pending" /\ ~notice[n].leased
  /\ cron' = [cron EXCEPT ![c] = [pc |-> "claim", item |-> n]]
  /\ UNCHANGED <<event, reminder, notice, jobs, editor, edits, saved, arms, told, crossed>>

\* attempts counts on past the limit if a retry comes in between; here it stays at it.
ClaimNotice(c) ==
  /\ cron[c].pc = "claim"
  /\ LET n == cron[c].item
         free == notice[n].state = "pending" /\ ~notice[n].leased
         more == IF notice[n].attempts < MaxAttempts THEN notice[n].attempts + 1 ELSE MaxAttempts
     IN IF free
        THEN /\ notice' = [notice EXCEPT ![n].leased = TRUE, ![n].attempts = more]
             /\ cron' = [cron EXCEPT ![c].pc = "enqueue"]
        ELSE cron' = [cron EXCEPT ![c] = Resting] /\ UNCHANGED notice
  /\ UNCHANGED <<event, reminder, jobs, editor, edits, saved, arms, told, crossed>>

\* enqueueOutbound under the key of the notice: a job, old or new, or an error.
Enqueue(c) ==
  /\ cron[c].pc = "enqueue"
  /\ \/ jobs' = jobs \cup {cron[c].item} /\ cron' = [cron EXCEPT ![c].pc = "queued"]
     \/ UNCHANGED jobs /\ cron' = [cron EXCEPT ![c].pc = "failed"]
  /\ UNCHANGED <<event, reminder, notice, editor, edits, saved, arms, told, crossed>>

\* What came of it, by id alone.
Report(c) ==
  /\ cron[c].pc \in {"queued", "failed"}
  /\ LET n == cron[c].item
         state == IF cron[c].pc = "queued" THEN "queued"
                  ELSE IF notice[n].attempts >= MaxAttempts THEN "failed" ELSE "pending"
     IN notice' = [notice EXCEPT ![n].leased = FALSE, ![n].state = state]
  /\ cron' = [cron EXCEPT ![c] = Resting]
  /\ UNCHANGED <<event, reminder, jobs, editor, edits, saved, arms, told, crossed>>

LeaseEnds(n) ==
  /\ notice[n].leased
  /\ notice' = [notice EXCEPT ![n].leased = FALSE]
  /\ UNCHANGED <<event, reminder, jobs, editor, cron, edits, saved, arms, told, crossed>>

\* The invocation ends where it is.
CronDies(c) ==
  /\ cron[c].pc # "idle"
  /\ cron' = [cron EXCEPT ![c] = Resting]
  /\ crossed' = crossed \ {c}
  /\ UNCHANGED <<event, reminder, notice, jobs, editor, edits, saved, arms, told>>

-----------------------------------------------------------------------------
(* Reminders *)

ReminderComes ==
  /\ reminder.row # 0 /\ ~reminder.due
  /\ reminder' = [reminder EXCEPT !.due = TRUE]
  /\ UNCHANGED <<event, notice, jobs, editor, cron, edits, saved, arms, told, crossed>>

\* Wrong on purpose: what the user has dismissed is still on the list.
ReadEveryReminder(c) ==
  /\ cron[c].pc = "idle"
  /\ reminder.row # 0 /\ reminder.due /\ ~reminder.notified
  /\ cron' = [cron EXCEPT ![c] = [pc |-> "remind", item |-> reminder.row]]
  /\ UNCHANGED <<event, reminder, notice, jobs, editor, edits, saved, arms, told, crossed>>

\* sendCalendarReminders: the list.
ReadReminder(c) ==
  /\ cron[c].pc = "idle"
  /\ reminder.row # 0 /\ reminder.due /\ ~reminder.notified /\ ~reminder.dismissed
  /\ cron' = [cron EXCEPT ![c] = [pc |-> "remind", item |-> reminder.row]]
  /\ UNCHANGED <<event, reminder, notice, jobs, editor, edits, saved, arms, told, crossed>>

\* Wrong on purpose: the claim does not ask who was first.
ClaimReminderAgain(c) ==
  /\ cron[c].pc = "remind"
  /\ LET mine == reminder.row = cron[c].item /\ ~event.cancelled IN
       /\ reminder' = IF mine THEN [reminder EXCEPT !.notified = TRUE] ELSE reminder
       /\ told' = IF mine THEN [told EXCEPT ![reminder.arm] = @ + 1] ELSE told
  /\ cron' = [cron EXCEPT ![c] = Resting]
  /\ crossed' = crossed \ {c}
  /\ UNCHANGED <<event, notice, jobs, editor, edits, saved, arms>>

\* The row read is the row claimed, if nobody has claimed it; notifyUser follows, or the
\* invocation ends first and this time is never announced.
ClaimReminder(c) ==
  /\ cron[c].pc = "remind"
  /\ LET mine == reminder.row = cron[c].item /\ ~reminder.notified /\ ~event.cancelled IN
       /\ reminder' = IF mine THEN [reminder EXCEPT !.notified = TRUE] ELSE reminder
       /\ told' = IF mine THEN [told EXCEPT ![reminder.arm] = @ + 1] ELSE told
  /\ cron' = [cron EXCEPT ![c] = Resting]
  /\ crossed' = crossed \ {c}
  /\ UNCHANGED <<event, notice, jobs, editor, edits, saved, arms>>

\* actOnReminder: a reminder that is due and not dismissed is dismissed or snoozed.
Actionable == reminder.row # 0 /\ reminder.due /\ ~reminder.dismissed /\ ~event.cancelled
Held == {c \in Crons : cron[c].pc = "remind" /\ cron[c].item = reminder.row}
Dismiss ==
  /\ Actionable
  /\ reminder' = [reminder EXCEPT !.dismissed = TRUE]
  /\ crossed' = crossed \cup Held
  /\ UNCHANGED <<event, notice, jobs, editor, cron, edits, saved, arms, told>>
Snooze ==
  /\ Actionable /\ arms < MaxArms
  /\ arms' = arms + 1
  /\ reminder' = [reminder EXCEPT !.due = FALSE, !.notified = FALSE, !.arm = arms']
  /\ crossed' = crossed \cup Held
  /\ UNCHANGED <<event, notice, jobs, editor, cron, edits, saved, told>>

CalendarNext ==
  \/ \E e \in Editors : Persist(e) \/ \E kind \in {"edit", "move", "cancel"} : BeginEdit(e, kind)
  \/ RetryNotices \/ ReminderComes \/ Dismiss \/ Snooze
  \/ \E n \in Edits : LeaseEnds(n) \/ \E c \in Crons : ReadNotice(c, n)
  \/ \E c \in Crons :
       \/ ClaimNotice(c) \/ Enqueue(c) \/ Report(c) \/ CronDies(c)
       \/ ReadReminder(c) \/ ClaimReminder(c)

CalendarSpec == CalendarInit /\ [][CalendarNext]_calendarVars

-----------------------------------------------------------------------------
(* Properties *)

\* Guests hear only of what was saved, and of all of it: an edit that lost against another tab
\* owes nobody a notice, every edit that won owes one, and what counts as handed over has a job.
NoticesMatchEdits ==
  \A n \in Edits : /\ notice[n].state # "none" <=> n \in saved
                   /\ notice[n].state = "queued" => n \in jobs

\* However many crons overlap, each time a reminder is set it is announced once at most.
ReminderOnce == \A a \in 1..MaxArms : told[a] <= 1

\* A reminder that the user has dismissed or put off is announced only by a cron that had it in
\* hand at that moment.
DismissedStaysQuiet ==
  [][reminder'.notified /\ ~reminder.notified /\ (reminder.dismissed \/ ~reminder.due)
       => \E c \in crossed : cron[c].pc = "remind" /\ cron'[c].pc = "idle"]_calendarVars

=============================================================================
