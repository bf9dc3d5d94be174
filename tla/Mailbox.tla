------------------------------ MODULE Mailbox ------------------------------
(***************************************************************************)
(* One user's mailbox: messages of a conversation arrive, are judged and   *)
(* filed, and are moved by list actions that can be repeated and undone    *)
(* (mail-store.ts, mail-cleanup.ts, classify.ts, threads.ts).              *)
(*                                                                         *)
(* An await is a step; a statement or a batch is atomic.  Times are kept   *)
(* as far as a query compares them: a timestamp is set or not, and any     *)
(* snooze may be due.  Retries come within the day that                    *)
(* mail_action_history keeps a row after it expired.                       *)
(***************************************************************************)
EXTENDS Naturals, FiniteSets

CONSTANTS
  Mails,        \* incoming messages of one conversation: same subject, same sender
  Actions,      \* request ids of list actions
  Hands,        \* the user's requests served at the same time
  MaxRequests   \* bound: requests the user makes

ASSUME MailboxAssumption == Mails # {} /\ MaxRequests \in Nat

VARIABLES
  mail,      \* emails
  action,    \* mail_action_history with its mail_action_items
  job,       \* the invocation that receives a message, and what it has read
  hand,      \* the user's requests, and what they have read
  rule,      \* an enabled sender rule archives what this sender sends
  pref,      \* sender preference
  asked,     \* requests made
  moved,     \* history: the action that moved a message last, if one did, and from where
  applied,   \* history: how often an action was carried out
  during,    \* history: judgements under way when the user chose a category
  overlap    \* history: two arrivals looked for their conversation side by side

mailHistory == <<moved, applied, during, overlap>>
mailVars == <<mail, action, job, hand, rule, pref, asked, mailHistory>>

Other == "other"
ASSUME OtherAssumption == Other \notin Actions

Sources == {"no", "auto", "user"}
Row == [there : BOOLEAN, thread : Mails \cup {Other}, archived : BOOLEAN, trashed : BOOLEAN,
        snoozed : BOOLEAN, spam : BOOLEAN, category : Sources, rev : Nat]
Cleanups == {"archive", "trash", "snooze", "unsnooze"}
Flags == {"unarchive", "restore", "spam", "unspam", "categorize"}
Kinds == Cleanups \cup Flags \cup {"empty", "undo"}
\* previous_value and previous_archived, as the row's place, and revision of mail_action_items.
Item == [mail : Mails, was : [archived : BOOLEAN, trashed : BOOLEAN, snoozed : BOOLEAN], rev : Nat]

MailTypeOK ==
  /\ mail \in [Mails -> Row]
  /\ action \in [Actions -> [kind : Cleanups \cup {"none"}, items : SUBSET Item,
                             undone : BOOLEAN]]
  /\ job \in [Mails -> [pc : {"out", "insert", "unarchive", "read", "context", "judge",
                              "write", "done"},
                        thread : Mails \cup {Other}, lock : BOOLEAN, sender : {"none", "spam", "safe"},
                        verdict : Sources \cup {"spam"}, ids : SUBSET Mails]]
  /\ hand \in [Hands -> [pc : {"idle", "lookup", "apply", "flags", "remember", "undo", "destroy"},
                         kind : Kinds \cup {"none"}, ids : SUBSET Mails,
                         act : Actions \cup {Other}]]
  /\ rule \in BOOLEAN /\ pref \in {"none", "spam", "safe"}
  /\ asked \in 0..MaxRequests

NoMail == [there |-> FALSE, thread |-> Other, archived |-> FALSE,
           trashed |-> FALSE, snoozed |-> FALSE, spam |-> FALSE, category |-> "no", rev |-> 0]
NoJob == [pc |-> "out", thread |-> Other, lock |-> FALSE,
          sender |-> "none", verdict |-> "no", ids |-> {}]
Free == [pc |-> "idle", kind |-> "none", ids |-> {}, act |-> Other]

Unmoved == [by |-> Other]
Place(m) == [archived |-> mail[m].archived, trashed |-> mail[m].trashed,
             snoozed |-> mail[m].snoozed]

MailInit ==
  /\ mail = [m \in Mails |-> NoMail]
  /\ action = [a \in Actions |-> [kind |-> "none", items |-> {}, undone |-> FALSE]]
  /\ job = [m \in Mails |-> NoJob]
  /\ hand = [h \in Hands |-> Free]
  /\ rule \in BOOLEAN /\ pref = "none" /\ asked = 0
  /\ moved = [m \in Mails |-> Unmoved]
  /\ applied = [a \in Actions |-> 0]
  /\ during = {}
  /\ overlap = FALSE

There == {m \in Mails : mail[m].there}

\* expandToThreads
Thread(t) == {m \in There : mail[m].thread = t}
Expanded(m) == Thread(mail[m].thread)

\* The rows of ids become those of to: every such UPDATE counts cleanup_revision up.
Move(ids, by, to) ==
  /\ mail' = [m \in Mails |-> IF m \in ids THEN [to[m] EXCEPT !.rev = @ + 1] ELSE mail[m]]
  /\ moved' = [m \in Mails |-> IF m \notin ids THEN moved[m]
                              ELSE IF by = Other THEN Unmoved ELSE [by |-> by, from |-> Place(m)]]

-----------------------------------------------------------------------------
(* insertEmail *)

\* Wrong on purpose: an archived conversation is not found again.
ResolveInInbox(m) ==
  /\ job[m].pc = "out"
  /\ LET seen == {n \in There : ~mail[n].archived} IN
       \E t \in IF seen = {} THEN {m} ELSE {mail[n].thread : n \in seen} :
         job' = [job EXCEPT ![m].pc = "insert", ![m].thread = t]
  /\ overlap' = (overlap \/ \E n \in Mails : job[n].pc = "insert")
  /\ UNCHANGED <<mail, action, hand, rule, pref, asked, moved, applied, during>>

\* resolveThreadId: the conversation of a message that matches, or one of its own.
Resolve(m) ==
  /\ job[m].pc = "out"
  /\ \E t \in IF There = {} THEN {m} ELSE {mail[n].thread : n \in There} :
       job' = [job EXCEPT ![m].pc = "insert", ![m].thread = t]
  /\ overlap' = (overlap \/ \E n \in Mails : job[n].pc = "insert")
  /\ UNCHANGED <<mail, action, hand, rule, pref, asked, moved, applied, during>>

\* The INSERT, and its trigger, which archives the conversation if a rule says so.
Insert(m) ==
  /\ job[m].pc = "insert"
  /\ LET new == [NoMail EXCEPT !.there = TRUE, !.thread = job[m].thread]
         ids == {m} \cup Thread(job[m].thread)
     IN IF rule
        THEN /\ mail' = [n \in Mails |->
                  IF n \in ids
                  THEN [(IF n = m THEN new ELSE mail[n]) EXCEPT
                          !.archived = TRUE, !.snoozed = FALSE, !.rev = @ + 1]
                  ELSE mail[n]]
             /\ moved' = [n \in Mails |-> IF n \in ids THEN Unmoved ELSE moved[n]]
        ELSE mail' = [mail EXCEPT ![m] = new] /\ UNCHANGED moved
  /\ job' = [job EXCEPT ![m].pc = "unarchive"]
  /\ UNCHANGED <<action, hand, rule, pref, asked, applied, during, overlap>>

\* Wrong on purpose: bringing the conversation back does not count the revision up.
UnarchiveQuietly(m) ==
  /\ job[m].pc = "unarchive"
  /\ LET ids == IF rule THEN {} ELSE Thread(job[m].thread) IN
       /\ mail' = [n \in Mails |-> IF n \in ids
                     THEN [mail[n] EXCEPT !.archived = FALSE, !.snoozed = FALSE] ELSE mail[n]]
       /\ moved' = [n \in Mails |-> IF n \in ids THEN Unmoved ELSE moved[n]]
  /\ job' = [job EXCEPT ![m].pc = "read"]
  /\ UNCHANGED <<action, hand, rule, pref, asked, applied, during, overlap>>

\* The UPDATE that brings the conversation back, or the invocation ends before it.
Unarchive(m) ==
  /\ job[m].pc = "unarchive"
  /\ \/ /\ Move(IF rule THEN {} ELSE Thread(job[m].thread), Other,
                [n \in Mails |-> [mail[n] EXCEPT !.archived = FALSE, !.snoozed = FALSE]])
        /\ job' = [job EXCEPT ![m].pc = "read"]
     \/ job' = [job EXCEPT ![m] = [NoJob EXCEPT !.pc = "done"]] /\ UNCHANGED <<mail, moved>>
  /\ UNCHANGED <<action, hand, rule, pref, asked, applied, during, overlap>>

-----------------------------------------------------------------------------
(* classifyStoredEmail *)

\* The row: a message that is gone or already filed is left alone.
ReadRow(m) ==
  /\ job[m].pc = "read"
  /\ LET filed == mail[m].category # "no" \/ mail[m].spam IN
       job' = [job EXCEPT ![m].pc = IF ~mail[m].there \/ filed THEN "done" ELSE "context"]
  /\ UNCHANGED <<mail, action, hand, rule, pref, asked, mailHistory>>

\* Wrong on purpose: the conversation's own choice is not read.
ReadPrefOnly(m) ==
  /\ job[m].pc = "context"
  /\ job' = [job EXCEPT ![m].pc = "judge", ![m].sender = pref]
  /\ UNCHANGED <<mail, action, hand, rule, pref, asked, mailHistory>>

\* The sender's preference and the conversation's category, before the judge is asked.
ReadContext(m) ==
  /\ job[m].pc = "context"
  /\ job' = [job EXCEPT ![m].pc = "judge", ![m].sender = pref,
       ![m].lock = \E n \in Thread(job[m].thread) : mail[n].category = "user"]
  /\ UNCHANGED <<mail, action, hand, rule, pref, asked, mailHistory>>

\* decideClassification and persistClassification; "no" is an answer that failed.
Verdicts(m) ==
  IF job[m].sender = "spam" THEN {"spam"}
  ELSE {IF job[m].lock THEN "user" ELSE "auto", IF job[m].lock THEN "user" ELSE "no"}
         \cup IF job[m].sender = "safe" THEN {} ELSE {"spam"}

\* The judge's answer, and the messages it will be written to.
Judge(m) ==
  /\ job[m].pc = "judge"
  /\ \E v \in Verdicts(m) :
       job' = [job EXCEPT ![m].pc = IF v = "no" THEN "done" ELSE "write",
                          ![m].lock = FALSE, ![m].sender = "none", ![m].verdict = v,
                          ![m].ids = IF v = "user" THEN {m} ELSE Thread(job[m].thread)]
  /\ UNCHANGED <<mail, action, hand, rule, pref, asked, mailHistory>>

UnderWay == {j \in Mails : job[j].pc \in {"judge", "write"}}

\* persistMailDecision; a choice for the conversation is taken over as the user's own.
Persist(m) ==
  /\ job[m].pc = "write"
  /\ LET ids == job[m].ids \cap There IN
       IF job[m].verdict = "spam"
       THEN Move(ids, Other, [n \in Mails |-> [mail[n] EXCEPT !.spam = TRUE, !.archived = FALSE]])
       ELSE /\ mail' = [n \in Mails |->
                 IF n \in ids THEN [mail[n] EXCEPT !.category = job[m].verdict] ELSE mail[n]]
            /\ UNCHANGED moved
  /\ during' = IF job[m].verdict = "user" THEN during \cup UnderWay ELSE during
  /\ job' = [job EXCEPT ![m] = [NoJob EXCEPT !.pc = "done"]]
  /\ UNCHANGED <<action, hand, rule, pref, asked, applied, overlap>>

-----------------------------------------------------------------------------
(* The user's requests *)

Ask(h, pc, kind, ids, a) ==
  /\ hand[h].pc = "idle"
  /\ asked < MaxRequests /\ asked' = asked + 1
  /\ hand' = [hand EXCEPT ![h] = [pc |-> pc, kind |-> kind, ids |-> ids, act |-> a]]
  /\ UNCHANGED <<mail, action, job, rule, pref, mailHistory>>
Rest(h) == hand' = [hand EXCEPT ![h] = Free]

\* POST /api/mail/actions up to cleanupMail; a retry repeats kind and request id.
AskCleanup(h, kind, m, a) ==
  /\ m \in There
  /\ action[a].kind \in {"none", kind}
  /\ Ask(h, "lookup", kind, Expanded(m), a)

\* The request id has been used, or the batch is prepared.
Lookup(h) ==
  /\ hand[h].pc = "lookup"
  /\ IF action[hand[h].act].kind # "none" THEN Rest(h) ELSE hand' = [hand EXCEPT ![h].pc = "apply"]
  /\ UNCHANGED <<mail, action, job, rule, pref, asked, mailHistory>>

\* What an action writes, and what its undo puts back.
After(kind, row) ==
  CASE kind = "archive" -> [row EXCEPT !.archived = TRUE]
    [] kind = "trash" -> [row EXCEPT !.trashed = TRUE]
    [] kind = "snooze" -> [row EXCEPT !.snoozed = TRUE, !.archived = FALSE]
    [] OTHER -> [row EXCEPT !.snoozed = FALSE]
Restored(kind, row, was) ==
  CASE kind = "archive" -> [row EXCEPT !.archived = was.archived]
    [] kind = "trash" -> [row EXCEPT !.trashed = was.trashed]
    [] kind = "snooze" -> [row EXCEPT !.snoozed = was.snoozed, !.archived = was.archived]
    [] OTHER -> [row EXCEPT !.snoozed = was.snoozed]
Items(ids) ==
  {[mail |-> m, rev |-> mail[m].rev + 1,
    was |-> Place(m)] : m \in ids}

\* cleanupMail's batch; the primary key of mail_action_history aborts a second one.
Apply(h) ==
  /\ hand[h].pc = "apply"
  /\ LET a == hand[h].act
         kind == hand[h].kind
         ids == hand[h].ids \cap There
     IN IF action[a].kind = "none"
        THEN /\ action' = [action EXCEPT ![a] = [kind |-> kind, items |-> Items(ids), undone |-> FALSE]]
             /\ Move(ids, a, [n \in Mails |-> After(kind, mail[n])])
             /\ applied' = [applied EXCEPT ![a] = @ + 1]
        ELSE UNCHANGED <<mail, moved, action, applied>>
  /\ Rest(h)
  /\ UNCHANGED <<job, rule, pref, asked, during, overlap>>

\* undoCleanup reads the action.
AskUndo(h, a) ==
  /\ action[a].kind # "none" /\ ~action[a].undone
  /\ Ask(h, "undo", "undo", {}, a)

ItemOf(a, m) == CHOOSE i \in action[a].items : i.mail = m

\* undoCleanup's batch: rows that nobody moved since.
Undo(h) ==
  /\ hand[h].pc = "undo"
  /\ LET a == hand[h].act
         ids == IF action[a].undone THEN {}
                ELSE {i.mail : i \in {i \in action[a].items : mail[i.mail].rev = i.rev}} \cap There
     IN /\ mail' = [m \in Mails |->
             IF m \in ids
             THEN [Restored(action[a].kind, mail[m], ItemOf(a, m).was) EXCEPT !.rev = @ + 1]
             ELSE mail[m]]
        /\ moved' = [m \in Mails |-> IF m \in ids THEN Unmoved ELSE moved[m]]
        /\ action' = [action EXCEPT ![a].undone = TRUE]
  /\ Rest(h)
  /\ UNCHANGED <<job, rule, pref, asked, applied, during, overlap>>

\* The actions that setEmailFlags serves.
AskFlags(h, kind, m) ==
  /\ m \in There
  /\ Ask(h, "flags", kind, Expanded(m), Other)

Flagged(kind, row) ==
  CASE kind = "unarchive" -> [row EXCEPT !.archived = FALSE]
    [] kind = "restore" -> [row EXCEPT !.trashed = FALSE]
    [] kind = "spam" -> [row EXCEPT !.spam = TRUE, !.archived = FALSE]
    [] OTHER -> [row EXCEPT !.spam = FALSE]

\* setEmailFlags; filing a message moves nothing.
SetFlags(h) ==
  /\ hand[h].pc = "flags"
  /\ LET kind == hand[h].kind
         ids == hand[h].ids \cap There
     IN IF kind = "categorize"
        THEN /\ mail' = [m \in Mails |->
                  IF m \in ids THEN [mail[m] EXCEPT !.category = "user"] ELSE mail[m]]
             /\ during' = during \cup UnderWay
             /\ Rest(h)
             /\ UNCHANGED moved
        ELSE /\ Move(ids, Other, [n \in Mails |-> Flagged(kind, mail[n])])
             /\ hand' = [hand EXCEPT ![h] = IF kind \in {"spam", "unspam"}
                                            THEN [@ EXCEPT !.pc = "remember"] ELSE Free]
             /\ UNCHANGED during
  /\ UNCHANGED <<action, job, rule, pref, asked, applied, overlap>>

\* Wrong on purpose: the action's own name is kept for the sender.
RememberKind(h) ==
  /\ hand[h].pc = "remember"
  /\ pref' = hand[h].kind
  /\ Rest(h)
  /\ UNCHANGED <<mail, action, job, rule, asked, mailHistory>>

\* rememberSenders
Remember(h) ==
  /\ hand[h].pc = "remember"
  /\ pref' = IF hand[h].kind = "spam" THEN "spam" ELSE "safe"
  /\ Rest(h)
  /\ UNCHANGED <<mail, action, job, rule, asked, mailHistory>>

\* emptyTrash lists the trash and then destroys what it listed.
AskEmpty(h) ==
  /\ \E m \in There : mail[m].trashed
  /\ Ask(h, "destroy", "empty", {m \in There : mail[m].trashed}, Other)
Destroy(h) ==
  /\ hand[h].pc = "destroy"
  /\ mail' = [m \in Mails |-> IF m \in hand[h].ids THEN NoMail ELSE mail[m]]
  /\ moved' = [m \in Mails |-> IF m \in hand[h].ids THEN Unmoved ELSE moved[m]]
  /\ Rest(h)
  /\ UNCHANGED <<action, job, rule, pref, asked, applied, during, overlap>>

-----------------------------------------------------------------------------
(* The cron *)

\* wakeSnoozedMail: whatever is due by now.
Wake ==
  /\ \E due \in (SUBSET {m \in There : mail[m].snoozed}) \ {{}} :
       Move(due, Other, [n \in Mails |-> [mail[n] EXCEPT !.snoozed = FALSE]])
  /\ UNCHANGED <<action, job, hand, rule, pref, asked, applied, during, overlap>>

Receive(m) ==
  \/ Resolve(m) \/ Insert(m) \/ Unarchive(m)
  \/ ReadRow(m) \/ ReadContext(m) \/ Judge(m) \/ Persist(m)
Serve(h) ==
  \/ \E kind \in Cleanups, m \in Mails, a \in Actions : AskCleanup(h, kind, m, a)
  \/ \E kind \in Flags, m \in Mails : AskFlags(h, kind, m)
  \/ \E a \in Actions : AskUndo(h, a)
  \/ AskEmpty(h)
  \/ Lookup(h) \/ Apply(h) \/ Undo(h) \/ SetFlags(h) \/ Remember(h) \/ Destroy(h)

MailNext ==
  \/ \E m \in Mails : Receive(m)
  \/ \E h \in Hands : Serve(h)
  \/ Wake

MailSpec == MailInit /\ [][MailNext]_mailVars

-----------------------------------------------------------------------------
(* Properties *)

\* Undo takes back the action it names and nothing else: it touches only messages that this
\* action was the last to move, and puts them back where the action found them.
UndoTakesBackOnlyItsOwn ==
  [][\A a \in Actions : action'[a].undone /\ ~action[a].undone =>
       \A m \in Mails : mail'[m].rev # mail[m].rev => moved[m] = [by |-> a, from |-> Place(m)']]_mailVars

\* However often an action is retried, before or after it was undone, it is carried out once.
AppliedOnce == \A a \in Actions : applied[a] <= 1

\* The judge replaces a category that the user chose only if the judgement was already under
\* way when the user chose, or when a new message of the conversation took the choice over.
ChoiceLostOnlyInFlight ==
  [][\A m \in Mails : mail[m].category = "user" /\ mail'[m].category = "auto" =>
       \E j \in during : job[j].pc = "write" /\ job'[j].pc = "done"]_mailVars

\* One conversation falls apart only if two of its messages arrived side by side.
SplitNeedsOverlap ==
  \A m, n \in There : mail[m].thread # mail[n].thread => overlap

=============================================================================
