---------------------------- MODULE MailboxProofs ----------------------------
(***************************************************************************)
(* Theorems about a mailbox, for any number of messages, actions, requests *)
(* at the same time and requests made.                                     *)
(*                                                                         *)
(* An item of an action that is not undone still describes its row if the  *)
(* revision is the item's; a judgement that is not marked as overtaken was *)
(* made for messages nobody had filed; and without two arrivals side by    *)
(* side there is one conversation, which the next arrival joins.           *)
(***************************************************************************)
EXTENDS Mailbox, TLAPS

Places == [archived : BOOLEAN, trashed : BOOLEAN, snoozed : BOOLEAN]
Entry == [kind : Cleanups \cup {"none"}, items : SUBSET Item, undone : BOOLEAN]
Job == [pc : {"out", "insert", "unarchive", "read", "context", "judge", "write", "done"},
        thread : Mails \cup {Other}, lock : BOOLEAN, sender : {"none", "spam", "safe"},
        verdict : Sources \cup {"spam"}, ids : SUBSET Mails]
Hand == [pc : {"idle", "lookup", "apply", "flags", "remember", "undo", "destroy"},
         kind : Kinds \cup {"none"}, ids : SUBSET Mails, act : Actions \cup {Other}]
Moves == {Unmoved} \cup [by : Actions, from : Places]

Typed ==
  /\ mail \in [Mails -> Row] /\ action \in [Actions -> Entry]
  /\ job \in [Mails -> Job] /\ hand \in [Hands -> Hand]
  /\ rule \in BOOLEAN /\ pref \in {"none", "spam", "safe"} /\ asked \in 0..MaxRequests
  /\ moved \in [Mails -> Moves] /\ applied \in [Actions -> Nat]
  /\ during \subseteq Mails /\ overlap \in BOOLEAN

\* What a request in the middle of its work is about.
HandsKnow ==
  \A h \in Hands :
    /\ hand[h].pc \in {"lookup", "apply"} => hand[h].kind \in Cleanups /\ hand[h].act \in Actions
    /\ hand[h].pc = "undo" => hand[h].act \in Actions /\ action[hand[h].act].kind # "none"
    /\ hand[h].pc = "flags" => hand[h].kind \in Flags

\* An action is carried out when its row is written, and only then.
OnRecord ==
  \A a \in Actions :
    /\ action[a].kind = "none" => applied[a] = 0 /\ action[a].items = {} /\ ~action[a].undone
    /\ applied[a] <= 1

\* A row is as an action left it, but for what the action writes.
Fits(kind, row, was) ==
  /\ kind = "trash" \/ row.trashed = was.trashed
  /\ kind \in {"snooze", "unsnooze"} \/ row.snoozed = was.snoozed
  /\ kind \in {"archive", "snooze"} \/ row.archived = was.archived

\* The message is stored, and its own invocation will not store it again.
Stored(m) == job[m].pc \notin {"out", "insert"}

\* An item whose revision is the row's describes the row.
Describes(a, i) ==
  mail[i.mail].there =>
    /\ i.rev <= mail[i.mail].rev
    /\ i.rev = mail[i.mail].rev /\ ~action[a].undone =>
         moved[i.mail] = [by |-> a, from |-> i.was] /\ Fits(action[a].kind, mail[i.mail], i.was)

ItemsHold ==
  /\ \A m \in Mails : mail[m].there => Stored(m)
  /\ \A a \in Actions : \A i \in action[a].items : Stored(i.mail) /\ Describes(a, i)
  /\ \A a \in Actions : \A i, j \in action[a].items : i.mail = j.mail => i = j

\* Arrivals one after the other join one conversation.
OneThread ==
  ~overlap =>
    /\ \A m, n \in There : mail[m].thread = mail[n].thread
    /\ \A m \in Mails, n \in There : job[m].pc = "insert" => job[m].thread = mail[n].thread
    /\ \A m, n \in Mails : job[m].pc = "insert" /\ job[n].pc = "insert" => m = n

\* A judgement that nobody has overtaken is about messages the user has not filed.
Careful(j) ==
  /\ job[j].pc = "judge" /\ ~job[j].lock /\ j \notin during =>
       \A n \in Thread(job[j].thread) : mail[n].category # "user"
  /\ job[j].pc = "write" /\ job[j].verdict = "auto" /\ j \notin during =>
       \A n \in job[j].ids \cap There : mail[n].category # "user"

MailInv ==
  Typed /\ HandsKnow /\ OnRecord /\ ItemsHold /\ OneThread /\ \A j \in Mails : Careful(j)

-----------------------------------------------------------------------------
(* Rows *)

\* The same place in the conversation, filed alike, at the same revision.
Alike(x, row) ==
  x.there = row.there /\ x.thread = row.thread /\ x.category = row.category /\ x.rev = row.rev

\* What statements write on a row.
LEMMA RowUpdates ==
  ASSUME NEW row \in Row
  PROVE  /\ LET x == [row EXCEPT !.archived = FALSE, !.snoozed = FALSE] IN x \in Row /\ Alike(x, row)
         /\ LET x == [row EXCEPT !.spam = TRUE, !.archived = FALSE] IN x \in Row /\ Alike(x, row)
         /\ LET x == [row EXCEPT !.snoozed = FALSE] IN x \in Row /\ Alike(x, row)
         /\ \A v \in Sources : LET x == [row EXCEPT !.category = v] IN
              /\ x \in Row /\ x.there = row.there /\ x.thread = row.thread /\ x.rev = row.rev
              /\ x.category = v /\ x.archived = row.archived /\ x.trashed = row.trashed
              /\ x.snoozed = row.snoozed
         /\ \A n \in Nat : LET x == [row EXCEPT !.rev = n] IN
              /\ x \in Row /\ x.rev = n
              /\ x.there = row.there /\ x.thread = row.thread /\ x.category = row.category
              /\ x.archived = row.archived /\ x.trashed = row.trashed /\ x.snoozed = row.snoozed
BY DEF Row, Alike

\* What a flag writes leaves the conversation, the filing and the revision alone.
LEMMA FlaggedRow ==
  ASSUME NEW row \in Row, NEW kind
  PROVE  Flagged(kind, row) \in Row /\ Alike(Flagged(kind, row), row)
<1>1. CASE kind = "unarchive"
  BY <1>1 DEF Flagged, Row, Alike
<1>2. CASE kind = "restore"
  BY <1>2 DEF Flagged, Row, Alike
<1>3. CASE kind = "spam"
  BY <1>3 DEF Flagged, Row, Alike
<1>4. CASE kind \notin {"unarchive", "restore", "spam"}
  BY <1>4 DEF Flagged, Row, Alike
<1> QED BY <1>1, <1>2, <1>3, <1>4

\* What an action writes leaves the rest of the place as it was.
LEMMA AfterRow ==
  ASSUME NEW row \in Row, NEW kind \in Cleanups
  PROVE  After(kind, row) \in Row /\ Alike(After(kind, row), row) /\ Fits(kind, After(kind, row), row)
<1>1. CASE kind = "archive"
  BY <1>1 DEF After, Row, Alike, Fits
<1>2. CASE kind = "trash"
  BY <1>2 DEF After, Row, Alike, Fits
<1>3. CASE kind = "snooze"
  BY <1>3 DEF After, Row, Alike, Fits
<1>4. CASE kind = "unsnooze"
  BY <1>4 DEF After, Row, Alike, Fits
<1> QED BY <1>1, <1>2, <1>3, <1>4 DEF Cleanups

\* What an undo writes puts a row back that is as the action left it.
LEMMA RestoredRow ==
  ASSUME NEW row \in Row, NEW kind \in Cleanups, NEW was \in Places
  PROVE  LET x == Restored(kind, row, was) IN
           /\ x \in Row /\ Alike(x, row)
           /\ Fits(kind, row, was) =>
                x.archived = was.archived /\ x.trashed = was.trashed /\ x.snoozed = was.snoozed
<1>1. CASE kind = "archive"
  BY <1>1 DEF Restored, Row, Alike, Fits, Places
<1>2. CASE kind = "trash"
  BY <1>2 DEF Restored, Row, Alike, Fits, Places
<1>3. CASE kind = "snooze"
  BY <1>3 DEF Restored, Row, Alike, Fits, Places
<1>4. CASE kind = "unsnooze"
  BY <1>4 DEF Restored, Row, Alike, Fits, Places
<1> QED BY <1>1, <1>2, <1>3, <1>4 DEF Cleanups

\* A row that somebody moved, for reasons of his own.
Same(n) == mail'[n] = mail[n] /\ moved'[n] = moved[n]
Shifted(n) ==
  /\ mail'[n].there = mail[n].there /\ mail'[n].thread = mail[n].thread
  /\ mail'[n].category = mail[n].category /\ mail'[n].rev = mail[n].rev + 1
Filed(n) ==
  /\ mail'[n].there = mail[n].there /\ mail'[n].thread = mail[n].thread
  /\ mail'[n].rev = mail[n].rev /\ mail'[n].archived = mail[n].archived
  /\ mail'[n].trashed = mail[n].trashed /\ mail'[n].snoozed = mail[n].snoozed
  /\ moved'[n] = moved[n]
Lost(n) == ~mail'[n].there

\* What Move does when it moves for no action; f is what the rows become but for their revisions.
LEMMA MoveAside ==
  ASSUME mail \in [Mails -> Row], moved \in [Mails -> Moves],
         NEW ids, NEW f \in [Mails -> Row], \A m \in Mails : Alike(f[m], mail[m]),
         mail' = [m \in Mails |-> IF m \in ids THEN [f[m] EXCEPT !.rev = @ + 1] ELSE mail[m]],
         moved' = [m \in Mails |-> IF m \notin ids THEN moved[m] ELSE Unmoved]
  PROVE  /\ mail' \in [Mails -> Row] /\ moved' \in [Mails -> Moves]
         /\ \A n \in Mails : n \notin ids => Same(n)
         /\ \A n \in Mails : n \in ids => Shifted(n)
<1>1. ASSUME NEW n \in Mails
      PROVE  LET x == [f[n] EXCEPT !.rev = @ + 1] IN
               /\ x \in Row /\ x.rev = mail[n].rev + 1
               /\ x.there = mail[n].there /\ x.thread = mail[n].thread
               /\ x.category = mail[n].category
  <2>1. f[n] \in Row /\ Alike(f[n], mail[n])
    OBVIOUS
  <2>2. f[n].rev \in Nat /\ f[n].rev + 1 \in Nat
    BY <2>1 DEF Row
  <2> DEFINE x == [f[n] EXCEPT !.rev = f[n].rev + 1]
  <2>3. /\ x \in Row /\ x.rev = f[n].rev + 1
        /\ x.there = f[n].there /\ x.thread = f[n].thread /\ x.category = f[n].category
    BY ZenonT(40), <2>1, <2>2, RowUpdates
  <2>4. [f[n] EXCEPT !.rev = @ + 1] = x
    BY <2>1
  <2> QED BY <2>1, <2>3, <2>4 DEF Alike
<1>2. Unmoved \in Moves
  BY DEF Moves
<1> QED BY <1>1, <1>2 DEF Same, Shifted

-----------------------------------------------------------------------------
(* Steps that write no action *)

\* A request or an arrival goes on; its rows stay, move aside, are filed or are destroyed.
LEMMA KeepStep ==
  ASSUME MailInv, Typed', HandsKnow',
         UNCHANGED <<action, applied, overlap>>,
         \A n \in Mails : Same(n) \/ Shifted(n) \/ Filed(n) \/ Lost(n),
         \A j \in Mails : /\ Stored(j) => Stored(j)'
                          /\ job'[j].pc = "insert" => job'[j] = job[j],
         during \subseteq during',
         \/ \A n \in Mails : mail'[n].there /\ mail'[n].category = "user" => mail[n].category = "user"
         \/ UnderWay \subseteq during',
         \A j \in Mails : \/ job'[j] = job[j]
                          \/ job'[j].pc \notin {"judge", "write"}
                          \/ Careful(j)'
  PROVE  MailInv'
<1>1. OnRecord'
  BY DEF MailInv, OnRecord
<1>2. \A n \in Mails : mail'[n].there => /\ mail[n].there /\ mail'[n].thread = mail[n].thread
                                         /\ mail'[n].rev \in Nat /\ mail[n].rev \in Nat
                                         /\ Same(n) \/ Shifted(n) \/ Filed(n)
  BY DEF Same, Shifted, Filed, Lost, MailInv, Typed, Row
<1>3. ItemsHold'
  <2>1. \A m \in Mails : mail'[m].there => Stored(m)'
    BY <1>2 DEF MailInv, ItemsHold
  <2>2. ASSUME NEW a \in Actions, NEW i \in action[a].items
        PROVE  Stored(i.mail)' /\ Describes(a, i)'
    <3>1. i.mail \in Mails /\ i.rev \in Nat
      BY <2>2 DEF MailInv, Typed, Entry, Item
    <3>2. Stored(i.mail) /\ Describes(a, i)
      BY <2>2 DEF MailInv, ItemsHold
    <3>3. Stored(i.mail)'
      BY <3>1, <3>2
    <3>4. Describes(a, i)'
      <4> SUFFICES ASSUME mail'[i.mail].there PROVE Describes(a, i)'
        BY DEF Describes
      <4>1. CASE Same(i.mail)
        BY <3>1, <3>2, <4>1 DEF Describes, Same, Fits
      <4>2. CASE Filed(i.mail)
        BY <3>1, <3>2, <4>2 DEF Describes, Filed, Fits
      <4>3. CASE Shifted(i.mail)
        BY <1>2, <3>1, <3>2, <4>3 DEF Describes, Shifted
      <4> QED BY <1>2, <3>1, <4>1, <4>2, <4>3
    <3> QED BY <3>3, <3>4
  <2> QED BY <2>1, <2>2 DEF MailInv, ItemsHold
<1>4. OneThread'
  BY <1>2 DEF MailInv, OneThread, There
<1>5. ASSUME NEW j \in Mails PROVE Careful(j)'
  <2>1. CASE job'[j].pc \notin {"judge", "write"}
    BY <2>1 DEF Careful
  <2>2. CASE job'[j] = job[j] /\ job'[j].pc \in {"judge", "write"}
    <3>1. CASE UnderWay \subseteq during'
      BY <2>2, <3>1 DEF UnderWay, Careful
    <3>2. CASE \A n \in Mails : mail'[n].there /\ mail'[n].category = "user" => mail[n].category = "user"
      BY <1>2, <2>2, <3>2 DEF MailInv, Careful, Thread, There
    <3> QED BY <3>1, <3>2
  <2> QED BY <2>1, <2>2
<1> QED BY <1>1, <1>3, <1>4, <1>5 DEF MailInv

\* The types one by one.
LEMMA Columns ==
  ASSUME MailInv
  PROVE  /\ mail \in [Mails -> Row] /\ action \in [Actions -> Entry]
         /\ job \in [Mails -> Job] /\ hand \in [Hands -> Hand]
         /\ moved \in [Mails -> Moves] /\ during \subseteq Mails /\ overlap \in BOOLEAN
         /\ rule \in BOOLEAN /\ pref \in {"none", "spam", "safe"}
BY DEF MailInv, Typed

\* An arrival goes on without a conversation to choose: m's job becomes k.
LEMMA JobStep ==
  ASSUME MailInv, NEW m \in Mails, NEW k \in Job, job' = [job EXCEPT ![m] = k],
         UNCHANGED <<action, hand, rule, pref, asked, applied, overlap>>,
         mail' \in [Mails -> Row], moved' \in [Mails -> Moves], during' \subseteq Mails,
         \A n \in Mails : Same(n) \/ Shifted(n) \/ Filed(n),
         k.pc \notin {"out", "insert"},
         during \subseteq during',
         \/ \A n \in Mails : mail'[n].there /\ mail'[n].category = "user" => mail[n].category = "user"
         \/ UnderWay \subseteq during',
         k.pc \in {"judge", "write"} => Careful(m)'
  PROVE  MailInv'
<1>1. job \in [Mails -> Job]
  BY Columns
<1>2. /\ job' \in [Mails -> Job] /\ job'[m] = k
      /\ \A j \in Mails : j # m => job'[j] = job[j]
  BY <1>1
<1>3. Typed'
  BY <1>2 DEF MailInv, Typed
<1>4. HandsKnow'
  BY DEF MailInv, HandsKnow
<1>5. \A j \in Mails : /\ Stored(j) => Stored(j)'
                       /\ job'[j].pc = "insert" => job'[j] = job[j]
  BY <1>2 DEF Stored
<1>6. \A j \in Mails : job'[j] = job[j] \/ job'[j].pc \notin {"judge", "write"} \/ Careful(j)'
  BY <1>2
<1> QED BY <1>3, <1>4, <1>5, <1>6, KeepStep

\* The conversation is brought back.
LEMMA UnarchiveStep ==
  ASSUME MailInv, NEW m \in Mails, Unarchive(m)
  PROVE  MailInv' /\ \A n \in Mails : mail'[n].category = mail[n].category
<1>0. /\ mail \in [Mails -> Row] /\ job \in [Mails -> Job] /\ moved \in [Mails -> Moves]
      /\ during \subseteq Mails /\ job[m] \in Job
  BY Columns
<1>1. UNCHANGED <<action, hand, rule, pref, asked, applied, during, overlap>>
  BY DEF Unarchive
<1> DEFINE f == [n \in Mails |-> [mail[n] EXCEPT !.archived = FALSE, !.snoozed = FALSE]]
<1>2. /\ f \in [Mails -> Row] /\ \A n \in Mails : Alike(f[n], mail[n])
  BY <1>0, RowUpdates
<1>3. PICK k \in Job :
        /\ job' = [job EXCEPT ![m] = k] /\ k.pc \in {"read", "done"}
        /\ \/ k.pc = "read" /\ Move(IF rule THEN {} ELSE Thread(job[m].thread), Other,
                [n \in Mails |-> [mail[n] EXCEPT !.archived = FALSE, !.snoozed = FALSE]])
           \/ UNCHANGED <<mail, moved>>
  <2>1. [job[m] EXCEPT !.pc = "read"] \in Job /\ [job[m] EXCEPT !.pc = "read"].pc = "read"
    BY <1>0 DEF Job
  <2>2. [NoJob EXCEPT !.pc = "done"] \in Job /\ [NoJob EXCEPT !.pc = "done"].pc = "done"
    BY DEF Job, NoJob, Sources
  <2>3. CASE /\ Move(IF rule THEN {} ELSE Thread(job[m].thread), Other,
                     [n \in Mails |-> [mail[n] EXCEPT !.archived = FALSE, !.snoozed = FALSE]])
             /\ job' = [job EXCEPT ![m].pc = "read"]
    BY <2>1, <2>3
  <2>4. CASE job' = [job EXCEPT ![m] = [NoJob EXCEPT !.pc = "done"]] /\ UNCHANGED <<mail, moved>>
    BY <2>2, <2>4
  <2> QED BY <2>3, <2>4 DEF Unarchive
<1>4. CASE UNCHANGED <<mail, moved>>
  <2>1. /\ mail' \in [Mails -> Row] /\ moved' \in [Mails -> Moves]
        /\ \A n \in Mails : Same(n)
    BY <1>0, <1>4 DEF Same
  <2> QED BY <1>0, <1>1, <1>3, <1>4, <2>1, JobStep
<1>5. CASE Move(IF rule THEN {} ELSE Thread(job[m].thread), Other,
                [n \in Mails |-> [mail[n] EXCEPT !.archived = FALSE, !.snoozed = FALSE]])
  <2> DEFINE ids == IF rule THEN {} ELSE Thread(job[m].thread)
  <2>1. /\ mail' = [n \in Mails |-> IF n \in ids THEN [f[n] EXCEPT !.rev = @ + 1] ELSE mail[n]]
        /\ moved' = [n \in Mails |-> IF n \notin ids THEN moved[n] ELSE Unmoved]
    BY <1>5 DEF Move
  <2> HIDE DEF f, ids
  <2>2. /\ mail' \in [Mails -> Row] /\ moved' \in [Mails -> Moves]
        /\ \A n \in Mails : Same(n) \/ Shifted(n)
    BY <1>0, <1>2, <2>1, MoveAside
  <2>3. \A n \in Mails : mail'[n].category = mail[n].category
    BY <2>2 DEF Same, Shifted
  <2> QED BY <1>0, <1>1, <1>3, <2>2, <2>3, JobStep
<1> QED BY <1>3, <1>4, <1>5

\* The row and its context are read.
LEMMA ReadStep ==
  ASSUME MailInv, NEW m \in Mails, ReadRow(m) \/ ReadContext(m)
  PROVE  MailInv'
<1>0. /\ mail \in [Mails -> Row] /\ job \in [Mails -> Job] /\ moved \in [Mails -> Moves]
      /\ during \subseteq Mails /\ job[m] \in Job /\ pref \in {"none", "spam", "safe"}
  BY Columns
<1>1. UNCHANGED <<mail, action, hand, rule, pref, asked, moved, applied, during, overlap>>
  BY DEF ReadRow, ReadContext, mailHistory
<1>2. /\ mail' \in [Mails -> Row] /\ moved' \in [Mails -> Moves] /\ during' \subseteq Mails
      /\ \A n \in Mails : Same(n)
  BY <1>0, <1>1 DEF Same
<1>3. CASE ReadRow(m)
  <2> DEFINE q(pc) == [job[m] EXCEPT !.pc = pc]
  <2>1. \A pc \in {"done", "context"} : q(pc) \in Job /\ q(pc).pc = pc
    BY <1>0 DEF Job
  <2>2. \E pc \in {"done", "context"} : job' = [job EXCEPT ![m] = q(pc)]
    BY <1>3 DEF ReadRow
  <2> HIDE DEF q
  <2>3. PICK k \in Job : job' = [job EXCEPT ![m] = k] /\ k.pc \in {"done", "context"}
    BY <2>1, <2>2
  <2> QED BY <1>1, <1>2, <2>3, JobStep
<1>4. CASE ReadContext(m)
  <2> DEFINE locked == \E n \in Thread(job[m].thread) : mail[n].category = "user"
             k == [job[m] EXCEPT !.pc = "judge", !.sender = pref, !.lock = locked]
  <2>1. locked \in BOOLEAN
    OBVIOUS
  <2>2. job' = [job EXCEPT ![m] = k]
    BY <1>4 DEF ReadContext
  <2> HIDE DEF locked
  <2>3. k \in Job /\ k.pc = "judge" /\ (k.lock <=> locked) /\ k.thread = job[m].thread
    BY <1>0, <2>1 DEF Job
  <2> HIDE DEF k
  <2>4. job'[m] = k
    BY <1>0, <2>2
  <2>5. Careful(m)'
    BY <1>1, <2>3, <2>4 DEF Careful, locked, Thread, There
  <2> QED BY <1>1, <1>2, <2>2, <2>3, <2>5, JobStep
<1> QED BY <1>3, <1>4

\* The judge answers.
LEMMA JudgeStep ==
  ASSUME MailInv, NEW m \in Mails, Judge(m)
  PROVE  MailInv'
<1>0. /\ mail \in [Mails -> Row] /\ job \in [Mails -> Job] /\ moved \in [Mails -> Moves]
      /\ during \subseteq Mails /\ job[m] \in Job
  BY Columns
<1>1. UNCHANGED <<mail, action, hand, rule, pref, asked, moved, applied, during, overlap>>
  BY DEF Judge, mailHistory
<1>2. /\ mail' \in [Mails -> Row] /\ moved' \in [Mails -> Moves] /\ during' \subseteq Mails
      /\ \A n \in Mails : Same(n)
  BY <1>0, <1>1 DEF Same
<1>3. PICK v \in Verdicts(m) :
        job' = [job EXCEPT ![m].pc = IF v = "no" THEN "done" ELSE "write",
                           ![m].lock = FALSE, ![m].sender = "none", ![m].verdict = v,
                           ![m].ids = IF v = "user" THEN {m} ELSE Thread(job[m].thread)]
  BY Zenon DEF Judge
<1> DEFINE pc == IF v = "no" THEN "done" ELSE "write"
           ids == IF v = "user" THEN {m} ELSE Thread(job[m].thread)
           k == [job[m] EXCEPT !.pc = pc, !.lock = FALSE, !.sender = "none",
                               !.verdict = v, !.ids = ids]
<1>4. v \in Sources \cup {"spam"} /\ (v = "auto" => ~job[m].lock)
  BY DEF Verdicts, Sources
<1>5. ids \subseteq Mails
  BY DEF Thread, There
<1>6. v = "auto" => ids = Thread(job[m].thread)
  OBVIOUS
<1>61. pc \in {"done", "write"}
  OBVIOUS
<1>8. job' = [job EXCEPT ![m] = k]
  <2>1. job' = [job EXCEPT ![m].pc = pc, ![m].lock = FALSE, ![m].sender = "none",
                           ![m].verdict = v, ![m].ids = ids]
    BY <1>3
  <2> HIDE DEF pc, ids
  <2> QED BY <1>0, <2>1
<1> HIDE DEF ids, pc
<1>7. /\ k \in Job /\ k.pc \in {"done", "write"} /\ k.verdict = v /\ k.ids = ids
  BY <1>0, <1>4, <1>5, <1>61 DEF Job
<1> HIDE DEF k
<1>9. job'[m] = k
  BY <1>0, <1>8
<1>10. job[m].pc = "judge"
  BY DEF Judge
<1>11. Careful(m)'
  <2>1. Careful(m)
    BY DEF MailInv
  <2>2. CASE v = "auto"
    BY <1>1, <1>4, <1>6, <1>7, <1>9, <1>10, <2>1, <2>2 DEF Careful, Thread, There
  <2>3. CASE v # "auto"
    BY <1>7, <1>9, <2>3 DEF Careful
  <2> QED BY <2>2, <2>3
<1> QED BY <1>1, <1>2, <1>7, <1>8, <1>11, JobStep

\* The judgement is written.
LEMMA PersistStep ==
  ASSUME MailInv, NEW m \in Mails, Persist(m)
  PROVE  MailInv'
<1>0. /\ mail \in [Mails -> Row] /\ job \in [Mails -> Job] /\ moved \in [Mails -> Moves]
      /\ during \subseteq Mails /\ job[m] \in Job /\ job[m].verdict \in Sources \cup {"spam"}
      /\ job[m].pc = "write"
  BY Columns DEF Persist, Job
<1> DEFINE k == [NoJob EXCEPT !.pc = "done"]
           ids == job[m].ids \cap There
<1>1. /\ UNCHANGED <<action, hand, rule, pref, asked, applied, overlap>>
      /\ job' = [job EXCEPT ![m] = k]
      /\ during' = IF job[m].verdict = "user" THEN during \cup UnderWay ELSE during
  BY DEF Persist
<1>2. k \in Job /\ k.pc = "done"
  BY DEF Job, NoJob, Sources
<1> HIDE DEF k
<1>3. during \subseteq during' /\ during' \subseteq Mails
  BY <1>0, <1>1 DEF UnderWay
<1>4. CASE job[m].verdict = "spam"
  <2> DEFINE f == [n \in Mails |-> [mail[n] EXCEPT !.spam = TRUE, !.archived = FALSE]]
  <2>1. /\ f \in [Mails -> Row] /\ \A n \in Mails : Alike(f[n], mail[n])
    BY <1>0, RowUpdates
  <2>2. /\ mail' = [n \in Mails |-> IF n \in ids THEN [f[n] EXCEPT !.rev = @ + 1] ELSE mail[n]]
        /\ moved' = [n \in Mails |-> IF n \notin ids THEN moved[n] ELSE Unmoved]
    BY <1>4 DEF Persist, Move
  <2> HIDE DEF f, ids
  <2>3. /\ mail' \in [Mails -> Row] /\ moved' \in [Mails -> Moves]
        /\ \A n \in Mails : Same(n) \/ Shifted(n)
    BY <1>0, <2>1, <2>2, MoveAside
  <2>4. \A n \in Mails : mail'[n].category = mail[n].category
    BY <2>3 DEF Same, Shifted
  <2> QED BY <1>1, <1>2, <1>3, <2>3, <2>4, JobStep
<1>5. CASE job[m].verdict # "spam"
  <2> DEFINE v == job[m].verdict
  <2>1. /\ mail' = [n \in Mails |-> IF n \in ids THEN [mail[n] EXCEPT !.category = v] ELSE mail[n]]
        /\ UNCHANGED moved
    BY <1>5 DEF Persist
  <2>2. v \in Sources
    BY <1>0, <1>5
  <2> HIDE DEF ids, v
  <2>3. ASSUME NEW n \in Mails
        PROVE  mail'[n] \in Row /\ Filed(n) /\ mail'[n].category \in {mail[n].category, v}
    <3> DEFINE x == [mail[n] EXCEPT !.category = v]
    <3>1. /\ x \in Row /\ x.there = mail[n].there /\ x.thread = mail[n].thread
          /\ x.rev = mail[n].rev /\ x.category = v /\ x.archived = mail[n].archived
          /\ x.trashed = mail[n].trashed /\ x.snoozed = mail[n].snoozed
      BY <1>0, <2>2 DEF Row
    <3>2. mail'[n] = IF n \in ids THEN x ELSE mail[n]
      BY <2>1
    <3>3. moved'[n] = moved[n] /\ mail[n] \in Row
      BY <1>0, <2>1
    <3> HIDE DEF x
    <3>4. CASE n \in ids
      BY <3>1, <3>2, <3>3, <3>4 DEF Filed
    <3>5. CASE n \notin ids
      BY <3>2, <3>3, <3>5 DEF Filed
    <3> QED BY <3>4, <3>5
  <2>4. mail' \in [Mails -> Row] /\ moved' \in [Mails -> Moves]
    BY <1>0, <2>1, <2>3
  <2>5. \/ \A n \in Mails : mail'[n].category = "user" => mail[n].category = "user"
        \/ UnderWay \subseteq during'
    BY <1>1, <2>3 DEF v
  <2> QED BY <1>1, <1>2, <1>3, <2>3, <2>4, <2>5, JobStep
<1> QED BY <1>4, <1>5

\* A message looks for its conversation.
LEMMA ResolveStep ==
  ASSUME MailInv, NEW m \in Mails, Resolve(m)
  PROVE  MailInv'
<1>0. /\ mail \in [Mails -> Row] /\ job \in [Mails -> Job] /\ job[m] \in Job
      /\ overlap \in BOOLEAN /\ job[m].pc = "out"
  BY Columns DEF Resolve
<1>1. /\ UNCHANGED <<mail, action, hand, rule, pref, asked, moved, applied, during>>
      /\ overlap' = (overlap \/ \E n \in Mails : job[n].pc = "insert")
  BY DEF Resolve
<1>2. PICK t \in IF There = {} THEN {m} ELSE {mail[n].thread : n \in There} :
        job' = [job EXCEPT ![m].pc = "insert", ![m].thread = t]
  BY DEF Resolve
<1>3. t \in Mails \cup {Other} /\ (There # {} => \E n \in There : t = mail[n].thread)
  <2>1. \A n \in There : mail[n] \in Row
    BY <1>0 DEF There
  <2> QED BY <1>2, <2>1 DEF Row
<1> DEFINE k == [job[m] EXCEPT !.pc = "insert", !.thread = t]
<1>4. job' = [job EXCEPT ![m] = k]
  BY <1>0, <1>2
<1>5. k \in Job /\ k.pc = "insert" /\ k.thread = t
  BY <1>0, <1>3 DEF Job
<1> HIDE DEF k
<1>6. /\ job' \in [Mails -> Job] /\ job'[m] = k
      /\ \A j \in Mails : j # m => job'[j] = job[j]
  BY <1>0, <1>4, <1>5
<1>7. Typed'
  BY <1>1, <1>6 DEF MailInv, Typed
<1>8. HandsKnow' /\ OnRecord'
  BY <1>1 DEF MailInv, HandsKnow, OnRecord
<1>9. ItemsHold'
  <2>1. \A n \in Mails : Stored(n) => Stored(n)'
    BY <1>0, <1>6 DEF Stored
  <2>2. \A a \in Actions : \A i \in action[a].items : i.mail \in Mails
    BY DEF MailInv, Typed, Entry, Item
  <2> QED BY <1>1, <2>1, <2>2 DEF MailInv, ItemsHold, Describes
<1>10. OneThread'
  <2> SUFFICES ASSUME ~overlap' PROVE OneThread'
    BY DEF OneThread
  <2>1. ~overlap /\ \A n \in Mails : job[n].pc # "insert"
    BY <1>0, <1>1
  <2>2. \A x, y \in There : mail[x].thread = mail[y].thread
    BY <2>1 DEF MailInv, OneThread
  <2>3. \A n \in There : mail[n].thread = t
    BY <1>3, <2>2
  <2>4. There' = There
    BY <1>1 DEF There
  <2>5. \A j \in Mails : job'[j].pc = "insert" => j = m
    BY <1>6, <2>1
  <2> QED BY <1>1, <1>5, <1>6, <2>2, <2>3, <2>4, <2>5 DEF OneThread
<1>11. \A j \in Mails : Careful(j)'
  <2>1. \A j \in Mails : Careful(j)
    BY DEF MailInv
  <2> QED BY <1>1, <1>5, <1>6, <2>1 DEF Careful, Thread, There
<1> QED BY <1>7, <1>8, <1>9, <1>10, <1>11 DEF MailInv

\* A message is stored.
LEMMA InsertStep ==
  ASSUME MailInv, NEW m \in Mails, Insert(m)
  PROVE  MailInv' /\ \A n \in Mails : mail'[n].category = "auto" => mail[n].category = "auto"
<1>0. /\ mail \in [Mails -> Row] /\ job \in [Mails -> Job] /\ moved \in [Mails -> Moves]
      /\ job[m] \in Job /\ job[m].pc = "insert" /\ ~Stored(m)
  BY Columns DEF Insert, Stored
<1>1. UNCHANGED <<action, hand, rule, pref, asked, applied, during, overlap>>
  BY DEF Insert
<1> DEFINE t == job[m].thread
           new == [NoMail EXCEPT !.there = TRUE, !.thread = t]
           k == [job[m] EXCEPT !.pc = "unarchive"]
<1>2. new \in Row /\ new.there /\ new.thread = t /\ new.category = "no"
  BY <1>0 DEF NoMail, Row, Job, Sources
<1>3. k \in Job /\ k.pc = "unarchive"
  BY <1>0 DEF Job
<1>4. job' = [job EXCEPT ![m] = k]
  BY <1>0 DEF Insert
<1> HIDE DEF k
<1>5. /\ job' \in [Mails -> Job] /\ job'[m] = k
      /\ \A j \in Mails : j # m => job'[j] = job[j]
  BY <1>0, <1>3, <1>4
<1>6. /\ mail' \in [Mails -> Row] /\ moved' \in [Mails -> Moves]
      /\ mail'[m].there /\ mail'[m].thread = t /\ mail'[m].category = "no"
      /\ \A n \in Mails : n # m => Same(n) \/ Shifted(n)
  <2>1. CASE ~rule
    <3>1. mail' = [mail EXCEPT ![m] = new] /\ moved' = moved
      BY <2>1 DEF Insert
    <3> HIDE DEF new
    <3> QED BY <1>0, <1>2, <3>1 DEF Same
  <2>2. CASE rule
    <3> DEFINE old == [n \in Mails |-> IF n = m THEN new ELSE mail[n]]
               f == [n \in Mails |-> [old[n] EXCEPT !.archived = TRUE, !.snoozed = FALSE]]
               ids == {m} \cup Thread(t)
    <3>1. /\ mail' = [n \in Mails |->
               IF n \in ids
               THEN [(IF n = m THEN new ELSE mail[n]) EXCEPT
                       !.archived = TRUE, !.snoozed = FALSE, !.rev = @ + 1]
               ELSE mail[n]]
          /\ moved' = [n \in Mails |-> IF n \in ids THEN Unmoved ELSE moved[n]]
      BY <2>2 DEF Insert
    <3>2. \A n \in Mails : old[n] \in Row /\ (n # m => old[n] = mail[n]) /\ old[m] = new
      BY <1>0, <1>2
    <3> HIDE DEF new, ids
    <3>3. ASSUME NEW n \in Mails
          PROVE  LET x == [old[n] EXCEPT !.archived = TRUE, !.snoozed = FALSE, !.rev = @ + 1] IN
                   /\ x \in Row /\ x.there = old[n].there /\ x.thread = old[n].thread
                   /\ x.category = old[n].category /\ x.rev = old[n].rev + 1
      <4>1. old[n] \in Row
        BY <3>2
      <4> HIDE DEF old
      <4> DEFINE o == old[n]
                 x == [o EXCEPT !.archived = TRUE, !.snoozed = FALSE, !.rev = o.rev + 1]
      <4>2. /\ x \in Row /\ x.there = o.there /\ x.thread = o.thread
            /\ x.category = o.category /\ x.rev = o.rev + 1
        <5>1. o \in Row
          BY <4>1
        <5> HIDE DEF o
        <5>2. o.rev \in Nat /\ o.rev + 1 \in Nat
          BY <5>1 DEF Row
        <5> DEFINE y == [o EXCEPT !.archived = TRUE, !.snoozed = FALSE]
        <5>3. y \in Row /\ Alike(y, o)
          BY <5>1 DEF Row, Alike
        <5>4. x = [y EXCEPT !.rev = o.rev + 1]
          OBVIOUS
        <5> HIDE DEF x, y
        <5> QED BY <5>2, <5>3, <5>4, RowUpdates DEF Alike
      <4>3. [o EXCEPT !.archived = TRUE, !.snoozed = FALSE, !.rev = @ + 1] = x
        OBVIOUS
      <4> QED BY <4>2, <4>3
    <3>4. \A n \in Mails : mail'[n] =
            IF n \in ids
            THEN [old[n] EXCEPT !.archived = TRUE, !.snoozed = FALSE, !.rev = @ + 1] ELSE mail[n]
      BY <3>1
    <3> HIDE DEF old
    <3>5. m \in ids
      BY DEF ids
    <3>6. Unmoved \in Moves
      BY DEF Moves
    <3>7. \A n \in Mails : mail'[n] \in Row
      BY <1>0, <3>3, <3>4
    <3>71. mail' \in [Mails -> Row] /\ moved' \in [Mails -> Moves]
      BY <1>0, <3>1, <3>6, <3>7
    <3>8. mail'[m].there /\ mail'[m].thread = t /\ mail'[m].category = "no"
      BY <1>2, <3>2, <3>3, <3>4, <3>5
    <3>9. ASSUME NEW n \in Mails, n # m PROVE Same(n) \/ Shifted(n)
      <4>1. CASE n \in ids
        BY <3>2, <3>3, <3>4, <3>9, <4>1 DEF Shifted
      <4>2. CASE n \notin ids
        BY <3>1, <3>4, <4>2 DEF Same
      <4> QED BY <4>1, <4>2
    <3> QED BY <3>71, <3>8, <3>9
  <2> QED BY <2>1, <2>2
<1> HIDE DEF new
<1>7. Typed' /\ HandsKnow' /\ OnRecord'
  BY <1>1, <1>5, <1>6 DEF MailInv, Typed, HandsKnow, OnRecord
<1>8. \A n \in Mails : n # m => /\ mail'[n].there = mail[n].there /\ mail'[n].thread = mail[n].thread
                                /\ mail'[n].category = mail[n].category
  BY <1>6 DEF Same, Shifted
<1>9. ItemsHold'
  <2>1. \A n \in Mails : (Stored(n) => Stored(n)') /\ Stored(m)'
    BY <1>3, <1>5 DEF Stored
  <2>2. \A n \in Mails : mail'[n].there => Stored(n)'
    BY <1>8, <2>1 DEF MailInv, ItemsHold
  <2>3. ASSUME NEW a \in Actions, NEW i \in action[a].items
        PROVE  Stored(i.mail)' /\ Describes(a, i)'
    <3>1. i.mail \in Mails /\ i.rev \in Nat /\ mail[i.mail].rev \in Nat
      BY <1>0, <2>3 DEF MailInv, Typed, Entry, Item, Row
    <3>2. Stored(i.mail) /\ Describes(a, i) /\ i.mail # m
      BY <1>0, <2>3 DEF MailInv, ItemsHold
    <3>3. CASE Same(i.mail)
      BY <1>1, <2>1, <3>1, <3>2, <3>3 DEF Describes, Same
    <3>4. CASE Shifted(i.mail)
      BY <1>1, <2>1, <3>1, <3>2, <3>4 DEF Describes, Shifted
    <3> QED BY <1>6, <3>1, <3>2, <3>3, <3>4
  <2> QED BY <1>1, <2>2, <2>3 DEF MailInv, ItemsHold
<1>10. OneThread'
  <2> SUFFICES ASSUME ~overlap' PROVE OneThread'
    BY DEF OneThread
  <2>1. /\ \A x, y \in There : mail[x].thread = mail[y].thread
        /\ \A n \in There : mail[n].thread = t
        /\ \A j \in Mails : job[j].pc = "insert" => j = m
    BY <1>0, <1>1 DEF MailInv, OneThread
  <2>2. \A n \in There' : mail'[n].thread = t
    BY <1>6, <1>8, <2>1 DEF There
  <2>3. \A j \in Mails : job'[j].pc # "insert"
    BY <1>3, <1>5, <2>1
  <2> QED BY <2>2, <2>3 DEF OneThread, There
<1>11. ASSUME NEW j \in Mails PROVE Careful(j)'
  <2>1. CASE j = m
    BY <1>3, <1>5, <2>1 DEF Careful
  <2>2. CASE j # m
    <3>1. Careful(j) /\ job'[j] = job[j] /\ during' = during
      BY <1>1, <1>5, <2>2 DEF MailInv
    <3>2. \A n \in There' : mail'[n].category = "user" =>
            n \in There /\ mail[n].category = "user" /\ mail'[n].thread = mail[n].thread
      BY <1>6, <1>8 DEF There
    <3> QED BY <3>1, <3>2 DEF Careful, Thread, There
  <2> QED BY <2>1, <2>2
<1> QED BY <1>6, <1>7, <1>8, <1>9, <1>10, <1>11 DEF MailInv

-----------------------------------------------------------------------------
(* Requests *)

\* A request goes on without writing an action: it becomes r.
LEMMA HandStep ==
  ASSUME MailInv, NEW h \in Hands, NEW r \in Hand, hand' = [hand EXCEPT ![h] = r],
         r.pc \in {"lookup", "apply"} => r.kind \in Cleanups /\ r.act \in Actions,
         r.pc = "undo" => r.act \in Actions /\ action[r.act].kind # "none",
         r.pc = "flags" => r.kind \in Flags,
         UNCHANGED <<action, job, rule, applied, overlap>>,
         pref' \in {"none", "spam", "safe"}, asked' \in 0..MaxRequests,
         mail' \in [Mails -> Row], moved' \in [Mails -> Moves],
         during \subseteq during', during' \subseteq Mails,
         \A n \in Mails : Same(n) \/ Shifted(n) \/ Filed(n) \/ Lost(n),
         \/ \A n \in Mails : mail'[n].there /\ mail'[n].category = "user" => mail[n].category = "user"
         \/ UnderWay \subseteq during'
  PROVE  MailInv'
<1>1. /\ hand' \in [Hands -> Hand] /\ hand'[h] = r
      /\ \A g \in Hands : g # h => hand'[g] = hand[g]
  BY Columns
<1>2. Typed'
  BY <1>1 DEF MailInv, Typed
<1>3. HandsKnow'
  BY <1>1 DEF MailInv, HandsKnow
<1>4. \A j \in Mails : Stored(j) => Stored(j)'
  BY DEF Stored
<1> QED BY <1>2, <1>3, <1>4, KeepStep

\* A request that has ended.
LEMMA FreeHand == Free \in Hand /\ Free.pc = "idle"
BY DEF Free, Hand

\* The user asks for something.
LEMMA AskStep ==
  ASSUME MailInv, NEW h \in Hands,
         NEW pc \in {"lookup", "undo", "flags", "destroy"}, NEW kind \in Kinds,
         NEW ids \in SUBSET Mails, NEW a \in Actions \cup {Other}, Ask(h, pc, kind, ids, a),
         pc = "lookup" => kind \in Cleanups /\ a \in Actions,
         pc = "undo" => a \in Actions /\ action[a].kind # "none",
         pc = "flags" => kind \in Flags
  PROVE  MailInv' /\ UNCHANGED <<mail, action, job>>
<1> DEFINE r == [pc |-> pc, kind |-> kind, ids |-> ids, act |-> a]
<1>1. r \in Hand /\ r.pc = pc /\ r.kind = kind /\ r.act = a
  BY DEF Hand
<1>2. /\ hand' = [hand EXCEPT ![h] = r] /\ UNCHANGED <<mail, action, job, rule, pref, mailHistory>>
      /\ asked' = asked + 1 /\ asked < MaxRequests
  BY DEF Ask
<1> HIDE DEF r
<1>3. asked' \in 0..MaxRequests
  BY <1>2, MailboxAssumption DEF MailInv, Typed
<1>4. \A n \in Mails : Same(n)
  BY <1>2 DEF Same, mailHistory
<1>5. /\ mail' \in [Mails -> Row] /\ moved' \in [Mails -> Moves] /\ during' \subseteq Mails
      /\ during' = during /\ pref' \in {"none", "spam", "safe"}
      /\ UNCHANGED <<action, job, rule, applied, overlap>>
  BY <1>2, Columns DEF mailHistory
<1>6. MailInv'
  BY <1>1, <1>2, <1>3, <1>4, <1>5, HandStep
<1> QED BY <1>2, <1>6

\* Whatever the user asks for, nothing but the request is written.
LEMMA AsksStep ==
  ASSUME MailInv, NEW h \in Hands,
         \/ \E kind \in Cleanups, m \in Mails, a \in Actions : AskCleanup(h, kind, m, a)
         \/ \E kind \in Flags, m \in Mails : AskFlags(h, kind, m)
         \/ \E a \in Actions : AskUndo(h, a)
         \/ AskEmpty(h)
  PROVE  MailInv' /\ UNCHANGED <<mail, action, job>>
<1>1. /\ \A m \in Mails : Expanded(m) \in SUBSET Mails
      /\ {m \in There : mail[m].trashed} \in SUBSET Mails
  BY DEF Expanded, Thread, There
<1>2. Cleanups \subseteq Kinds /\ Flags \subseteq Kinds /\ "undo" \in Kinds /\ "empty" \in Kinds
  BY DEF Kinds
<1>3. CASE \E kind \in Cleanups, m \in Mails, a \in Actions : AskCleanup(h, kind, m, a)
  BY <1>1, <1>2, <1>3, AskStep DEF AskCleanup
<1>4. CASE \E kind \in Flags, m \in Mails : AskFlags(h, kind, m)
  BY <1>1, <1>2, <1>4, AskStep DEF AskFlags
<1>5. CASE \E a \in Actions : AskUndo(h, a)
  BY <1>2, <1>5, AskStep DEF AskUndo
<1>6. CASE AskEmpty(h)
  BY <1>1, <1>2, <1>6, AskStep DEF AskEmpty
<1> QED BY <1>3, <1>4, <1>5, <1>6

\* A request looks its id up, or remembers a sender.
LEMMA LookupStep ==
  ASSUME MailInv, NEW h \in Hands, Lookup(h) \/ Remember(h)
  PROVE  MailInv' /\ UNCHANGED <<mail, action, job>>
<1>0. hand \in [Hands -> Hand] /\ hand[h] \in Hand
  BY Columns
<1>1. UNCHANGED <<mail, action, job, rule, asked, mailHistory>> /\ pref' \in {"none", "spam", "safe"}
  BY Columns DEF Lookup, Remember
<1>2. PICK r \in Hand :
        /\ hand' = [hand EXCEPT ![h] = r] /\ r.pc \in {"idle", "apply"}
        /\ r.pc = "apply" => r.kind \in Cleanups /\ r.act \in Actions
  <2>1. CASE Rest(h)
    BY <2>1, FreeHand DEF Rest
  <2>2. CASE hand[h].pc = "lookup" /\ hand' = [hand EXCEPT ![h].pc = "apply"]
    <3> DEFINE r == [hand[h] EXCEPT !.pc = "apply"]
    <3>1. r \in Hand /\ r.pc = "apply" /\ r.kind = hand[h].kind /\ r.act = hand[h].act
      BY <1>0 DEF Hand
    <3>2. hand' = [hand EXCEPT ![h] = r]
      BY <2>2
    <3>3. hand[h].kind \in Cleanups /\ hand[h].act \in Actions
      BY <2>2 DEF MailInv, HandsKnow
    <3> QED BY <3>1, <3>2, <3>3
  <2> QED BY <2>1, <2>2 DEF Lookup, Remember
<1>3. /\ mail' \in [Mails -> Row] /\ moved' \in [Mails -> Moves] /\ during' \subseteq Mails
      /\ during' = during /\ asked' \in 0..MaxRequests /\ UNCHANGED <<applied, overlap>>
      /\ \A n \in Mails : Same(n)
  BY <1>1 DEF MailInv, Typed, mailHistory, Same
<1> QED BY <1>1, <1>2, <1>3, HandStep

\* The rows' flags are set.
LEMMA FlagsStep ==
  ASSUME MailInv, NEW h \in Hands, SetFlags(h)
  PROVE  /\ MailInv' /\ UNCHANGED <<action, job>>
         /\ \A n \in Mails : mail'[n].category = "auto" => mail[n].category = "auto"
<1>0. /\ mail \in [Mails -> Row] /\ moved \in [Mails -> Moves] /\ hand[h] \in Hand
      /\ hand \in [Hands -> Hand] /\ during \subseteq Mails
  BY Columns
<1>1. /\ UNCHANGED <<action, job, rule, pref, asked, applied, overlap>>
      /\ pref' \in {"none", "spam", "safe"} /\ asked' \in 0..MaxRequests
  BY DEF SetFlags, MailInv, Typed
<1> DEFINE ids == hand[h].ids \cap There
           kind == hand[h].kind
<1>2. CASE kind = "categorize"
  <2>1. /\ mail' = [m \in Mails |-> IF m \in ids THEN [mail[m] EXCEPT !.category = "user"] ELSE mail[m]]
        /\ during' = during \cup UnderWay /\ hand' = [hand EXCEPT ![h] = Free] /\ moved' = moved
    BY <1>2 DEF SetFlags, Rest
  <2> HIDE DEF ids
  <2>2. ASSUME NEW n \in Mails
        PROVE  /\ mail'[n] \in Row /\ Filed(n)
               /\ mail'[n].category = "auto" => mail[n].category = "auto"
    <3> DEFINE x == [mail[n] EXCEPT !.category = "user"]
    <3>1. /\ x \in Row /\ x.there = mail[n].there /\ x.thread = mail[n].thread
          /\ x.rev = mail[n].rev /\ x.category = "user" /\ x.archived = mail[n].archived
          /\ x.trashed = mail[n].trashed /\ x.snoozed = mail[n].snoozed
      BY <1>0 DEF Row, Sources
    <3>2. mail'[n] = IF n \in ids THEN x ELSE mail[n]
      BY <2>1
    <3>3. moved'[n] = moved[n] /\ mail[n] \in Row
      BY <1>0, <2>1
    <3> HIDE DEF x
    <3> QED BY <3>1, <3>2, <3>3 DEF Filed
  <2>3. mail' \in [Mails -> Row] /\ moved' \in [Mails -> Moves]
    BY <1>0, <2>1, <2>2
  <2>4. during' \subseteq Mails /\ during \subseteq during' /\ UnderWay \subseteq during'
    BY <1>0, <2>1 DEF UnderWay
  <2> QED BY <1>1, <2>1, <2>2, <2>3, <2>4, FreeHand, HandStep
<1>3. CASE kind # "categorize"
  <2> DEFINE f == [n \in Mails |-> Flagged(kind, mail[n])]
  <2>1. /\ f \in [Mails -> Row] /\ \A n \in Mails : Alike(f[n], mail[n])
    BY <1>0, FlaggedRow
  <2>2. /\ mail' = [n \in Mails |-> IF n \in ids THEN [f[n] EXCEPT !.rev = @ + 1] ELSE mail[n]]
        /\ moved' = [n \in Mails |-> IF n \notin ids THEN moved[n] ELSE Unmoved]
    BY <1>3 DEF SetFlags, Move
  <2>3. during' = during /\ \E r \in {[hand[h] EXCEPT !.pc = "remember"], Free} :
                               hand' = [hand EXCEPT ![h] = r]
    BY <1>0, <1>3 DEF SetFlags
  <2>4. [hand[h] EXCEPT !.pc = "remember"] \in Hand
        /\ [hand[h] EXCEPT !.pc = "remember"].pc = "remember"
    BY <1>0 DEF Hand
  <2> HIDE DEF f, ids
  <2>5. /\ mail' \in [Mails -> Row] /\ moved' \in [Mails -> Moves]
        /\ \A n \in Mails : Same(n) \/ Shifted(n)
    BY <1>0, <2>1, <2>2, MoveAside
  <2>6. \A n \in Mails : mail'[n].category = mail[n].category
    BY <2>5 DEF Same, Shifted
  <2>7. PICK r \in Hand : hand' = [hand EXCEPT ![h] = r] /\ r.pc \in {"remember", "idle"}
    BY <2>3, <2>4, FreeHand
  <2> QED BY <1>0, <1>1, <2>3, <2>5, <2>6, <2>7, HandStep
<1> QED BY <1>2, <1>3

\* The trash is emptied.
LEMMA DestroyStep ==
  ASSUME MailInv, NEW h \in Hands, Destroy(h)
  PROVE  /\ MailInv' /\ UNCHANGED <<action, job>>
         /\ \A n \in Mails : mail'[n].category = "auto" => mail[n].category = "auto"
<1>0. mail \in [Mails -> Row] /\ moved \in [Mails -> Moves] /\ during \subseteq Mails
  BY Columns
<1>1. /\ mail' = [m \in Mails |-> IF m \in hand[h].ids THEN NoMail ELSE mail[m]]
      /\ moved' = [m \in Mails |-> IF m \in hand[h].ids THEN Unmoved ELSE moved[m]]
      /\ hand' = [hand EXCEPT ![h] = Free]
      /\ UNCHANGED <<action, job, rule, pref, asked, applied, during, overlap>>
      /\ pref' \in {"none", "spam", "safe"} /\ asked' \in 0..MaxRequests
  BY DEF Destroy, Rest, MailInv, Typed
<1>2. NoMail \in Row /\ ~NoMail.there /\ NoMail.category = "no" /\ Unmoved \in Moves
  BY DEF NoMail, Row, Sources, Moves
<1>3. /\ mail' \in [Mails -> Row] /\ moved' \in [Mails -> Moves]
      /\ \A n \in Mails : Same(n) \/ Lost(n)
  BY <1>0, <1>1, <1>2 DEF Same, Lost
<1>4. \A n \in Mails : mail'[n].category \in {mail[n].category, "no"}
  BY <1>0, <1>1, <1>2
<1>5. \A n \in Mails : mail'[n].category = "user" => mail[n].category = "user"
  BY <1>4
<1> QED BY <1>0, <1>1, <1>3, <1>4, <1>5, FreeHand, HandStep

\* Snoozed messages come back.
LEMMA WakeStep ==
  ASSUME MailInv, Wake
  PROVE  MailInv' /\ UNCHANGED action /\ \A n \in Mails : mail'[n].category = mail[n].category
<1>0. mail \in [Mails -> Row] /\ moved \in [Mails -> Moves]
  BY Columns
<1>1. UNCHANGED <<action, job, hand, rule, pref, asked, applied, during, overlap>>
  BY DEF Wake
<1> DEFINE f == [n \in Mails |-> [mail[n] EXCEPT !.snoozed = FALSE]]
<1>2. /\ f \in [Mails -> Row] /\ \A n \in Mails : Alike(f[n], mail[n])
  BY <1>0, RowUpdates
<1>3. PICK due \in (SUBSET {m \in There : mail[m].snoozed}) \ {{}} :
        Move(due, Other, [n \in Mails |-> [mail[n] EXCEPT !.snoozed = FALSE]])
  BY DEF Wake
<1>4. /\ mail' = [n \in Mails |-> IF n \in due THEN [f[n] EXCEPT !.rev = @ + 1] ELSE mail[n]]
      /\ moved' = [n \in Mails |-> IF n \notin due THEN moved[n] ELSE Unmoved]
  BY <1>3 DEF Move
<1> HIDE DEF f
<1>5. /\ mail' \in [Mails -> Row] /\ moved' \in [Mails -> Moves]
      /\ \A n \in Mails : Same(n) \/ Shifted(n)
  BY <1>0, <1>2, <1>4, MoveAside
<1>6. Typed' /\ HandsKnow'
  BY <1>1, <1>5 DEF MailInv, Typed, HandsKnow
<1>7. \A n \in Mails : mail'[n].category = mail[n].category
  BY <1>5 DEF Same, Shifted
<1>8. \A j \in Mails : Stored(j) => Stored(j)'
  BY <1>1 DEF Stored
<1> QED BY <1>1, <1>5, <1>6, <1>7, <1>8, KeepStep

-----------------------------------------------------------------------------
(* Actions and their undo *)

\* The place of a row, as an item keeps it.
LEMMA PlaceType ==
  ASSUME mail \in [Mails -> Row], NEW m \in Mails
  PROVE  Place(m) \in Places
BY DEF Place, Places, Row

\* An action is carried out.
LEMMA ApplyStep ==
  ASSUME MailInv, NEW h \in Hands, Apply(h)
  PROVE  /\ MailInv' /\ \A n \in Mails : mail'[n].category = mail[n].category
         /\ \A a \in Actions : action'[a].undone => action[a].undone
<1>0. /\ mail \in [Mails -> Row] /\ moved \in [Mails -> Moves] /\ hand \in [Hands -> Hand]
      /\ action \in [Actions -> Entry] /\ applied \in [Actions -> Nat]
  BY DEF MailInv, Typed
<1>1. /\ UNCHANGED <<job, rule, pref, asked, during, overlap>> /\ hand' = [hand EXCEPT ![h] = Free]
      /\ pref' \in {"none", "spam", "safe"} /\ asked' \in 0..MaxRequests /\ during' \subseteq Mails
  BY DEF Apply, Rest, MailInv, Typed
<1> DEFINE a == hand[h].act
           kind == hand[h].kind
           ids == hand[h].ids \cap There
<1>2. a \in Actions /\ kind \in Cleanups
  BY DEF Apply, MailInv, HandsKnow
<1>3. CASE action[a].kind # "none"
  <2>1. UNCHANGED <<mail, moved, action, applied>>
    BY <1>3 DEF Apply
  <2>2. /\ mail' \in [Mails -> Row] /\ moved' \in [Mails -> Moves] /\ \A n \in Mails : Same(n)
    BY <1>0, <2>1 DEF Same
  <2> QED BY <1>1, <2>1, <2>2, FreeHand, HandStep
<1>4. CASE action[a].kind = "none"
  <2> DEFINE e == [kind |-> kind, items |-> Items(ids), undone |-> FALSE]
             f == [n \in Mails |-> After(kind, mail[n])]
  <2>1. /\ action' = [action EXCEPT ![a] = e]
        /\ applied' = [applied EXCEPT ![a] = @ + 1]
    BY <1>4 DEF Apply
  <2>2. /\ mail' = [n \in Mails |-> IF n \in ids THEN [f[n] EXCEPT !.rev = @ + 1] ELSE mail[n]]
        /\ moved' = [n \in Mails |-> IF n \notin ids THEN moved[n]
                                    ELSE IF a = Other THEN Unmoved ELSE [by |-> a, from |-> Place(n)]]
    BY <1>4 DEF Apply, Move
  <2>3. a # Other
    BY <1>2, OtherAssumption
  <2>4. ids \subseteq There /\ ids \subseteq Mails
    BY DEF There
  <2>5. \A n \in Mails : /\ f[n] \in Row /\ Alike(f[n], mail[n]) /\ Fits(kind, f[n], mail[n])
                         /\ mail[n].rev \in Nat /\ mail[n].rev + 1 \in Nat
    BY <1>0, <1>2, AfterRow DEF Row
  <2>6. \A n \in Mails : Place(n) \in Places
    BY <1>0, PlaceType
  <2>7. Items(ids) \in SUBSET Item
    BY <2>4, <2>5, <2>6 DEF Items, Item, Places
  <2> HIDE DEF f, ids, a, kind
  <2>8. e \in Entry /\ e.kind = kind /\ e.items = Items(ids) /\ ~e.undone
    BY <1>2, <2>7 DEF Entry
  <2> HIDE DEF e
  <2>9. ASSUME NEW n \in Mails, n \in ids
        PROVE  /\ mail'[n] \in Row /\ Shifted(n) /\ Fits(kind, mail'[n], Place(n))
               /\ moved'[n] = [by |-> a, from |-> Place(n)] /\ moved'[n] \in Moves
    <3> DEFINE x == [f[n] EXCEPT !.rev = f[n].rev + 1]
    <3>1. f[n] \in Row /\ f[n].rev + 1 \in Nat
      BY <2>5 DEF Alike
    <3>2. /\ x \in Row /\ x.rev = f[n].rev + 1
          /\ x.there = f[n].there /\ x.thread = f[n].thread /\ x.category = f[n].category
          /\ x.archived = f[n].archived /\ x.trashed = f[n].trashed /\ x.snoozed = f[n].snoozed
      BY <3>1, RowUpdates
    <3>3. mail'[n] = x
      BY <2>2, <2>9
    <3>4. Fits(kind, f[n], Place(n))
      BY <2>5 DEF Fits, Place
    <3>5. moved'[n] = [by |-> a, from |-> Place(n)]
      BY <2>2, <2>3, <2>9
    <3>6. moved'[n] \in Moves
      BY <1>2, <2>6, <3>5 DEF Moves
    <3> HIDE DEF x
    <3> QED BY <2>5, <3>2, <3>3, <3>4, <3>5, <3>6 DEF Shifted, Alike, Fits
  <2>10. \A n \in Mails : n \notin ids => Same(n)
    BY <2>2 DEF Same
  <2>11. mail' \in [Mails -> Row] /\ moved' \in [Mails -> Moves]
    <3>1. \A n \in Mails : mail'[n] \in Row /\ moved'[n] \in Moves
      BY <1>0, <2>9, <2>10 DEF Same
    <3> QED BY <2>2, <3>1
  <2>12. /\ action' \in [Actions -> Entry] /\ action'[a] = e
         /\ \A b \in Actions : b # a => action'[b] = action[b]
    BY <1>0, <1>2, <2>1, <2>8
  <2>13. /\ applied' \in [Actions -> Nat] /\ applied'[a] = applied[a] + 1
         /\ \A b \in Actions : b # a => applied'[b] = applied[b]
    BY <1>0, <1>2, <2>1
  <2>14. \A g \in Hands : hand'[g] = hand[g] \/ hand'[g].pc = "idle"
    BY <1>0, <1>1, FreeHand
  <2>15. hand' \in [Hands -> Hand]
    BY <1>0, <1>1, FreeHand
  <2>16. Typed'
    BY <1>1, <2>11, <2>12, <2>13, <2>15 DEF MailInv, Typed
  <2>17. HandsKnow'
    <3>1. \A b \in Actions : action[b].kind # "none" => action'[b].kind # "none"
      BY <1>2, <2>8, <2>12 DEF Cleanups
    <3> QED BY <2>14, <3>1 DEF MailInv, HandsKnow
  <2>18. OnRecord'
    <3>1. applied[a] = 0 /\ kind # "none"
      BY <1>2, <1>4 DEF MailInv, OnRecord, a, Cleanups
    <3> QED BY <2>8, <2>12, <2>13, <3>1 DEF MailInv, OnRecord
  <2>19. \A n \in Mails : /\ Same(n) \/ Shifted(n)
                          /\ mail'[n].there = mail[n].there /\ mail'[n].thread = mail[n].thread
                          /\ mail'[n].category = mail[n].category
    BY <2>9, <2>10 DEF Same, Shifted
  <2>20. There' = There /\ \A n \in Mails : Stored(n)' = Stored(n)
    BY <1>1, <2>19 DEF There, Stored
  <2>21. ItemsHold'
    <3>1. \A n \in Mails : mail'[n].there => Stored(n)'
      BY <2>19, <2>20 DEF MailInv, ItemsHold
    <3>2. ASSUME NEW b \in Actions, b = a, NEW i \in Items(ids)
          PROVE  Stored(i.mail)' /\ Describes(b, i)'
      <4>1. PICK n \in ids : i = [mail |-> n, rev |-> mail[n].rev + 1, was |-> Place(n)]
        BY DEF Items
      <4>2. n \in Mails /\ i.mail = n /\ i.rev = mail[n].rev + 1 /\ i.was = Place(n)
        BY <2>4, <4>1
      <4>3. Stored(n)'
        BY <2>4, <2>20, <4>1, <4>2 DEF MailInv, ItemsHold, There
      <4>4. mail'[n].rev = i.rev /\ i.rev \in Nat
        BY <2>5, <2>9, <4>1, <4>2 DEF Shifted
      <4>5. moved'[n] = [by |-> a, from |-> i.was] /\ Fits(kind, mail'[n], i.was)
        BY <2>9, <4>1, <4>2
      <4>6. action'[b].kind = kind
        BY <2>8, <2>12, <3>2
      <4>7. /\ i.rev <= mail'[i.mail].rev /\ Fits(action'[b].kind, mail'[i.mail], i.was)
            /\ moved'[i.mail] = [by |-> b, from |-> i.was]
        BY <3>2, <4>2, <4>4, <4>5, <4>6
      <4>8. Describes(b, i)'
        <5> HIDE DEF Fits
        <5> QED BY <4>7 DEF Describes
      <4> QED BY <4>2, <4>3, <4>8
    <3>3. ASSUME NEW b \in Actions, b # a, NEW i \in action[b].items
          PROVE  Stored(i.mail)' /\ Describes(b, i)'
      <4>1. i.mail \in Mails /\ i.rev \in Nat /\ mail[i.mail].rev \in Nat
        BY <1>0, <2>5, <3>3 DEF Entry, Item
      <4>2. Stored(i.mail) /\ Describes(b, i)
        BY <3>3 DEF MailInv, ItemsHold
      <4>3. CASE Same(i.mail)
        BY <2>12, <2>20, <3>3, <4>1, <4>2, <4>3 DEF Describes, Same
      <4>4. CASE Shifted(i.mail)
        BY <2>12, <2>20, <3>3, <4>1, <4>2, <4>4 DEF Describes, Shifted
      <4> QED BY <2>19, <4>1, <4>3, <4>4
    <3>4. \A i, j \in Items(ids) : i.mail = j.mail => i = j
      BY DEF Items
    <3>5. \A b \in Actions : \A i \in action'[b].items : Stored(i.mail)' /\ Describes(b, i)'
      <4> SUFFICES ASSUME NEW b \in Actions, NEW i \in action'[b].items
                   PROVE  Stored(i.mail)' /\ Describes(b, i)'
        OBVIOUS
      <4>1. CASE b = a
        BY <2>8, <2>12, <3>2, <4>1
      <4>2. CASE b # a
        BY <2>12, <3>3, <4>2
      <4> QED BY <4>1, <4>2
    <3>6. \A b \in Actions : \A i, j \in action'[b].items : i.mail = j.mail => i = j
      BY <2>8, <2>12, <3>4 DEF MailInv, ItemsHold
    <3> QED BY <3>1, <3>5, <3>6 DEF ItemsHold
  <2>22. OneThread'
    BY <1>1, <2>19, <2>20 DEF MailInv, OneThread, There
  <2>23. \A j \in Mails : Careful(j)'
    <3>1. \A j \in Mails : Careful(j) /\ job'[j] = job[j] /\ during' = during
      BY <1>1 DEF MailInv
    <3>2. \A t : Thread(t)' = Thread(t)
      BY <2>19 DEF Thread, There
    <3>3. \A n \in There : mail'[n].category = mail[n].category
      BY <2>19 DEF There
    <3>4. \A t : Thread(t) \subseteq There
      BY DEF Thread
    <3> QED BY <2>20, <3>1, <3>2, <3>3, <3>4 DEF Careful
  <2>24. \A b \in Actions : action'[b].undone => action[b].undone
    BY <2>8, <2>12
  <2> QED BY <2>16, <2>17, <2>18, <2>19, <2>21, <2>22, <2>23, <2>24 DEF MailInv
<1> QED BY <1>3, <1>4

\* What an undo does to the messages it touches.
TakesBack(a) ==
  \A m \in Mails : mail'[m].rev # mail[m].rev => moved[m] = [by |-> a, from |-> Place(m)']

\* An action is undone.
LEMMA UndoStep ==
  ASSUME MailInv, NEW h \in Hands, Undo(h)
  PROVE  /\ MailInv' /\ \A n \in Mails : mail'[n].category = mail[n].category
         /\ \A a \in Actions : action'[a].undone /\ ~action[a].undone => TakesBack(a)
<1>0. /\ mail \in [Mails -> Row] /\ moved \in [Mails -> Moves] /\ hand \in [Hands -> Hand]
      /\ action \in [Actions -> Entry]
  BY DEF MailInv, Typed
<1>1. /\ UNCHANGED <<job, rule, pref, asked, applied, during, overlap>>
      /\ hand' = [hand EXCEPT ![h] = Free]
  BY DEF Undo, Rest
<1> DEFINE a == hand[h].act
           ids == IF action[a].undone THEN {}
                  ELSE {i.mail : i \in {i \in action[a].items : mail[i.mail].rev = i.rev}} \cap There
<1>2. a \in Actions /\ action[a].kind \in Cleanups /\ action[a] \in Entry
  BY <1>0 DEF Undo, MailInv, HandsKnow, Entry
<1>3. /\ mail' = [m \in Mails |->
           IF m \in ids
           THEN [Restored(action[a].kind, mail[m], ItemOf(a, m).was) EXCEPT !.rev = @ + 1]
           ELSE mail[m]]
      /\ moved' = [m \in Mails |-> IF m \in ids THEN Unmoved ELSE moved[m]]
      /\ action' = [action EXCEPT ![a].undone = TRUE]
  BY DEF Undo
<1>4. ASSUME NEW m \in Mails, m \in ids
      PROVE  /\ ItemOf(a, m).was \in Places /\ ~action[a].undone
             /\ moved[m] = [by |-> a, from |-> ItemOf(a, m).was]
             /\ Fits(action[a].kind, mail[m], ItemOf(a, m).was)
  <2>1. PICK i \in action[a].items : i.mail = m /\ mail[m].rev = i.rev
    BY <1>4
  <2>2. \A j \in action[a].items : j.mail = m => j = i
    BY <1>2, <2>1 DEF MailInv, ItemsHold
  <2>3. ItemOf(a, m) = i
    BY <2>1, <2>2 DEF ItemOf
  <2>4. i.was \in Places
    BY <1>2, <2>1 DEF Entry, Item, Places
  <2>5. mail[m].there /\ ~action[a].undone
    BY <1>4 DEF There
  <2>6. Describes(a, i)
    BY <1>2, <2>1 DEF MailInv, ItemsHold
  <2> QED BY <2>1, <2>3, <2>4, <2>5, <2>6 DEF Describes
<1>5. ids \subseteq There /\ ids \subseteq Mails
  BY DEF There
<1> HIDE DEF ids, a
<1>6. ASSUME NEW m \in Mails, m \in ids
      PROVE  mail'[m] \in Row /\ Shifted(m) /\ Place(m)' = ItemOf(a, m).was
  <2> DEFINE was == ItemOf(a, m).was
             y == Restored(action[a].kind, mail[m], was)
             x == [y EXCEPT !.rev = y.rev + 1]
  <2>1. mail[m] \in Row /\ was \in Places /\ Fits(action[a].kind, mail[m], was)
    BY <1>0, <1>4, <1>6
  <2>2. /\ y \in Row /\ Alike(y, mail[m]) /\ y.archived = was.archived
        /\ y.trashed = was.trashed /\ y.snoozed = was.snoozed
    <3> HIDE DEF was
    <3> QED BY <1>2, <2>1, RestoredRow
  <2>3. mail'[m] = x
    BY <1>3, <1>6
  <2> HIDE DEF y
  <2>4. y.rev \in Nat /\ y.rev + 1 \in Nat
    BY <2>2 DEF Row
  <2>5. /\ x \in Row /\ x.rev = y.rev + 1 /\ x.there = y.there /\ x.thread = y.thread
        /\ x.category = y.category /\ x.archived = y.archived
        /\ x.trashed = y.trashed /\ x.snoozed = y.snoozed
    BY <2>2, <2>4, RowUpdates
  <2> HIDE DEF x, was
  <2>6. was = [archived |-> was.archived, trashed |-> was.trashed, snoozed |-> was.snoozed]
    BY <2>1 DEF Places
  <2>7. Place(m)' = was
    BY <2>2, <2>3, <2>5, <2>6 DEF Place
  <2> QED BY <2>2, <2>3, <2>5, <2>7 DEF Shifted, Alike, was
<1>7. \A n \in Mails : n \notin ids => Same(n)
  BY <1>3 DEF Same
<1>8. mail' \in [Mails -> Row] /\ moved' \in [Mails -> Moves]
  <2>1. \A n \in Mails : mail'[n] \in Row
    BY <1>0, <1>6, <1>7 DEF Same
  <2>2. Unmoved \in Moves
    BY DEF Moves
  <2> QED BY <1>0, <1>3, <2>1, <2>2
<1>9. /\ action' \in [Actions -> Entry]
      /\ \A b \in Actions : b # a => action'[b] = action[b]
      /\ action'[a].undone /\ action'[a].kind = action[a].kind /\ action'[a].items = action[a].items
  <2> DEFINE e == [action[a] EXCEPT !.undone = TRUE]
  <2>1. /\ e \in Entry /\ e.undone /\ e.kind = action[a].kind /\ e.items = action[a].items
    BY <1>2 DEF Entry
  <2>2. action' = [action EXCEPT ![a] = e]
    BY <1>0, <1>3
  <2> HIDE DEF e
  <2> QED BY <1>0, <1>2, <2>1, <2>2
<1>10. /\ hand' \in [Hands -> Hand]
       /\ \A g \in Hands : hand'[g] = hand[g] \/ hand'[g].pc = "idle"
  BY <1>0, <1>1, FreeHand
<1>11. Typed'
  BY <1>1, <1>8, <1>9, <1>10 DEF MailInv, Typed
<1>12. HandsKnow'
  BY <1>9, <1>10 DEF MailInv, HandsKnow
<1>13. OnRecord'
  BY <1>1, <1>2, <1>9 DEF MailInv, OnRecord, Cleanups
<1>14. \A n \in Mails : /\ Same(n) \/ Shifted(n)
                        /\ mail'[n].there = mail[n].there /\ mail'[n].thread = mail[n].thread
                        /\ mail'[n].category = mail[n].category
  BY <1>6, <1>7 DEF Same, Shifted
<1>15. There' = There /\ \A n \in Mails : Stored(n)' = Stored(n)
  BY <1>1, <1>14 DEF There, Stored
<1>16. ItemsHold'
  <2>1. \A n \in Mails : mail'[n].there => Stored(n)'
    BY <1>14, <1>15 DEF MailInv, ItemsHold
  <2>2. ASSUME NEW b \in Actions, NEW i \in action[b].items
        PROVE  Stored(i.mail)' /\ Describes(b, i)'
    <3>1. i.mail \in Mails /\ i.rev \in Nat /\ mail[i.mail].rev \in Nat
      BY <1>0, <2>2 DEF Entry, Item, Row
    <3>2. Stored(i.mail) /\ Describes(b, i)
      BY <2>2 DEF MailInv, ItemsHold
    <3>3. action'[b].kind = action[b].kind /\ (~action'[b].undone => ~action[b].undone)
      BY <1>9
    <3>4. CASE Same(i.mail)
      BY <1>15, <3>1, <3>2, <3>3, <3>4 DEF Describes, Same
    <3>5. CASE Shifted(i.mail)
      BY <1>15, <3>1, <3>2, <3>5 DEF Describes, Shifted
    <3> QED BY <1>14, <3>1, <3>4, <3>5
  <2>3. \A b \in Actions : action'[b].items = action[b].items
    BY <1>9
  <2> QED BY <2>1, <2>2, <2>3 DEF MailInv, ItemsHold
<1>17. OneThread'
  BY <1>1, <1>14, <1>15 DEF MailInv, OneThread, There
<1>18. \A j \in Mails : Careful(j)'
  <2>1. \A j \in Mails : Careful(j) /\ job'[j] = job[j] /\ during' = during
    BY <1>1 DEF MailInv
  <2>2. \A t : Thread(t)' = Thread(t)
    BY <1>14 DEF Thread, There
  <2>3. \A n \in There : mail'[n].category = mail[n].category
    BY <1>14 DEF There
  <2>4. \A t : Thread(t) \subseteq There
    BY DEF Thread
  <2> QED BY <1>15, <2>1, <2>2, <2>3, <2>4 DEF Careful
<1>19. ASSUME NEW b \in Actions, action'[b].undone /\ ~action[b].undone
       PROVE  TakesBack(b)
  <2>1. b = a
    BY <1>9, <1>19
  <2>2. \A m \in Mails : mail'[m].rev # mail[m].rev => m \in ids
    BY <1>7 DEF Same
  <2> QED BY <1>4, <1>6, <2>1, <2>2 DEF TakesBack
<1> QED BY <1>11, <1>12, <1>13, <1>14, <1>16, <1>17, <1>18, <1>19 DEF MailInv

-----------------------------------------------------------------------------
(* Every step *)

\* An empty mailbox satisfies the invariant.
LEMMA MailBegins == MailInit => MailInv
<1> SUFFICES ASSUME MailInit PROVE MailInv
  OBVIOUS
<1>1. /\ NoMail \in Row /\ ~NoMail.there /\ NoJob \in Job /\ NoJob.pc = "out"
      /\ Unmoved \in Moves
  BY DEF NoMail, Row, NoJob, Job, Sources, Moves
<1> DEFINE e == [kind |-> "none", items |-> {}, undone |-> FALSE]
<1>2. e \in Entry /\ e.kind = "none" /\ e.items = {} /\ ~e.undone
  BY DEF Entry
<1> HIDE DEF e
<1>3. /\ mail = [m \in Mails |-> NoMail] /\ action = [a \in Actions |-> e]
      /\ job = [m \in Mails |-> NoJob] /\ hand = [h \in Hands |-> Free]
      /\ moved = [m \in Mails |-> Unmoved] /\ applied = [a \in Actions |-> 0]
      /\ rule \in BOOLEAN /\ pref = "none" /\ asked = 0 /\ during = {} /\ overlap = FALSE
  BY DEF MailInit, e
<1>4. Typed
  <2>1. /\ mail \in [Mails -> Row] /\ action \in [Actions -> Entry] /\ job \in [Mails -> Job]
    BY <1>1, <1>2, <1>3
  <2>2. hand \in [Hands -> Hand] /\ moved \in [Mails -> Moves] /\ applied \in [Actions -> Nat]
    BY <1>1, <1>3, FreeHand
  <2>3. asked \in 0..MaxRequests
    BY <1>3, MailboxAssumption
  <2>4. /\ during \subseteq Mails /\ overlap \in BOOLEAN /\ rule \in BOOLEAN
        /\ pref \in {"none", "spam", "safe"}
    BY <1>3
  <2> QED BY <2>1, <2>2, <2>3, <2>4 DEF Typed
<1>5. HandsKnow
  BY <1>3, FreeHand DEF HandsKnow
<1>6. OnRecord
  BY <1>2, <1>3 DEF OnRecord
<1>7. ItemsHold
  BY <1>1, <1>2, <1>3 DEF ItemsHold
<1>8. OneThread
  BY <1>1, <1>3 DEF OneThread, There
<1>9. \A j \in Mails : Careful(j)
  BY <1>1, <1>3 DEF Careful
<1> QED BY <1>4, <1>5, <1>6, <1>7, <1>8, <1>9 DEF MailInv

\* Messages whose category the step takes from the user.
Overruled == {n \in Mails : mail[n].category = "user" /\ mail'[n].category = "auto"}

\* Each step keeps the invariant, takes back only what is its own to take back, and replaces a
\* category by the judge's only where a judgement is written.
LEMMA MailStep ==
  ASSUME MailInv, MailNext
  PROVE  /\ MailInv'
         /\ \A a \in Actions : action'[a].undone /\ ~action[a].undone => TakesBack(a)
         /\ Overruled = {} \/ \E m \in Mails : Persist(m)
<1>1. ASSUME NEW m \in Mails, Resolve(m) \/ ReadRow(m) \/ ReadContext(m) \/ Judge(m)
      PROVE  MailInv' /\ UNCHANGED <<mail, action>>
  BY <1>1, ResolveStep, ReadStep, JudgeStep DEF Resolve, ReadRow, ReadContext, Judge
<1>2. ASSUME NEW m \in Mails, Insert(m)
      PROVE  MailInv' /\ UNCHANGED action /\ Overruled = {}
  BY <1>2, InsertStep DEF Overruled, Insert
<1>3. ASSUME NEW m \in Mails, Unarchive(m)
      PROVE  MailInv' /\ UNCHANGED action /\ Overruled = {}
  BY <1>3, UnarchiveStep DEF Overruled, Unarchive
<1>4. ASSUME NEW m \in Mails, Persist(m)
      PROVE  MailInv' /\ UNCHANGED action
  BY <1>4, PersistStep DEF Persist
<1>5. ASSUME NEW h \in Hands, Serve(h), ~Apply(h), ~Undo(h)
      PROVE  MailInv' /\ UNCHANGED action /\ Overruled = {}
  <2>1. CASE \/ \E kind \in Cleanups, m \in Mails, a \in Actions : AskCleanup(h, kind, m, a)
             \/ \E kind \in Flags, m \in Mails : AskFlags(h, kind, m)
             \/ \E a \in Actions : AskUndo(h, a)
             \/ AskEmpty(h)
    BY <2>1, AsksStep DEF Overruled
  <2>2. CASE Lookup(h) \/ Remember(h)
    BY <2>2, LookupStep DEF Overruled
  <2>3. CASE SetFlags(h)
    BY <2>3, FlagsStep DEF Overruled
  <2>4. CASE Destroy(h)
    BY <2>4, DestroyStep DEF Overruled
  <2> QED BY <1>5, <2>1, <2>2, <2>3, <2>4 DEF Serve
<1>6. ASSUME NEW h \in Hands, Apply(h)
      PROVE  /\ MailInv' /\ Overruled = {}
             /\ \A a \in Actions : action'[a].undone => action[a].undone
  BY <1>6, ApplyStep DEF Overruled
<1>7. ASSUME NEW h \in Hands, Undo(h)
      PROVE  /\ MailInv' /\ Overruled = {}
             /\ \A a \in Actions : action'[a].undone /\ ~action[a].undone => TakesBack(a)
  BY <1>7, UndoStep DEF Overruled
<1>8. CASE Wake
  BY <1>8, WakeStep DEF Overruled
<1>9. CASE \E m \in Mails : Receive(m)
  BY <1>1, <1>2, <1>3, <1>4, <1>9 DEF Receive, Overruled
<1>10. CASE \E h \in Hands : Serve(h)
  BY <1>5, <1>6, <1>7, <1>10
<1> QED BY <1>8, <1>9, <1>10 DEF MailNext

\* A step that changes nothing keeps the invariant.
LEMMA MailStutter == MailInv /\ UNCHANGED mailVars => MailInv'
<1> SUFFICES ASSUME MailInv, UNCHANGED mailVars PROVE MailInv'
  OBVIOUS
<1>1. /\ UNCHANGED <<mail, action, job, hand, rule, pref, asked, moved, applied, during, overlap>>
      /\ \A n \in Mails : Same(n)
  BY DEF mailVars, mailHistory, Same
<1>2. Typed' /\ HandsKnow'
  BY <1>1 DEF MailInv, Typed, HandsKnow
<1>3. \A j \in Mails : Stored(j) => Stored(j)'
  BY <1>1 DEF Stored
<1> QED BY <1>1, <1>2, <1>3, KeepStep

\* The invariant holds in every reachable state.
LEMMA MailInvariant == MailSpec => []MailInv
<1>1. MailInit => MailInv
  BY MailBegins
<1>2. MailInv /\ [MailNext]_mailVars => MailInv'
  BY MailStep, MailStutter
<1> QED BY <1>1, <1>2, PTL DEF MailSpec

\* Every variable of the mailbox keeps its type.
THEOREM MailTypeCorrect == MailSpec => []MailTypeOK
<1>1. MailInv => MailTypeOK
  BY DEF MailInv, Typed, MailTypeOK, Entry, Job, Hand
<1> QED BY <1>1, MailInvariant, PTL

\* A request id is carried out once, whatever the retries: the row of mail_action_history and
\* the moves are one batch.
THEOREM AppliesOnce == MailSpec => []AppliedOnce
<1>1. MailInv => AppliedOnce
  BY DEF MailInv, OnRecord, AppliedOnce
<1> QED BY <1>1, MailInvariant, PTL

\* Conversations split only when two arrivals looked for theirs side by side.
THEOREM ConversationsHold == MailSpec => []SplitNeedsOverlap
<1>1. MailInv => SplitNeedsOverlap
  BY DEF MailInv, OneThread, SplitNeedsOverlap
<1> QED BY <1>1, MailInvariant, PTL

\* An undo touches only what its action was the last to move, and puts it where it was.
THEOREM UndoIsExact == MailSpec => UndoTakesBackOnlyItsOwn
<1>1. MailInv /\ [MailNext]_mailVars =>
        [\A a \in Actions : action'[a].undone /\ ~action[a].undone =>
           \A m \in Mails : mail'[m].rev # mail[m].rev
                              => moved[m] = [by |-> a, from |-> Place(m)']]_mailVars
  BY MailStep DEF TakesBack
<1> QED BY <1>1, MailInvariant, PTL DEF MailSpec, UndoTakesBackOnlyItsOwn

\* The judge overrules the user only with a judgement that the user overtook.
THEOREM ChoicesHold == MailSpec => ChoiceLostOnlyInFlight
<1>1. ASSUME MailInv, MailNext, NEW n \in Mails,
             mail[n].category = "user" /\ mail'[n].category = "auto"
      PROVE  \E j \in during : job[j].pc = "write" /\ job'[j].pc = "done"
  <2>1. PICK j \in Mails : Persist(j)
    BY <1>1, MailStep DEF Overruled
  <2>2. job[j].pc = "write" /\ job'[j].pc = "done"
    BY <1>1, <2>1, Columns DEF Persist, NoJob
  <2>3. mail \in [Mails -> Row] /\ mail[n] \in Row
    BY <1>1, Columns
  <2>4. job[j].verdict = "auto" /\ n \in job[j].ids \cap There
    <3>1. CASE job[j].verdict = "spam"
      <4>1. mail'[n] = IF n \in job[j].ids \cap There
                       THEN [mail[n] EXCEPT !.spam = TRUE, !.archived = FALSE, !.rev = mail[n].rev + 1]
                       ELSE mail[n]
        BY ZenonT(40), <2>1, <2>3, <3>1 DEF Persist, Move
      <4>2. mail'[n].category = mail[n].category
        BY <2>3, <4>1 DEF Row
      <4> QED BY <1>1, <4>2
    <3>2. CASE job[j].verdict # "spam"
      <4>1. mail'[n] = IF n \in job[j].ids \cap There
                       THEN [mail[n] EXCEPT !.category = job[j].verdict] ELSE mail[n]
        BY <2>1, <3>2 DEF Persist
      <4>2. [mail[n] EXCEPT !.category = job[j].verdict].category = job[j].verdict
        BY <2>3 DEF Row
      <4> QED BY <1>1, <4>1, <4>2
    <3> QED BY <3>1, <3>2
  <2>5. Careful(j)
    BY <1>1 DEF MailInv
  <2> QED BY <1>1, <2>2, <2>4, <2>5 DEF Careful
<1>2. MailInv /\ [MailNext]_mailVars =>
        [\A m \in Mails : mail[m].category = "user" /\ mail'[m].category = "auto" =>
           \E j \in during : job[j].pc = "write" /\ job'[j].pc = "done"]_mailVars
  BY <1>1
<1> QED BY <1>2, MailInvariant, PTL DEF MailSpec, ChoiceLostOnlyInFlight

=============================================================================
