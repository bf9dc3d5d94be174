-------------------------- MODULE OutboxSentProofs --------------------------
(***************************************************************************)
(* The Sent folder tells the truth: SentFolderTellsTheTruth holds for any  *)
(* number of keys, invocations, crashes and late writers, and for any      *)
(* lease, window and scheduling.                                           *)
(*                                                                         *)
(* The property is not inductive.  That the stored row shows what the      *)
(* provider was given holds because the fingerprint, once reserved, is     *)
(* what every later saver carries and what the payload holds, and because  *)
(* "prepared" is set only after the row and its attachments are stored.    *)
(*                                                                         *)
(* The second part is about the row's status: SentRowShowsReport holds     *)
(* whatever order acceptance and reports are recorded in.                  *)
(***************************************************************************)
EXTENDS OutboxProofs

Exists(k) == job[k].state # "none"
Stored(k) == email[k].status # "none"

\* What the rows and objects of a key say of each other.
KeyInv(k) ==
  /\ ~Exists(k) => ~job[k].prepared /\ ~Stored(k) /\ payload[k] = None
  /\ ~Stored(k) => email[k].id = None
  /\ Stored(k) => email[k].content = job[k].content
  /\ payload[k] # None => payload[k] = job[k].content
  /\ job[k].prepared => Stored(k) /\ k \in files
  /\ copies[k] > 0 => job[k].prepared
  /\ mailed[k] = IF copies[k] = 0 THEN {} ELSE {job[k].content}

\* What an invocation may rely on at each step.
ProcInv(i) ==
  /\ i.pc \in SavingSteps \cup {"select", "claim", "rearm"} => Exists(i.cur)
  /\ i.pc \in SavingSteps \cup {"claim"} => i.want = job[i.cur].content
  /\ i.pc \in {"link", "files", "commit"} => Stored(i.cur)
  /\ i.pc = "commit" => i.cur \in files
  /\ i.pc \in DeliverSteps \ {"read"} => Exists(i.cur) /\ job[i.cur].prepared
  /\ i.pc \in {"begin", "send"} => i.want = job[i.cur].content
  /\ i.pc = "recant" => Exists(i.cur) /\ job[i.cur].prepared
  /\ i.pc = "expire" => \A k \in i.todo : Exists(k)

SentInv == (\A k \in Keys : KeyInv(k)) /\ (\A p \in Procs : ProcInv(inv[p]))
IInv == TypeInv /\ SentInv

\* What no step takes back.
Kept(k) ==
  /\ Exists(k) => Exists(k)' /\ job'[k].content = job[k].content
  /\ job[k].prepared => job'[k].prepared
  /\ Stored(k) => Stored(k)'
  /\ k \in files => k \in files'

KeysKept == \A k \in Keys : Kept(k) /\ KeyInv(k)'

\* What an invocation relies on is never taken from it.
LEMMA Relied ==
  ASSUME NEW i, ProcInv(i), i.pc \in KeySteps => Kept(i.cur), \A k \in i.todo : Kept(k)
  PROVE  ProcInv(i)'
<1>1. SavingSteps \cup {"select", "claim", "rearm", "recant"} \cup DeliverSteps \subseteq KeySteps
  BY DEF KeySteps, EnqueueSteps
<1>2. /\ {"link", "files", "commit"} \subseteq SavingSteps
      /\ {"begin", "send"} \subseteq DeliverSteps \ {"read"}
  BY DEF SavingSteps, DeliverSteps
<1>3. /\ i.pc \in SavingSteps \cup {"select", "claim", "rearm"} => Exists(i.cur)'
      /\ i.pc \in SavingSteps \cup {"claim"} => i.want = job'[i.cur].content
  BY <1>1 DEF Kept, ProcInv
<1>4. /\ i.pc \in {"link", "files", "commit"} => Stored(i.cur)'
      /\ i.pc = "commit" => i.cur \in files'
  BY <1>1, <1>2 DEF Kept, ProcInv
<1>5. i.pc \in DeliverSteps \ {"read"} => Exists(i.cur)' /\ job'[i.cur].prepared
  BY <1>1 DEF Kept, ProcInv
<1>6. i.pc \in {"begin", "send"} => i.want = job'[i.cur].content
  BY <1>1, <1>2 DEF Kept, ProcInv
<1>7. i.pc = "expire" => \A k \in i.todo : Exists(k)'
  BY DEF Kept, ProcInv
<1>8. i.pc = "recant" => Exists(i.cur)' /\ job'[i.cur].prepared
  BY <1>1 DEF Kept, ProcInv
<1> QED
  BY <1>3, <1>4, <1>5, <1>6, <1>7, <1>8 DEF ProcInv, Exists, Stored

\* After a step of p, the other invocations still have what they rely on.
LEMMA Others ==
  ASSUME IInv, KeysKept, NEW p \in Procs, NEW i, inv' = [inv EXCEPT ![p] = i], ProcInv(i)'
  PROVE  SentInv'
<1>1. ASSUME NEW q \in Procs PROVE ProcInv(inv[q])'
  <2>1. CASE q = p
    BY <2>1 DEF IInv, TypeInv, TypeOK
  <2>2. CASE q # p
    <3>1. PICK j : j = inv[q]
      OBVIOUS
    <3>2. inv'[q] = j /\ ProcInv(j) /\ j \in Invocation /\ Located(j)
      BY <2>2, <3>1 DEF IInv, SentInv, TypeInv, TypeOK
    <3>3. j.pc \in KeySteps => Kept(j.cur)
      BY <3>2 DEF KeysKept, Located
    <3>4. \A k \in j.todo : Kept(k)
      BY <3>2 DEF KeysKept, Invocation
    <3>5. ProcInv(j)'
      BY <3>2, <3>3, <3>4, Relied
    <3> QED
      BY <3>2, <3>5 DEF ProcInv, Exists, Stored
  <2> QED BY <2>1, <2>2
<1> QED BY <1>1 DEF SentInv, KeysKept

\* An invocation that only reads leaves the rows and objects as they were.
LEMMA Quiet ==
  ASSUME IInv, UNCHANGED <<job, email, payload, files, provider>>
  PROVE  KeysKept
BY DEF IInv, SentInv, KeysKept, Kept, KeyInv, Exists, Stored, provider

\* Moving on within a job: what the next step relies on must hold after this one.
LEMMA GotoSent ==
  ASSUME IInv, KeysKept, NEW p \in Procs,
         NEW step \in Steps \ {"select", "rearm", "expire", "begin"},
         Goto(p, step),
         step \in SavingSteps \cup {"claim"} =>
           job'[Cur(p)].state # "none" /\ inv[p].want = job'[Cur(p)].content,
         step \in {"link", "files", "commit"} => email'[Cur(p)].status # "none",
         step = "commit" => Cur(p) \in files',
         step \in (DeliverSteps \ {"read"}) \cup {"recant"} =>
           job'[Cur(p)].state # "none" /\ job'[Cur(p)].prepared,
         step = "send" => inv[p].want = job'[Cur(p)].content
  PROVE  SentInv'
<1>1. PICK i : i = [inv[p] EXCEPT !.pc = step]
  OBVIOUS
<1>2. inv[p] \in Invocation
  BY DEF IInv, TypeInv, TypeOK
<1>3. i.pc = step /\ i.cur = Cur(p) /\ i.want = inv[p].want
  BY <1>1, <1>2 DEF Invocation, Cur
<1>4. ProcInv(i)'
  BY <1>3 DEF ProcInv, Exists, Stored
<1>5. inv' = [inv EXCEPT ![p] = i]
  BY <1>1 DEF Goto
<1> QED
  BY <1>4, <1>5, Others

\* An invocation that ends relies on nothing.
LEMMA DoneSent ==
  ASSUME IInv, KeysKept, NEW p \in Procs, Done(p)
  PROVE  SentInv'
<1>1. ProcInv(Idle)'
  BY DEF ProcInv, Idle, SavingSteps, DeliverSteps
<1> QED
  BY <1>1, Others DEF Done

\* deliverOutboxJob starts from the job's id alone and relies on nothing yet.
LEMMA DeliverSent ==
  ASSUME IInv, KeysKept, NEW p \in Procs, Deliver(p)
  PROVE  SentInv'
<1>1. PICK i : i = [Idle EXCEPT !.pc = "read", !.cur = Cur(p), !.age = inv[p].age,
                                !.agent = inv[p].agent]
  OBVIOUS
<1>2. i.pc = "read"
  BY <1>1 DEF Idle
<1>3. ProcInv(i)'
  BY <1>2 DEF ProcInv, SavingSteps, DeliverSteps
<1> QED
  BY <1>1, <1>3, Others DEF Deliver

\* Back in flushOutbox's loop, or at the end of the request, nothing is relied on.
LEMMA LeaveSent ==
  ASSUME IInv, KeysKept, NEW p \in Procs, Leave(p)
  PROVE  SentInv'
<1>1. PICK i : i = [Idle EXCEPT !.pc = "next", !.flush = TRUE, !.age = inv[p].age,
                                !.agent = inv[p].agent, !.todo = inv[p].todo]
  OBVIOUS
<1>2. i.pc = "next"
  BY <1>1 DEF Idle
<1>3. ProcInv(i)'
  BY <1>2 DEF ProcInv, SavingSteps, DeliverSteps
<1> QED
  BY <1>1, <1>3, Others, DoneSent DEF Leave

\* setState is called for prepared jobs; it makes no row and unprepares none.
LEMMA ToStateSent ==
  ASSUME IInv, KeysKept, NEW p \in Procs, NEW step \in {"refuse", "settle"}, NEW r, NEW state,
         ToState(p, step, r, state),
         job'[Cur(p)].state # "none" /\ job'[Cur(p)].prepared
  PROVE  SentInv'
<1>1. PICK i : i = [inv[p] EXCEPT !.pc = step, !.want = None, !.verdict = state,
                                  !.seen = [inv[p].seen EXCEPT ![Cur(p)] = r]]
  OBVIOUS
<1>2. inv[p] \in Invocation
  BY DEF IInv, TypeInv, TypeOK
<1>3. i.pc = step /\ i.cur = Cur(p)
  BY <1>1, <1>2 DEF Invocation, Cur
<1>4. ProcInv(i)'
  BY <1>3 DEF ProcInv, Exists, SavingSteps
<1>5. inv' = [inv EXCEPT ![p] = i]
  BY <1>1 DEF ToState
<1> QED
  BY <1>4, <1>5, Others

\* setState changes states and statuses only: content, preparation and rows stay as they were.
LEMMA SetStateKeeps ==
  ASSUME IInv, NEW k \in Keys, NEW r \in JobRow, NEW state \in Verdicts, Exists(k),
         SetState(k, r, state), UNCHANGED <<payload, files, provider>>
  PROVE  KeysKept
<1>1. ASSUME NEW j \in Keys
      PROVE  /\ job'[j].content = job[j].content /\ job'[j].prepared = job[j].prepared
             /\ (job'[j].state = "none") <=> (job[j].state = "none")
  BY DEF SetState, IInv, TypeInv, TypeOK, JobRow, Exists, Verdicts
<1>2. ASSUME NEW j \in Keys
      PROVE  /\ email'[j].content = email[j].content /\ email'[j].id = email[j].id
             /\ (email'[j].status = "none") <=> (email[j].status = "none")
  BY DEF SetState, IInv, TypeInv, TypeOK, EmailRow, Unsettled, Verdicts
<1> QED
  BY <1>1, <1>2 DEF IInv, SentInv, KeysKept, Kept, KeyInv, Exists, Stored, provider

\* So does the catch block of enqueueOutbound.
LEMMA NotSavedKeeps ==
  ASSUME IInv, NEW k \in Keys, Exists(k), WriteNotSaved(k), UNCHANGED <<payload, files, provider>>
  PROVE  KeysKept
<1>1. ASSUME NEW j \in Keys
      PROVE  /\ job'[j].content = job[j].content /\ job'[j].prepared = job[j].prepared
             /\ (job'[j].state = "none") <=> (job[j].state = "none")
  BY DEF WriteNotSaved, IInv, TypeInv, TypeOK, JobRow, Exists
<1>2. ASSUME NEW j \in Keys
      PROVE  /\ email'[j].content = email[j].content /\ email'[j].id = email[j].id
             /\ (email'[j].status = "none") <=> (email[j].status = "none")
  BY DEF WriteNotSaved, IInv, TypeInv, TypeOK, EmailRow
<1> QED
  BY <1>1, <1>2 DEF IInv, SentInv, KeysKept, Kept, KeyInv, Exists, Stored, provider

\* Where an invocation that works on a key stands.
LEMMA Standing ==
  ASSUME IInv, NEW p \in Procs, inv[p].pc \in KeySteps
  PROVE  /\ Cur(p) \in Keys /\ Cur(p) = inv[p].cur /\ ProcInv(inv[p]) /\ KeyInv(Cur(p))
         /\ Row(p) \in JobRow /\ job[Cur(p)] \in JobRow /\ email[Cur(p)] \in EmailRow
BY AtHand DEF IInv, SentInv, Cur

\* finalizeAccepted may start once the job is accepted and its Sent row exists.
LEMMA FinalSent ==
  ASSUME IInv, KeysKept, NEW p \in Procs, NEW step \in {"final", "fetch"}, NEW r,
         inv' = [inv EXCEPT ![p].pc = step, ![p].seen[Cur(p)] = r],
         job'[Cur(p)].state # "none" /\ job'[Cur(p)].prepared
  PROVE  SentInv'
<1>1. PICK i : i = [inv[p] EXCEPT !.pc = step, !.seen = [inv[p].seen EXCEPT ![Cur(p)] = r]]
  OBVIOUS
<1>2. inv[p] \in Invocation /\ inv' = [inv EXCEPT ![p] = i]
  BY <1>1 DEF IInv, TypeInv, TypeOK, Invocation
<1>3. i.pc = step /\ i.cur = Cur(p)
  BY <1>1, <1>2 DEF Invocation, Cur
<1>4. ProcInv(i)'
  BY <1>3 DEF ProcInv, Exists, SavingSteps
<1> QED
  BY <1>2, <1>4, Others

\* Every step keeps what the Sent folder's truth rests on.
THEOREM SentStep == IInv /\ Next => SentInv'
<1> SUFFICES ASSUME IInv, Next PROVE SentInv'
  OBVIOUS
<1> TypeInv
  BY DEF IInv
<1>1. ASSUME NEW p \in Procs, Reserve(p) PROVE SentInv'
  <2>1. inv[p].pc \in KeySteps
    BY <1>1 DEF Reserve, At, KeySteps, EnqueueSteps, SavingSteps, DeliverSteps
  <2>2. KeysKept
    BY SMTT(30), <1>1, <2>1, Standing
       DEF Reserve, At, SavingSteps, DeliverSteps, IInv, TypeInv, TypeOK, SentInv, KeysKept, Kept,
         KeyInv, ProcInv, Exists, Stored, provider, NewJob, NoJob
  <2> QED
    <3>1. PICK i : i = [inv[p] EXCEPT !.pc = "select", !.flag = (job[Cur(p)].state = "none")]
      OBVIOUS
    <3>2. i.pc = "select" /\ i.cur = Cur(p) /\ inv' = [inv EXCEPT ![p] = i]
      BY <1>1, <3>1 DEF Reserve, Cur, IInv, TypeInv, TypeOK, Invocation
    <3>3. job'[Cur(p)].state # "none"
      BY <1>1, <2>1, Standing DEF Reserve, NewJob, NoJob, IInv, TypeInv, TypeOK
    <3>4. ProcInv(i)'
      BY <3>2, <3>3 DEF ProcInv, Exists, SavingSteps, DeliverSteps
    <3> QED
      BY <2>2, <3>2, <3>4, Others
<1>2. ASSUME NEW p \in Procs, Select(p) PROVE SentInv'
  <2>1. inv[p].pc \in KeySteps
    BY <1>2 DEF Select, At, KeySteps, EnqueueSteps, SavingSteps, DeliverSteps
  <2>2. KeysKept
    BY <1>2, Quiet DEF Select, provider
  <2> QED
    BY <1>2, <2>1, <2>2, Standing, GotoSent, DeliverSent, DoneSent
       DEF Select, At, ProcInv, KeyInv, Exists, Stored, Steps, KeySteps, EnqueueSteps,
         SavingSteps, DeliverSteps, Enqueued
<1>3. ASSUME NEW p \in Procs, Claim(p) PROVE SentInv'
  <2>1. inv[p].pc \in KeySteps
    BY <1>3 DEF Claim, At, KeySteps, EnqueueSteps, SavingSteps, DeliverSteps
  <2>2. KeysKept
    BY SMTT(60), <1>3, <2>1, Standing
       DEF Claim, At, SavingSteps, DeliverSteps, IInv, TypeInv, TypeOK, SentInv, KeysKept, Kept,
         KeyInv, ProcInv, Exists, Stored, provider, JobRow
  <2> QED
    <3>1. Exists(Cur(p)) /\ inv[p].want = job[Cur(p)].content
      BY <1>3, <2>1, Standing DEF Claim, At, ProcInv
    <3>2. job'[Cur(p)].state # "none" /\ inv[p].want = job'[Cur(p)].content
      BY <2>1, <2>2, <3>1, Standing DEF KeysKept, Kept, Exists
    <3> QED
      BY <1>3, <2>2, <3>2, GotoSent, DoneSent
         DEF Claim, Steps, EnqueueSteps, SavingSteps, DeliverSteps
<1>4. ASSUME NEW p \in Procs, Put(p) PROVE SentInv'
  <2>1. inv[p].pc \in KeySteps
    BY <1>4 DEF Put, At, KeySteps, EnqueueSteps, SavingSteps, DeliverSteps
  <2>2. KeysKept
    <3>1. Exists(Cur(p)) /\ inv[p].want = job[Cur(p)].content
      BY <1>4, <2>1, Standing DEF Put, At, ProcInv, SavingSteps, Exists
    <3>2. ASSUME NEW k \in Keys PROVE payload'[k] = IF k = Cur(p) THEN inv[p].want ELSE payload[k]
      BY <1>4 DEF Put, IInv, TypeInv, TypeOK
    <3> QED
      BY SMTT(30), <1>4, <2>1, <3>1, <3>2, Standing
         DEF Put, IInv, SentInv, KeysKept, Kept, KeyInv, Exists, Stored, provider
  <2> QED
    BY <1>4, <2>1, <2>2, Standing, GotoSent
       DEF Put, At, ProcInv, KeyInv, Exists, Stored, Steps, KeySteps, EnqueueSteps, SavingSteps,
         DeliverSteps
<1>5. ASSUME NEW p \in Procs, FindRow(p) PROVE SentInv'
  <2>1. inv[p].pc \in KeySteps
    BY <1>5 DEF FindRow, At, KeySteps, EnqueueSteps, SavingSteps, DeliverSteps
  <2>2. KeysKept
    BY <1>5, Quiet DEF FindRow, provider
  <2> QED
    BY <1>5, <2>1, <2>2, Standing, GotoSent
       DEF FindRow, At, ProcInv, KeyInv, Exists, Stored, Steps, KeySteps, EnqueueSteps,
         SavingSteps, DeliverSteps
<1>6. ASSUME NEW p \in Procs, InsertRow(p) PROVE SentInv'
  <2>1. inv[p].pc \in KeySteps
    BY <1>6 DEF InsertRow, At, KeySteps, EnqueueSteps, SavingSteps, DeliverSteps
  <2>2. KeysKept
    <3>1. Exists(Cur(p)) /\ inv[p].want = job[Cur(p)].content
      BY <1>6, <2>1, Standing DEF InsertRow, At, ProcInv, SavingSteps, Exists
    <3>2. CASE ~Stored(Cur(p))
      <4>1. ASSUME NEW k \in Keys
            PROVE  email'[k] = IF k = Cur(p)
                               THEN [NoEmail EXCEPT !.status = "pending", !.content = inv[p].want]
                               ELSE email[k]
        BY <1>6, <3>2 DEF InsertRow, IInv, TypeInv, TypeOK, Stored
      <4>2. ASSUME NEW k \in Keys, k = Cur(p) PROVE Kept(k) /\ KeyInv(k)'
        <5>1. email'[k].status = "pending" /\ email'[k].content = job[k].content
          BY <3>1, <4>1, <4>2 DEF NoEmail
        <5> QED
          BY <1>6, <3>1, <3>2, <4>2, <5>1, <2>1, Standing
             DEF InsertRow, Kept, KeyInv, Exists, Stored, provider
      <4>3. ASSUME NEW k \in Keys, k # Cur(p) PROVE Kept(k) /\ KeyInv(k)'
        BY <1>6, <4>1, <4>3 DEF InsertRow, IInv, SentInv, Kept, KeyInv, Exists, Stored, provider
      <4> QED
        BY <4>2, <4>3 DEF KeysKept, KeyInv, Exists, Stored
    <3>3. CASE Stored(Cur(p))
      BY <1>6, <3>3, Quiet DEF InsertRow, Stored, provider
    <3> QED
      BY <3>2, <3>3
  <2> QED
    <3>1. /\ job'[Cur(p)].state # "none" /\ inv[p].want = job'[Cur(p)].content
          /\ \/ Goto(p, "catch")
             \/ Goto(p, "link") /\ email'[Cur(p)].status # "none"
      BY ZenonT(40), <1>6, <2>1, Standing
         DEF InsertRow, At, ProcInv, SavingSteps, Exists, NoEmail, IInv, TypeInv, TypeOK
    <3> QED
      BY <2>2, <3>1, GotoSent DEF Steps, EnqueueSteps, SavingSteps, DeliverSteps
<1>7. ASSUME NEW p \in Procs, Link(p) PROVE SentInv'
  <2>1. inv[p].pc \in KeySteps
    BY <1>7 DEF Link, At, KeySteps, EnqueueSteps, SavingSteps, DeliverSteps
  <2>2. KeysKept
    BY <1>7, <2>1, Standing
       DEF Link, At, SavingSteps, DeliverSteps, IInv, TypeInv, TypeOK, SentInv, KeysKept, Kept,
         KeyInv, ProcInv, Exists, Stored, provider, JobRow
  <2> QED
    BY <1>7, <2>1, <2>2, Standing, GotoSent
       DEF Link, At, ProcInv, KeyInv, Exists, Stored, Steps, KeySteps, EnqueueSteps, SavingSteps,
         DeliverSteps, IInv, TypeInv, TypeOK, JobRow
<1>8. ASSUME NEW p \in Procs, StoreFiles(p) PROVE SentInv'
  <2>1. inv[p].pc \in KeySteps
    BY <1>8 DEF StoreFiles, At, KeySteps, EnqueueSteps, SavingSteps, DeliverSteps
  <2>2. KeysKept
    BY <1>8, <2>1, Standing
       DEF StoreFiles, At, SavingSteps, DeliverSteps, IInv, TypeInv, TypeOK, SentInv, KeysKept,
         Kept, KeyInv, ProcInv, Exists, Stored, provider
  <2> QED
    BY <1>8, <2>1, <2>2, Standing, GotoSent
       DEF StoreFiles, At, ProcInv, KeyInv, Exists, Stored, Steps, KeySteps, EnqueueSteps,
         SavingSteps, DeliverSteps
<1>9. ASSUME NEW p \in Procs, Commit(p) PROVE SentInv'
  <2>1. inv[p].pc \in KeySteps
    BY <1>9 DEF Commit, At, KeySteps, EnqueueSteps, SavingSteps, DeliverSteps
  <2>2. KeysKept
    <3>1. /\ Exists(Cur(p)) /\ Stored(Cur(p)) /\ Cur(p) \in files
      BY <1>9, <2>1, Standing DEF Commit, At, ProcInv, SavingSteps, Exists, Stored
    <3>2. ASSUME NEW k \in Keys
          PROVE  /\ job'[k].content = job[k].content
                 /\ IF k = Cur(p) THEN job'[k].prepared ELSE job'[k].prepared = job[k].prepared
                 /\ job'[k].state = IF k = Cur(p) THEN "pending" ELSE job[k].state
                 /\ email'[k].content = email[k].content /\ email'[k].id = email[k].id
                 /\ email'[k].status = IF k = Cur(p) THEN "pending" ELSE email[k].status
      <4>1. CASE k = Cur(p)
        BY <1>9, <2>1, <4>1, Standing DEF Commit, IInv, TypeInv, TypeOK, JobRow, EmailRow
      <4>2. CASE k # Cur(p)
        BY <1>9, <4>2 DEF Commit, IInv, TypeInv, TypeOK
      <4> QED BY <4>1, <4>2
    <3>3. ASSUME NEW k \in Keys PROVE Kept(k) /\ KeyInv(k)'
      <4>1. KeyInv(k) /\ UNCHANGED <<payload, files, copies, mailed>>
        BY <1>9 DEF Commit, IInv, SentInv, provider
      <4>2. CASE k = Cur(p)
        BY <3>1, <3>2, <4>1, <4>2 DEF Kept, KeyInv, Exists, Stored
      <4>3. CASE k # Cur(p)
        BY <3>2, <4>1, <4>3 DEF Kept, KeyInv, Exists, Stored
      <4> QED BY <4>2, <4>3
    <3> QED
      BY <3>3 DEF KeysKept, KeyInv, Exists, Stored
  <2> QED
    <3>1. Cur(p) \in Keys /\ job[Cur(p)] \in JobRow
      BY <2>1, Standing
    <3>2. job'[Cur(p)].state = "pending" /\ job'[Cur(p)].prepared
      BY <1>9, <3>1 DEF Commit, IInv, TypeInv, TypeOK, JobRow
    <3>3. CASE Enqueued(p)
      BY <3>3, <2>2, DeliverSent, DoneSent DEF Enqueued
    <3>4. CASE Goto(p, "recant")
      BY <3>4, <3>2, <2>2, GotoSent DEF Steps, EnqueueSteps, SavingSteps, DeliverSteps
    <3> QED BY <1>9, <3>3, <3>4 DEF Commit
<1>10. ASSUME NEW p \in Procs, Catch(p) \/ Recant(p) PROVE SentInv'
  <2>1. inv[p].pc \in KeySteps
    BY <1>10 DEF Catch, Recant, At, KeySteps, EnqueueSteps, SavingSteps, DeliverSteps
  <2>2. Exists(Cur(p)) /\ Cur(p) \in Keys
    BY <1>10, <2>1, Standing DEF Catch, Recant, At, ProcInv, SavingSteps
  <2>3. WriteNotSaved(Cur(p)) /\ UNCHANGED <<payload, files, provider>>
    BY <1>10 DEF Catch, Recant
  <2>4. KeysKept
    BY <2>2, <2>3, NotSavedKeeps
  <2> QED
    BY <1>10, <2>4, DoneSent DEF Catch, Recant
<1>11. ASSUME NEW p \in Procs, SaveFails(p) PROVE SentInv'
  <2>1. inv[p].pc \in KeySteps
    BY <1>11 DEF SaveFails, At, KeySteps, EnqueueSteps, SavingSteps, DeliverSteps
  <2>2. KeysKept
    BY <1>11, Quiet DEF SaveFails, provider
  <2> QED
    BY <1>11, <2>1, <2>2, Standing, GotoSent
       DEF SaveFails, At, ProcInv, KeyInv, Exists, Stored, Steps, KeySteps, EnqueueSteps,
         SavingSteps, DeliverSteps, MayFail
<1>12. ASSUME NEW p \in Procs, Read(p) PROVE SentInv'
  <2>1. inv[p].pc \in KeySteps
    BY <1>12 DEF Read, At, KeySteps, EnqueueSteps, SavingSteps, DeliverSteps
  <2>2. KeysKept
    BY <1>12, Quiet DEF Read, provider
  <2> QED
    BY <1>12, <2>1, <2>2, Standing, GotoSent, LeaveSent, ToStateSent, FinalSent
       DEF Read, At, ProcInv, KeyInv, Exists, Stored, Steps, KeySteps, EnqueueSteps, SavingSteps,
         DeliverSteps
<1>13. ASSUME NEW p \in Procs, LeaseJob(p) PROVE SentInv'
  <2>1. inv[p].pc \in KeySteps
    BY <1>13 DEF LeaseJob, At, KeySteps, EnqueueSteps, SavingSteps, DeliverSteps
  <2>2. KeysKept
    <3>1. ASSUME NEW k \in Keys
          PROVE  /\ job'[k].content = job[k].content /\ job'[k].prepared = job[k].prepared
                 /\ Exists(k) => job'[k].state # "none"
                 /\ ~Exists(k) => job'[k].state = "none"
      <4>1. CASE k = Cur(p)
        <5> DEFINE u == [job[k] EXCEPT !.state = "sending", !.lease = Lease,
                                       !.attempts = job[k].attempts + 1]
        <5>1. u.state = "sending" /\ u.content = job[k].content /\ u.prepared = job[k].prepared
          BY DEF IInv, TypeInv, TypeOK, JobRow
        <5>2. CASE Due(job[k])
          <6>1. job'[k] = u
            BY <1>13, <4>1, <5>2 DEF LeaseJob, IInv, TypeInv, TypeOK
          <6> HIDE DEF u
          <6> QED BY <5>1, <5>2, <6>1 DEF Due, Exists
        <5>3. CASE ~Due(job[k])
          BY <1>13, <4>1, <5>3 DEF LeaseJob, Exists
        <5> QED BY <5>2, <5>3
      <4>2. CASE k # Cur(p)
        BY <1>13, <4>2 DEF LeaseJob, Exists, IInv, TypeInv, TypeOK
      <4> QED BY <4>1, <4>2
    <3> QED
      BY <1>13, <3>1 DEF LeaseJob, IInv, SentInv, KeysKept, Kept, KeyInv, Exists, Stored, provider
  <2> QED
    <3>1. Exists(Cur(p)) /\ job[Cur(p)].prepared
      BY <1>13, <2>1, Standing DEF LeaseJob, At, ProcInv, DeliverSteps
    <3>2. job'[Cur(p)].state # "none" /\ job'[Cur(p)].prepared
      BY <2>1, <2>2, <3>1, Standing DEF KeysKept, Kept, Exists
    <3> QED
      BY <1>13, <2>2, <3>2, GotoSent, LeaveSent
         DEF LeaseJob, Steps, EnqueueSteps, SavingSteps, DeliverSteps
<1>14. ASSUME NEW p \in Procs, Reread(p) PROVE SentInv'
  <2>1. inv[p].pc \in KeySteps
    BY <1>14 DEF Reread, At, KeySteps, EnqueueSteps, SavingSteps, DeliverSteps
  <2>2. KeysKept
    BY <1>14, Quiet DEF Reread, provider
  <2> QED
    BY <1>14, <2>1, <2>2, Standing, FinalSent DEF Reread, At, ProcInv, Exists, DeliverSteps
<1>15. ASSUME NEW p \in Procs, Fetch(p) PROVE SentInv'
  <2>1. inv[p].pc \in KeySteps
    BY <1>15 DEF Fetch, At, KeySteps, EnqueueSteps, SavingSteps, DeliverSteps
  <2>2. KeysKept
    BY <1>15, Quiet DEF Fetch, provider
  <2> QED
    <3>1. job'[Cur(p)].state # "none" /\ job'[Cur(p)].prepared
      BY <1>15, <2>1, Standing DEF Fetch, At, ProcInv, Exists, DeliverSteps
    <3>2. CASE Unreadable(p)
      BY <2>2, <3>1, <3>2, ToStateSent DEF Unreadable
    <3>3. CASE /\ inv' = [inv EXCEPT ![p].pc = "begin", ![p].want = payload[Cur(p)]]
               /\ payload[Cur(p)] # None
      <4>1. PICK i : i = [inv[p] EXCEPT !.pc = "begin", !.want = payload[Cur(p)]]
        OBVIOUS
      <4>2. /\ i.pc = "begin" /\ i.cur = Cur(p) /\ i.want = payload[Cur(p)]
            /\ inv' = [inv EXCEPT ![p] = i]
        BY <3>3, <4>1 DEF Cur, IInv, TypeInv, TypeOK, Invocation
      <4>3. job'[Cur(p)].content = payload[Cur(p)]
        BY <1>15, <2>1, <3>3, Standing DEF KeyInv, Fetch
      <4>4. ProcInv(i)'
        BY <3>1, <4>2, <4>3 DEF ProcInv, Exists, SavingSteps, DeliverSteps
      <4> QED
        BY <2>2, <4>2, <4>4, Others
    <3> QED
      BY <1>15, <3>2, <3>3 DEF Fetch
<1>16. ASSUME NEW p \in Procs, Begin(p) PROVE SentInv'
  <2>1. inv[p].pc \in KeySteps
    BY <1>16 DEF Begin, At, KeySteps, EnqueueSteps, SavingSteps, DeliverSteps
  <2>2. KeysKept
    BY <1>16, <2>1, Standing
       DEF Begin, At, SavingSteps, DeliverSteps, IInv, TypeInv, TypeOK, SentInv, KeysKept, Kept,
         KeyInv, ProcInv, Exists, Stored, provider, JobRow, EmailRow
  <2> QED
    BY <1>16, <2>1, <2>2, Standing, GotoSent
       DEF Begin, At, ProcInv, KeyInv, Exists, Stored, Steps, KeySteps, EnqueueSteps, SavingSteps,
         DeliverSteps, IInv, TypeInv, TypeOK, JobRow
<1>17. ASSUME NEW p \in Procs, SettleJob(p) PROVE SentInv'
  <2>1. inv[p].pc \in KeySteps
    BY <1>17 DEF SettleJob, At, KeySteps, EnqueueSteps, SavingSteps, DeliverSteps
  <2>2. KeysKept
    <3>1. Exists(Cur(p)) /\ inv[p].verdict \in Verdicts
      BY <1>17, <2>1, Standing DEF SettleJob, ProcInv, DeliverSteps, IInv, TypeInv, Located
    <3> QED
      BY <1>17, <2>1, <3>1, Standing, SetStateKeeps DEF SettleJob, provider
  <2> QED
    BY <1>17, <2>2, LeaveSent DEF SettleJob
<1>18. ASSUME NEW p \in Procs, Record(p) PROVE SentInv'
  <2>1. inv[p].pc \in KeySteps
    BY <1>18 DEF Record, At, KeySteps, EnqueueSteps, SavingSteps, DeliverSteps
  <2>2. KeysKept
    BY <1>18, <2>1, Standing
       DEF Record, At, SavingSteps, DeliverSteps, IInv, TypeInv, TypeOK, SentInv, KeysKept, Kept,
         KeyInv, ProcInv, Exists, Stored, provider, JobRow
  <2> QED
    BY <1>18, <2>1, <2>2, Standing, GotoSent
       DEF Record, At, ProcInv, KeyInv, Exists, Stored, Steps, KeySteps, EnqueueSteps,
         SavingSteps, DeliverSteps, IInv, TypeInv, TypeOK, JobRow
<1>19. ASSUME NEW p \in Procs, RepairSent(p) PROVE SentInv'
  <2>1. inv[p].pc \in KeySteps
    BY <1>19 DEF RepairSent, At, KeySteps, EnqueueSteps, SavingSteps, DeliverSteps
  <2>2. KeysKept
    <3>1. Reported(Cur(p), Row(p).id) # "none"
      BY OutboxAssumption DEF Reported, EventRow, Delivered, IInv, TypeInv, TypeOK
    <3>2. ASSUME NEW k \in Keys
          PROVE  /\ email'[k].content = email[k].content /\ Stored(k)' = Stored(k)
                 /\ ~Stored(k) => email'[k] = email[k]
      <4>1. email \in [Keys -> EmailRow] /\ email[k] \in EmailRow
        BY DEF IInv, TypeInv, TypeOK
      <4>2. CASE email' = email
        BY <4>2 DEF Stored
      <4>3. CASE Stored(Cur(p)) /\ \E s : /\ s \in {email[Cur(p)].status, Reported(Cur(p), Row(p).id)}
                                         /\ email' = [email EXCEPT ![Cur(p)].id = Row(p).id,
                                                                  ![Cur(p)].status = s]
        <5>1. CASE k # Cur(p)
          BY <4>1, <4>3, <5>1 DEF Stored
        <5>2. CASE k = Cur(p)
          BY <3>1, <4>1, <4>3, <5>2 DEF Stored, EmailRow
        <5> QED BY <5>1, <5>2
      <4> QED BY <1>19, <4>2, <4>3 DEF RepairSent, Stored
    <3>3. UNCHANGED <<job, payload, files, copies, mailed>>
      BY <1>19 DEF RepairSent, provider
    <3> QED
      BY <3>2, <3>3 DEF IInv, SentInv, KeysKept, Kept, KeyInv, Exists, Stored
  <2> QED
    BY <1>19, <2>1, <2>2, Standing, GotoSent, LeaveSent
       DEF RepairSent, At, ProcInv, KeyInv, Exists, Stored, Steps, KeySteps, EnqueueSteps,
         SavingSteps, DeliverSteps
<1>20. ASSUME NEW p \in Procs, ErasePayload(p) PROVE SentInv'
  <2>1. inv[p].pc \in KeySteps
    BY <1>20 DEF ErasePayload, At, KeySteps, EnqueueSteps, SavingSteps, DeliverSteps
  <2>2. KeysKept
    BY <1>20, <2>1, Standing
       DEF ErasePayload, At, SavingSteps, DeliverSteps, IInv, TypeInv, TypeOK, SentInv, KeysKept,
         Kept, KeyInv, ProcInv, Exists, Stored, provider
  <2> QED
    BY <1>20, <2>1, <2>2, Standing, GotoSent
       DEF ErasePayload, At, ProcInv, KeyInv, Exists, Stored, Steps, KeySteps, EnqueueSteps,
         SavingSteps, DeliverSteps
<1>21. ASSUME NEW p \in Procs, NotePayloadErased(p) PROVE SentInv'
  <2>1. inv[p].pc \in KeySteps
    BY <1>21 DEF NotePayloadErased, At, KeySteps, EnqueueSteps, SavingSteps, DeliverSteps
  <2>2. KeysKept
    BY <1>21, <2>1, Standing
       DEF NotePayloadErased, At, SavingSteps, DeliverSteps, IInv, TypeInv, TypeOK, SentInv,
         KeysKept, Kept, KeyInv, ProcInv, Exists, Stored, provider, JobRow
  <2> QED
    BY <1>21, <2>2, LeaveSent DEF NotePayloadErased
<1>22. ASSUME NEW p \in Procs, Send(p) PROVE SentInv'
  <2>1. inv[p].pc \in KeySteps
    BY <1>22 DEF Send, At, KeySteps, DeliverSteps
  <2>2. /\ job[Cur(p)].state # "none" /\ job[Cur(p)].prepared
        /\ inv[p].want = job[Cur(p)].content
    BY <1>22, <2>1, Standing DEF Send, At, ProcInv, Exists, DeliverSteps
  <2>3. ASSUME NEW k \in Keys
        PROVE  \/ mailed'[k] = mailed[k] /\ copies'[k] = copies[k]
               \/ /\ k = Cur(p) /\ copies'[k] = copies[k] + 1
                  /\ mailed'[k] = mailed[k] \cup {inv[p].want}
    <3>1. CASE Accept(p)
      BY <3>1 DEF Accept, provider, IInv, TypeInv, TypeOK
    <3>2. CASE UNCHANGED provider
      BY <3>2 DEF provider
    <3> QED BY <1>22, <3>1, <3>2 DEF Send
  <2>4. KeysKept
    <3>1. ASSUME NEW k \in Keys PROVE Kept(k) /\ KeyInv(k)'
      <4>1. KeyInv(k) /\ UNCHANGED <<job, email, payload, files>> /\ copies[k] \in Nat
        BY <1>22 DEF Send, IInv, SentInv, TypeInv, TypeOK
      <4>2. CASE mailed'[k] = mailed[k] /\ copies'[k] = copies[k]
        BY <4>1, <4>2 DEF Kept, KeyInv, Exists, Stored
      <4>3. CASE /\ k = Cur(p) /\ copies'[k] = copies[k] + 1
                 /\ mailed'[k] = mailed[k] \cup {inv[p].want}
        <5>1. mailed'[k] = {job[k].content} /\ copies'[k] # 0
          BY <2>2, <4>1, <4>3 DEF KeyInv
        <5> QED
          BY <2>2, <4>1, <4>3, <5>1 DEF Kept, KeyInv, Exists, Stored
      <4> QED BY <2>3, <4>2, <4>3
    <3> QED
      BY <3>1 DEF KeysKept, KeyInv, Exists, Stored
  <2>5. CASE \E reply : ToState(p, "settle", Row(p),
                                FailureState(inv[p].agent, reply, Row(p).attempts))
    BY <1>22, <2>2, <2>4, <2>5, ToStateSent DEF Send
  <2>6. CASE inv' = [inv EXCEPT ![p].pc = "record", ![p].want = None,
                                ![p].seen[Cur(p)] = [Row(p) EXCEPT !.id = copies'[Cur(p)],
                                                                   !.state = "accepted"]]
    <3>1. PICK r : r = [Row(p) EXCEPT !.id = copies'[Cur(p)], !.state = "accepted"]
      OBVIOUS
    <3>2. PICK i : i = [inv[p] EXCEPT !.pc = "record", !.want = None,
                                      !.seen = [inv[p].seen EXCEPT ![Cur(p)] = r]]
      OBVIOUS
    <3>3. inv[p] \in Invocation /\ inv' = [inv EXCEPT ![p] = i]
      BY ZenonT(40), <2>6, <3>1, <3>2 DEF IInv, TypeInv, TypeOK, Invocation
    <3>4. i.pc = "record" /\ i.cur = Cur(p)
      BY <3>2, <3>3 DEF Invocation, Cur
    <3>5. job' = job
      BY <1>22 DEF Send
    <3>6. ProcInv(i)'
      BY <2>2, <3>4, <3>5 DEF ProcInv, Exists, SavingSteps
    <3> QED
      BY <2>4, <3>3, <3>6, Others
  <2> QED
    BY <1>22, <2>5, <2>6 DEF Send
<1>23. ASSUME NEW p \in Procs, Recheck(p) PROVE SentInv'
  <2>1. inv[p].pc \in KeySteps
    BY <1>23 DEF Recheck, At, KeySteps
  <2>2. KeysKept
    BY <1>23, Quiet DEF Recheck, provider
  <2>3. CASE Done(p)
    BY <2>2, <2>3, DoneSent
  <2>4. CASE /\ job[Cur(p)].state \in {"failed", "uncertain", "retry"}
             /\ inv' = [inv EXCEPT ![p].pc = "rearm", ![p].seen[Cur(p)] = job[Cur(p)],
                                   ![p].flag = Expired(job[Cur(p)])]
    <3>1. PICK i : i = [inv[p] EXCEPT !.pc = "rearm",
                                      !.seen = [inv[p].seen EXCEPT ![Cur(p)] = job[Cur(p)]],
                                      !.flag = Expired(job[Cur(p)])]
      OBVIOUS
    <3>2. inv[p] \in Invocation /\ inv' = [inv EXCEPT ![p] = i]
      BY <2>4, <3>1 DEF IInv, TypeInv, TypeOK, Invocation
    <3>3. i.pc = "rearm" /\ i.cur = Cur(p)
      BY <3>1, <3>2 DEF Invocation, Cur
    <3>4. job' = job
      BY <1>23 DEF Recheck
    <3>5. ProcInv(i)'
      BY <2>4, <3>3, <3>4 DEF ProcInv, Exists, SavingSteps, DeliverSteps
    <3> QED
      BY <2>2, <3>2, <3>5, Others
  <2> QED
    BY <1>23, <2>3, <2>4 DEF Recheck
<1>24. ASSUME NEW p \in Procs, Rearm(p) PROVE SentInv'
  <2>1. inv[p].pc \in KeySteps
    BY <1>24 DEF Rearm, At, KeySteps
  <2>2. Exists(Cur(p))
    BY <1>24, <2>1, Standing DEF Rearm, At, ProcInv
  <2>3. ASSUME NEW k \in Keys
        PROVE  /\ job'[k].content = job[k].content /\ job'[k].prepared = job[k].prepared
               /\ (job'[k].state = "none") <=> (job[k].state = "none")
    <3>1. PICK a : a = IF inv[p].flag THEN None ELSE Row(p).age
      OBVIOUS
    <3>2. PICK r : r = [job[Cur(p)] EXCEPT !.state = "pending", !.attempts = 0, !.wait = 0,
                                           !.age = a]
      OBVIOUS
    <3>3. /\ r.state = "pending" /\ r.content = job[Cur(p)].content
          /\ r.prepared = job[Cur(p)].prepared
      BY <2>1, <3>2, Standing DEF JobRow
    <3>4. job' = job \/ job' = [job EXCEPT ![Cur(p)] = r]
      BY <1>24, <3>1, <3>2 DEF Rearm
    <3> QED
      BY <2>1, <2>2, <3>3, <3>4, Standing DEF Exists, IInv, TypeInv, TypeOK
  <2>4. KeysKept
    BY <1>24, <2>3 DEF Rearm, IInv, SentInv, KeysKept, Kept, KeyInv, Exists, Stored, provider
  <2> QED
    BY <1>24, <2>4, DeliverSent DEF Rearm
<1>25. ASSUME NEW p \in Procs, NEW i, inv' = [inv EXCEPT ![p] = i],
              UNCHANGED <<job, email, payload, files, provider>>,
              i.pc \in {"idle", "reserve", "recheck", "sweep", "next", "read"}
       PROVE SentInv'
  <2>1. ProcInv(i)'
    BY <1>25 DEF ProcInv, SavingSteps, DeliverSteps
  <2> QED
    BY <1>25, <2>1, Quiet, Others
<1>26. ASSUME NEW p \in Procs, NEW k \in Keys, NEW c \in Contents, StartSend(p, k, c) PROVE SentInv'
  <2>1. PICK i : i = [Idle EXCEPT !.pc = "reserve", !.cur = k, !.agent = configured, !.want = c]
    OBVIOUS
  <2>2. i.pc = "reserve"
    BY <2>1 DEF Idle
  <2> QED
    BY <1>25, <1>26, <2>1, <2>2 DEF StartSend, Start
<1>27. ASSUME NEW p \in Procs, NEW k \in Keys, NEW confirm \in BOOLEAN, StartRetry(p, k, confirm)
       PROVE SentInv'
  <2>1. PICK i : i = [Idle EXCEPT !.pc = "recheck", !.cur = k, !.agent = configured,
                                  !.flag = confirm]
    OBVIOUS
  <2>2. i.pc = "recheck"
    BY <2>1 DEF Idle
  <2> QED
    BY <1>25, <1>27, <2>1, <2>2 DEF StartRetry, Start
<1>28. ASSUME NEW p \in Procs, StartFlush(p) PROVE SentInv'
  <2>1. PICK i : i = [Idle EXCEPT !.pc = "sweep", !.flush = TRUE, !.agent = configured]
    OBVIOUS
  <2>2. i.pc = "sweep"
    BY <2>1 DEF Idle
  <2> QED
    BY <1>25, <1>28, <2>1, <2>2 DEF StartFlush, Start
<1>29. ASSUME NEW p \in Procs, Sweep(p) PROVE SentInv'
  <2>1. PICK due : due = {k \in Keys : /\ job[k].state \in {"sending", "preparing"}
                                       /\ job[k].lease < 0}
    OBVIOUS
  <2>2. PICK i : i = [inv[p] EXCEPT !.pc = "expire", !.seen = job, !.todo = due]
    OBVIOUS
  <2>3. inv[p] \in Invocation /\ inv' = [inv EXCEPT ![p] = i]
    BY <1>29, <2>1, <2>2 DEF Sweep, IInv, TypeInv, TypeOK, Invocation
  <2>4. i.pc = "expire" /\ i.todo = due
    BY <2>2, <2>3 DEF Invocation
  <2>5. job' = job
    BY <1>29 DEF Sweep
  <2>6. ProcInv(i)'
    BY <2>1, <2>4, <2>5 DEF ProcInv, Exists, SavingSteps, DeliverSteps
  <2> QED
    BY <1>29, <2>3, <2>6, Quiet, Others DEF Sweep, provider
<1>30. ASSUME NEW p \in Procs, Expire(p) PROVE SentInv'
  <2>1. PICK k \in Oldest(inv[p].todo) :
          /\ SetState(k, inv[p].seen[k], SweepState(inv[p].seen[k]))
          /\ inv' = [inv EXCEPT ![p].todo = @ \ {k}]
    BY <1>30 DEF Expire
  <2>2. inv[p] \in Invocation /\ ProcInv(inv[p]) /\ inv[p].pc = "expire" /\ k \in inv[p].todo
    BY <1>30, <2>1 DEF Expire, At, Oldest, IInv, SentInv, TypeInv, TypeOK
  <2>3. k \in Keys /\ inv[p].seen[k] \in JobRow /\ Exists(k)
    BY <2>2 DEF Invocation, ProcInv
  <2>4. KeysKept
    <3>1. SweepState(inv[p].seen[k]) \in Verdicts
      BY DEF SweepState, Verdicts
    <3> QED
      BY <1>30, <2>1, <2>3, <3>1, SetStateKeeps DEF Expire, provider
  <2>5. PICK i : i = [inv[p] EXCEPT !.todo = inv[p].todo \ {k}]
    OBVIOUS
  <2>6. i.pc = "expire" /\ i.todo \subseteq inv[p].todo /\ inv' = [inv EXCEPT ![p] = i]
    BY <2>1, <2>2, <2>5 DEF Invocation, IInv, TypeInv, TypeOK
  <2>7. \A j \in i.todo : job'[j].state # "none"
    <3> SUFFICES ASSUME NEW j \in i.todo PROVE job'[j].state # "none"
      OBVIOUS
    <3>1. j \in Keys /\ Exists(j)
      BY <2>2, <2>6 DEF Invocation, ProcInv
    <3> QED BY <2>4, <3>1 DEF KeysKept, Kept, Exists
  <2>8. ProcInv(i)'
    BY <2>6, <2>7 DEF ProcInv, Exists, SavingSteps, DeliverSteps
  <2> QED
    BY <2>4, <2>6, <2>8, Others
<1>31. ASSUME NEW p \in Procs, SelectDue(p) PROVE SentInv'
  <2>1. PICK i : i = [inv[p] EXCEPT !.pc = "next", !.todo = FirstDue, !.seen = Blank]
    OBVIOUS
  <2>2. i.pc = "next" /\ inv' = [inv EXCEPT ![p] = i]
    BY <1>31, <2>1 DEF SelectDue, IInv, TypeInv, TypeOK, Invocation
  <2> QED
    BY <1>25, <1>31, <2>2 DEF SelectDue
<1>32. ASSUME NEW p \in Procs, NextDue(p) PROVE SentInv'
  <2>1. PICK k \in Oldest(inv[p].todo) :
          inv' = [inv EXCEPT ![p].pc = "read", ![p].cur = k, ![p].todo = @ \ {k}]
    BY <1>32 DEF NextDue
  <2>2. PICK i : i = [inv[p] EXCEPT !.pc = "read", !.cur = k, !.todo = inv[p].todo \ {k}]
    OBVIOUS
  <2>3. i.pc = "read" /\ inv' = [inv EXCEPT ![p] = i]
    BY <2>1, <2>2 DEF IInv, TypeInv, TypeOK, Invocation
  <2> QED
    BY <1>25, <1>32, <2>3 DEF NextDue
<1>33. ASSUME NEW p \in Procs, PurgeEvents(p) PROVE SentInv'
  BY <1>33, Quiet, DoneSent DEF PurgeEvents, provider
<1>34. ASSUME NEW p \in Procs, Abort(p) PROVE SentInv'
  BY <1>34, Quiet, DoneSent, LeaveSent DEF Abort, provider
<1>35. ASSUME \A k \in Keys : KeyInv(k)', \A k \in Keys : Kept(k),
              \A p \in Procs : inv'[p].pc = inv[p].pc /\ inv'[p].cur = inv[p].cur
                /\ inv'[p].want = inv[p].want /\ inv'[p].todo = inv[p].todo
       PROVE SentInv'
  <2>1. ASSUME NEW p \in Procs PROVE ProcInv(inv[p])'
    <3>1. PICK i : i = inv[p]
      OBVIOUS
    <3>2. ProcInv(i) /\ i \in Invocation /\ Located(i)
      BY <3>1 DEF IInv, SentInv, TypeInv, TypeOK
    <3>3. (i.pc \in KeySteps => Kept(i.cur)) /\ (\A k \in i.todo : Kept(k))
      BY <1>35, <3>2 DEF Located, Invocation
    <3>4. ProcInv(i)'
      BY <3>2, <3>3, Relied
    <3> QED
      BY <1>35, <3>1, <3>4 DEF ProcInv, Exists, Stored
  <2> QED BY <1>35, <2>1 DEF SentInv
<1>36. ASSUME NEW k \in Keys, NEW n \in 1..(1 + MaxAcks), NEW s \in Events, Webhook(k, n, s)
       PROVE SentInv'
  <2>1. s # "none" /\ n # None
    BY OutboxAssumption DEF Delivered
  <2>2. ASSUME NEW j \in Keys
        PROVE  /\ email'[j].content = email[j].content /\ email'[j].id = email[j].id
               /\ Stored(j) => email'[j].status # "none"
               /\ ~Stored(j) => email'[j].status = "none"
    BY <1>36, <2>1 DEF Webhook, Stored, IInv, SentInv, KeyInv, TypeInv, TypeOK, EmailRow
  <2>3. ASSUME NEW j \in Keys PROVE Kept(j) /\ KeyInv(j)'
    BY <1>36, <2>2 DEF Webhook, IInv, SentInv, Kept, KeyInv, Exists, Stored, provider
  <2> QED
    BY <1>35, <1>36, <2>3 DEF Webhook, KeyInv, Exists, Stored
<1>37. ASSUME Redeploy PROVE SentInv'
  <2>1. KeysKept /\ inv' = inv
    BY <1>37, Quiet DEF Redeploy
  <2> QED
    BY <1>35, <2>1 DEF KeysKept
<1>38. ASSUME Tick PROVE SentInv'
  <2>1. ASSUME NEW k \in Keys
        PROVE  /\ job'[k].content = job[k].content /\ job'[k].prepared = job[k].prepared
               /\ job'[k].state = job[k].state
    <3>1. job'[k] = Aged(job[k]) /\ job[k] \in JobRow
      BY <1>38 DEF Tick, IInv, TypeInv, TypeOK
    <3> QED BY <3>1 DEF Aged, JobRow
  <2>2. \A k \in Keys : Kept(k) /\ KeyInv(k)'
    BY ZenonT(40), <1>38, <2>1 DEF Tick, IInv, SentInv, Kept, KeyInv, Exists, Stored
  <2>3. ASSUME NEW p \in Procs
        PROVE  /\ inv'[p].pc = inv[p].pc /\ inv'[p].cur = inv[p].cur
               /\ inv'[p].want = inv[p].want /\ inv'[p].todo = inv[p].todo
    <3>1. PICK s : s = [k \in Keys |-> Aged(inv[p].seen[k])]
      OBVIOUS
    <3>2. inv'[p] = IF At(p, "idle") THEN inv[p] ELSE [inv[p] EXCEPT !.age = @ + 1, !.seen = s]
      BY <1>38, <3>1 DEF Tick
    <3>3. inv[p] \in Invocation
      BY DEF IInv, TypeInv, TypeOK
    <3> QED BY <3>2, <3>3 DEF Invocation
  <2> QED
    BY <1>35, <2>2, <2>3 DEF KeyInv, Exists, Stored
<1> QED
  BY <1>1, <1>2, <1>3, <1>4, <1>5, <1>6, <1>7, <1>8, <1>9, <1>10, <1>11, <1>12, <1>13, <1>14,
     <1>15,
     <1>16, <1>17, <1>18, <1>19, <1>20, <1>21, <1>22, <1>23, <1>24, <1>26, <1>27, <1>28, <1>29,
     <1>30, <1>31, <1>32, <1>33, <1>34, <1>36, <1>37, <1>38
  DEF Next, Step, Saving, Delivering, Retrying, Flushing

\* The outbox never leaves the inductive invariant behind the Sent folder.
THEOREM SentInvariant == Spec => []IInv
<1>1. Init => IInv
  <2>1. ASSUME Init PROVE SentInv
    BY <2>1 DEF Init, SentInv, KeyInv, ProcInv, Exists, Stored, Blank, NoJob, NoEmail, Idle,
      SavingSteps, DeliverSteps
  <2> QED BY <2>1, InitType DEF IInv
<1>2. IInv /\ Next => IInv'
  BY TypeStep, SentStep DEF IInv
<1>3. IInv /\ UNCHANGED vars => IInv'
  BY DEF IInv, TypeInv, TypeOK, SentInv, KeyInv, ProcInv, Exists, Stored, vars, world, provider
<1> QED
  BY <1>1, <1>2, <1>3, PTL DEF Spec

\* Whatever a recipient got is in the Sent folder, with its attachments and with exactly
\* the content the provider was given: enqueueOutbound and deliverOutboxJob never let the
\* stored row and the transmitted payload drift apart.
THEOREM SentFolderIsTrue == Spec => []SentFolderTellsTheTruth
<1>1. IInv => SentFolderTellsTheTruth
  <2> SUFFICES ASSUME IInv, NEW k \in Keys, copies[k] > 0
               PROVE  /\ email[k].status # "none" /\ k \in files
                      /\ mailed[k] = {email[k].content}
    BY DEF SentFolderTellsTheTruth
  <2> QED
    BY DEF IInv, SentInv, KeyInv, Stored, TypeInv, TypeOK
<1> QED
  BY SentInvariant, <1>1, PTL

-----------------------------------------------------------------------------
(* The Sent row and the delivery reports *)

\* Copies the provider has made of a key's message; an id names one of them.
Known(k) == 1..copies[k]
Holding == {"record", "final"}

\* An accepted answer is carried, recorded and stored under an id the provider gave.
AnswersKnown ==
  \A p \in Procs : inv[p].pc \in Holding => Row(p).id \in Known(Cur(p))
JobsKnown == \A k \in Keys : job[k].state = "accepted" => job[k].id \in Known(k)
KeysRemembered == \A k \in Keys : receipt[k] # None => copies[k] > 0

\* Rows name copies, a row shows a delivery only with its id, and reports on one copy agree.
RowsKnown ==
  \A k \in Keys : /\ email[k].id # None => email[k].id \in Known(k)
                  /\ email[k].status \in Delivered => email[k].id # None
ReportsKnown ==
  /\ \A e \in events : e.id \in Known(e.key)
  /\ \A e, f \in events : e.key = f.key /\ e.id = f.id => e.status = f.status

RowInv == RowsKnown /\ ReportsKnown /\ SentRowShowsReport
ReportInv == AnswersKnown /\ JobsKnown /\ KeysRemembered /\ RowInv

\* What most steps leave as it is: rows and reports, accepted jobs, answers, and keys.
RowsKept ==
  /\ \A k \in Keys :
       \/ email'[k].id = email[k].id /\ email'[k].status = email[k].status
       \/ email'[k].status \notin Delivered /\ email'[k].id \in {None, email[k].id}
  /\ \A e \in events' : \E f \in events : f.key = e.key /\ f.id = e.id /\ f.status = e.status
JobsKept ==
  \A k \in Keys : job'[k].state = "accepted" => job[k].state = "accepted" /\ job'[k].id = job[k].id
AnswersKept ==
  \A p \in Procs : inv'[p].pc \in Holding =>
    /\ inv[p].pc \in Holding /\ inv'[p].cur = inv[p].cur
    /\ inv'[p].seen[inv[p].cur].id = inv[p].seen[inv[p].cur].id
KeysSame == \A k \in Keys : receipt'[k] # None => receipt[k] # None
Grown == \A k \in Keys : copies[k] <= copies'[k]

\* The provider makes more copies; the rows and reports keep theirs.
LEMMA RowsStay ==
  ASSUME TypeInv, TypeInv', RowInv, RowsKept, Grown
  PROVE  RowInv'
<1>1. \A k \in Keys : copies[k] \in Nat /\ copies'[k] \in Nat /\ copies[k] <= copies'[k]
  BY DEF TypeInv, TypeOK, Grown
<1>2. \A k \in Keys : Known(k) \subseteq Known(k)'
  BY <1>1 DEF Known
<1>3. \A k \in Keys : /\ email[k].id # None => email[k].id \in Known(k)
                      /\ email[k].status \in Delivered => email[k].id # None
  BY DEF RowInv, RowsKnown
<1>4. \A e \in events : e \in EventRow /\ e.key \in Keys /\ e.id \in Known(e.key)
  BY DEF RowInv, ReportsKnown, TypeInv, TypeOK, EventRow
<1>5. \A e \in events' : e.key \in Keys
  BY DEF TypeInv, TypeOK, EventRow
<1>6. RowsKnown'
  BY <1>2, <1>3 DEF RowsKept, RowsKnown
<1>7. ReportsKnown'
  <2>1. \A e \in events' : e.id \in Known(e.key)'
    BY <1>2, <1>4 DEF RowsKept
  <2>2. \A e, f \in events' : e.key = f.key /\ e.id = f.id => e.status = f.status
    BY DEF RowsKept, RowInv, ReportsKnown
  <2> QED BY <2>1, <2>2 DEF ReportsKnown, Known
<1>8. SentRowShowsReport'
  <2> SUFFICES ASSUME NEW e \in events', copies'[e.key] = 1, email'[e.key].id = e.id,
                      email'[e.key].status \in Delivered
               PROVE  email'[e.key].status = e.status
    BY DEF SentRowShowsReport
  <2>1. PICK f \in events : f.key = e.key /\ f.id = e.id /\ f.status = e.status
    BY DEF RowsKept
  <2>2. copies[f.key] = 1
    BY <1>1, <1>4, <2>1 DEF Known
  <2>3. email'[f.key].id = email[f.key].id /\ email'[f.key].status = email[f.key].status
    <3>1. email'[f.key].status \in Delivered /\ f.key \in Keys
      BY <1>4, <2>1
    <3> QED BY <2>1, <3>1 DEF RowsKept
  <2> QED BY <2>1, <2>2, <2>3 DEF RowInv, SentRowShowsReport
<1> QED BY <1>6, <1>7, <1>8 DEF RowInv

\* A step that keeps rows, reports, jobs, answers and remembered keys keeps the invariant.
LEMMA ReportKept ==
  ASSUME TypeInv, TypeInv', ReportInv, RowsKept, JobsKept, AnswersKept, KeysSame, UNCHANGED copies
  PROVE  ReportInv'
<1>1. RowInv'
  BY RowsStay DEF ReportInv, Grown, TypeInv, TypeOK
<1>2. AnswersKnown'
  BY DEF ReportInv, AnswersKnown, AnswersKept, Row, Cur, Known
<1>3. JobsKnown'
  BY DEF ReportInv, JobsKnown, JobsKept, Known
<1>4. KeysRemembered'
  BY DEF ReportInv, KeysRemembered, KeysSame
<1> QED BY <1>1, <1>2, <1>3, <1>4 DEF ReportInv

\* An invocation that goes on without an answer.
LEMMA Without ==
  ASSUME TypeInv, NEW p \in Procs, NEW i, i.pc \notin Holding, inv' = [inv EXCEPT ![p] = i]
  PROVE  AnswersKept
BY DEF TypeInv, TypeOK, AnswersKept

\* Rows that nobody writes, and the provider's side.
LEMMA Rested ==
  /\ UNCHANGED <<email, events>> => RowsKept
  /\ UNCHANGED job => JobsKept
  /\ UNCHANGED inv => AnswersKept
  /\ UNCHANGED provider => KeysSame /\ UNCHANGED copies
BY DEF RowsKept, JobsKept, AnswersKept, KeysSame, provider

\* The ways an invocation moves on without an answer.
LEMMA Moving ==
  ASSUME TypeInv, NEW p \in Procs
  PROVE  /\ \A step \in Steps \ Holding : Goto(p, step) => AnswersKept
         /\ Done(p) \/ Deliver(p) \/ Leave(p) => AnswersKept
         /\ \A step \in {"refuse", "settle"} : \A r, state :
              ToState(p, step, r, state) => AnswersKept
<1>0. inv[p] \in Invocation
  BY DEF TypeInv, TypeOK
<1>1. ASSUME NEW step \in Steps \ Holding, Goto(p, step) PROVE AnswersKept
  <2>1. PICK i : i = [inv[p] EXCEPT !.pc = step]
    OBVIOUS
  <2>2. i.pc = step /\ inv' = [inv EXCEPT ![p] = i]
    BY <1>0, <1>1, <2>1 DEF Goto, Invocation
  <2> QED BY <2>2, Without
<1>2. Done(p) => AnswersKept
  BY Without DEF Done, Idle, Holding
<1>3. Deliver(p) => AnswersKept
  <2>1. PICK i : i = [Idle EXCEPT !.pc = "read", !.cur = Cur(p), !.age = inv[p].age,
                                  !.agent = inv[p].agent]
    OBVIOUS
  <2>2. i.pc = "read"
    BY <2>1 DEF Idle
  <2> QED BY <2>1, <2>2, Without DEF Deliver, Holding
<1>4. Leave(p) => AnswersKept
  <2>1. PICK i : i = [Idle EXCEPT !.pc = "next", !.flush = TRUE, !.age = inv[p].age,
                                  !.agent = inv[p].agent, !.todo = inv[p].todo]
    OBVIOUS
  <2>2. i.pc = "next"
    BY <2>1 DEF Idle
  <2> QED BY <1>2, <2>1, <2>2, Without DEF Leave, Holding
<1>5. ASSUME NEW step \in {"refuse", "settle"}, NEW r, NEW state, ToState(p, step, r, state)
      PROVE  AnswersKept
  <2>1. PICK i : i = [inv[p] EXCEPT !.pc = step, !.want = None, !.verdict = state,
                                    !.seen = [inv[p].seen EXCEPT ![Cur(p)] = r]]
    OBVIOUS
  <2>2. i.pc = step /\ inv' = [inv EXCEPT ![p] = i]
    BY <1>0, <1>5, <2>1 DEF ToState, Invocation
  <2> QED BY <2>2, Without DEF Holding
<1> QED BY <1>1, <1>2, <1>3, <1>4, <1>5

\* setState records no acceptance and shows no delivery.
LEMMA SetStateQuiet ==
  ASSUME TypeInv, NEW k \in Keys, NEW r, NEW state \in Verdicts, SetState(k, r, state)
  PROVE  /\ JobsKept
         /\ \A j \in Keys :
              \/ email'[j].id = email[j].id /\ email'[j].status = email[j].status
              \/ email'[j].status \notin Delivered /\ email'[j].id = email[j].id
<1>1. JobsKept
  BY DEF SetState, JobsKept, TypeInv, TypeOK, JobRow, Verdicts
<1>2. ASSUME NEW j \in Keys
      PROVE  \/ email'[j].id = email[j].id /\ email'[j].status = email[j].status
             \/ email'[j].status \notin Delivered /\ email'[j].id = email[j].id
  BY DEF SetState, TypeInv, TypeOK, EmailRow, Verdicts, Delivered
<1> QED BY <1>1, <1>2

\* Saving answers nothing, and what it writes to the Sent row is no delivery.
LEMMA SavingReports ==
  ASSUME TypeInv, NEW p \in Procs, Saving(p)
  PROVE  RowsKept /\ JobsKept /\ AnswersKept /\ UNCHANGED provider
<1>0. inv[p].pc \in KeySteps
  BY DEF Saving, Reserve, Select, Claim, Put, FindRow, InsertRow, Link, StoreFiles, Commit, Catch,
       Recant, At, KeySteps, EnqueueSteps, SavingSteps
<1>1. /\ Cur(p) \in Keys /\ inv[p] \in Invocation
      /\ job[Cur(p)] \in JobRow /\ email[Cur(p)] \in EmailRow
      /\ job \in [Keys -> JobRow] /\ email \in [Keys -> EmailRow]
  BY <1>0, AtHand DEF TypeInv, TypeOK
<1>2. {"put", "claim", "insert", "link", "row", "files", "commit", "catch",
       "recant"}
        \subseteq Steps \ Holding
  BY DEF Steps, EnqueueSteps, SavingSteps, Holding
<1>3. CASE Reserve(p)
  <2>1. PICK i : i = [inv[p] EXCEPT !.pc = "select", !.flag = (job[Cur(p)].state = "none")]
    OBVIOUS
  <2>2. i.pc = "select" /\ inv' = [inv EXCEPT ![p] = i]
    BY <1>1, <1>3, <2>1 DEF Reserve, TypeInv, TypeOK, Invocation
  <2>3. JobsKept
    BY <1>1, <1>3 DEF Reserve, JobsKept, NewJob, NoJob
  <2> QED BY <1>3, <2>2, <2>3, Without, Rested DEF Reserve, Holding
<1>4. CASE Select(p) \/ Put(p) \/ FindRow(p) \/ StoreFiles(p)
  BY <1>2, <1>4, Moving, Rested DEF Select, Put, FindRow, StoreFiles, Enqueued
<1>5. CASE Claim(p) \/ Link(p)
  <2>1. JobsKept
    BY <1>1, <1>5 DEF Claim, Link, JobsKept, JobRow
  <2> QED BY <1>2, <1>5, <2>1, Moving, Rested DEF Claim, Link
<1>6. CASE InsertRow(p)
  <2>1. PICK r : r = [NoEmail EXCEPT !.status = "pending", !.content = inv[p].want]
    OBVIOUS
  <2>2. r.status = "pending" /\ r.id = None
    BY <2>1 DEF NoEmail
  <2>3. ASSUME NEW k \in Keys
        PROVE  \/ email'[k] = email[k]
               \/ email'[k].status = "pending" /\ email'[k].id = None
    <3>1. email' = email \/ email' = [email EXCEPT ![Cur(p)] = r]
      BY <1>6, <2>1 DEF InsertRow
    <3>2. CASE k = Cur(p)
      BY <1>1, <2>2, <3>1, <3>2
    <3>3. CASE k # Cur(p)
      BY <1>1, <3>1, <3>3
    <3> QED BY <3>2, <3>3
  <2>4. RowsKept
    BY <1>6, <2>3 DEF InsertRow, RowsKept, Delivered
  <2> QED BY <1>2, <1>6, <2>4, Moving, Rested DEF InsertRow
<1>7. CASE Commit(p)
  <2>1. RowsKept
    BY <1>1, <1>7 DEF Commit, RowsKept, EmailRow, Delivered
  <2>2. JobsKept
    BY ZenonT(40), <1>1, <1>7 DEF Commit, JobsKept, JobRow
  <2> QED BY <1>2, <1>7, <2>1, <2>2, Moving, Rested DEF Commit, Enqueued
<1>8. CASE Catch(p) \/ Recant(p)
  <2>1. RowsKept
    BY <1>1, <1>8 DEF Catch, Recant, WriteNotSaved, RowsKept, EmailRow, Delivered
  <2>2. JobsKept
    BY ZenonT(40), <1>1, <1>8 DEF Catch, Recant, WriteNotSaved, JobsKept, JobRow
  <2> QED BY <1>8, <2>1, <2>2, Moving, Rested DEF Catch, Recant
<1> QED BY <1>3, <1>4, <1>5, <1>6, <1>7, <1>8 DEF Saving

\* A manual retry and the cron's loop answer nothing.
LEMMA LoopReports ==
  ASSUME TypeInv, NEW p \in Procs, Retrying(p) \/ Flushing(p)
  PROVE  RowsKept /\ JobsKept /\ AnswersKept /\ UNCHANGED provider
<1>1. inv[p] \in Invocation /\ job \in [Keys -> JobRow] /\ email \in [Keys -> EmailRow]
  BY DEF TypeInv, TypeOK
<1>2. CASE Recheck(p)
  <2>1. ASSUME NEW b, inv' = [inv EXCEPT ![p].pc = "rearm", ![p].seen[Cur(p)] = job[Cur(p)],
                                         ![p].flag = b]
        PROVE  AnswersKept
    <3>1. PICK i : i = [inv[p] EXCEPT !.pc = "rearm",
                                      !.seen = [inv[p].seen EXCEPT ![Cur(p)] = job[Cur(p)]],
                                      !.flag = b]
      OBVIOUS
    <3>2. i.pc = "rearm" /\ inv' = [inv EXCEPT ![p] = i]
      BY <1>1, <2>1, <3>1 DEF TypeInv, TypeOK, Invocation
    <3> QED BY <3>2, Without DEF Holding
  <2> QED BY <1>2, <2>1, Moving, Rested DEF Recheck
<1>3. CASE Rearm(p)
  <2>1. Cur(p) \in Keys
    BY <1>3, AtHand DEF Rearm, At, KeySteps
  <2>2. JobsKept
    BY ZenonT(40), <1>1, <1>3, <2>1 DEF Rearm, JobsKept, JobRow
  <2> QED BY <1>3, <2>2, Moving, Rested DEF Rearm
<1>4. CASE Sweep(p) \/ SelectDue(p) \/ NextDue(p)
  <2>1. ASSUME NEW step \in Steps \ Holding, NEW c, NEW s, NEW t,
               inv' = [inv EXCEPT ![p].pc = step, ![p].cur = c, ![p].seen = s, ![p].todo = t]
        PROVE  AnswersKept
    <3>1. PICK i : i = [inv[p] EXCEPT !.pc = step, !.cur = c, !.seen = s, !.todo = t]
      OBVIOUS
    <3>2. i.pc = step /\ inv' = [inv EXCEPT ![p] = i]
      BY <1>1, <2>1, <3>1 DEF TypeInv, TypeOK, Invocation
    <3> QED BY <3>2, Without
  <2>2. {"expire", "next", "read"} \subseteq Steps \ Holding
    BY DEF Steps, DeliverSteps, Holding
  <2>3. \E step \in Steps \ Holding : \E c, s, t :
          inv' = [inv EXCEPT ![p].pc = step, ![p].cur = c, ![p].seen = s, ![p].todo = t]
    <3>1. CASE Sweep(p)
      <4>1. inv' = [inv EXCEPT ![p].pc = "expire", ![p].cur = inv[p].cur, ![p].seen = job,
                               ![p].todo = {k \in Keys : job[k].state \in {"sending", "preparing"}
                                                         /\ job[k].lease < 0}]
        BY <1>1, <3>1 DEF Sweep, TypeInv, TypeOK, Invocation
      <4> QED BY <2>2, <4>1
    <3>2. CASE SelectDue(p)
      <4>1. inv' = [inv EXCEPT ![p].pc = "next", ![p].cur = inv[p].cur, ![p].seen = Blank,
                               ![p].todo = FirstDue]
        BY <1>1, <3>2 DEF SelectDue, TypeInv, TypeOK, Invocation
      <4> QED BY <2>2, <4>1
    <3>3. CASE NextDue(p)
      <4>1. PICK k \in Oldest(inv[p].todo) :
              inv' = [inv EXCEPT ![p].pc = "read", ![p].cur = k, ![p].todo = inv[p].todo \ {k}]
        BY <1>1, <3>3 DEF NextDue, TypeInv, TypeOK
      <4>2. inv' = [inv EXCEPT ![p].pc = "read", ![p].cur = k, ![p].seen = inv[p].seen,
                               ![p].todo = inv[p].todo \ {k}]
        BY <1>1, <4>1 DEF TypeInv, TypeOK, Invocation
      <4> QED BY <2>2, <4>2
    <3> QED BY <1>4, <3>1, <3>2, <3>3
  <2>4. AnswersKept
    BY <2>1, <2>3
  <2> QED BY <1>4, <2>4, Rested DEF Sweep, SelectDue, NextDue
<1>5. CASE Expire(p)
  <2>1. PICK k \in Oldest(inv[p].todo) :
          /\ SetState(k, inv[p].seen[k], SweepState(inv[p].seen[k]))
          /\ inv' = [inv EXCEPT ![p].todo = inv[p].todo \ {k}]
    BY <1>1, <1>5 DEF Expire, TypeInv, TypeOK
  <2>2. k \in Keys /\ SweepState(inv[p].seen[k]) \in Verdicts
    BY <1>1, <2>1 DEF Oldest, Invocation, SweepState, Verdicts
  <2>3. AnswersKept
    <3>1. PICK i : i = [inv[p] EXCEPT !.todo = inv[p].todo \ {k}]
      OBVIOUS
    <3>2. i.pc = "expire" /\ inv' = [inv EXCEPT ![p] = i]
      BY <1>1, <1>5, <2>1, <3>1 DEF Expire, At, TypeInv, TypeOK, Invocation
    <3> QED BY <3>2, Without DEF Holding
  <2>4. RowsKept /\ JobsKept
    BY <1>5, <2>1, <2>2, SetStateQuiet DEF Expire, RowsKept
  <2> QED BY <1>5, <2>3, <2>4 DEF Expire
<1>6. CASE PurgeEvents(p)
  BY <1>6, Moving, Rested DEF PurgeEvents, RowsKept
<1> QED BY <1>2, <1>3, <1>4, <1>5, <1>6 DEF Retrying, Flushing

\* The steps of deliverOutboxJob that answer nothing: they read, lease, begin, give up or clean up.
LEMMA AttemptReports ==
  ASSUME TypeInv, NEW p \in Procs,
         \/ LeaseJob(p) \/ Reread(p) \/ Fetch(p) \/ Begin(p)
         \/ SettleJob(p) \/ ErasePayload(p) \/ NotePayloadErased(p)
  PROVE  RowsKept /\ JobsKept /\ AnswersKept /\ UNCHANGED provider
<1>0. inv[p].pc \in KeySteps
  BY DEF LeaseJob, Reread, Fetch, Begin, SettleJob, ErasePayload, NotePayloadErased, At, KeySteps,
       DeliverSteps
<1>1. /\ Cur(p) \in Keys /\ inv[p] \in Invocation
      /\ job[Cur(p)] \in JobRow /\ email[Cur(p)] \in EmailRow
      /\ job \in [Keys -> JobRow] /\ email \in [Keys -> EmailRow]
  BY <1>0, AtHand DEF TypeInv, TypeOK
<1>2. {"reread", "send", "erased"} \subseteq Steps \ Holding
  BY DEF Steps, DeliverSteps, Holding
<1>3. CASE LeaseJob(p) \/ NotePayloadErased(p)
  <2>1. LeaseJob(p) => JobsKept
    <3>1. PICK r : r = [job[Cur(p)] EXCEPT !.state = "sending", !.lease = Lease,
                                           !.attempts = job[Cur(p)].attempts + 1]
      OBVIOUS
    <3>2. r.state = "sending"
      BY <1>1, <3>1 DEF JobRow
    <3> QED BY <1>1, <3>1, <3>2 DEF LeaseJob, JobsKept
  <2>2. NotePayloadErased(p) => JobsKept
    BY <1>1 DEF NotePayloadErased, JobsKept, JobRow
  <2> QED BY <1>2, <1>3, <2>1, <2>2, Moving, Rested DEF LeaseJob, NotePayloadErased
<1>4. ASSUME NEW step \in {"fetch", "begin"}, NEW c, NEW s,
             inv' = [inv EXCEPT ![p].pc = step, ![p].want = c, ![p].seen = s]
      PROVE  AnswersKept
  <2>1. PICK i : i = [inv[p] EXCEPT !.pc = step, !.want = c, !.seen = s]
    OBVIOUS
  <2>2. i.pc = step /\ inv' = [inv EXCEPT ![p] = i]
    BY <1>1, <1>4, <2>1 DEF TypeInv, TypeOK, Invocation
  <2> QED BY <2>2, Without DEF Holding
<1>5. CASE Reread(p)
  <2>1. inv' = [inv EXCEPT ![p].pc = "fetch", ![p].want = inv[p].want,
                           ![p].seen = [inv[p].seen EXCEPT ![Cur(p)] = job[Cur(p)]]]
    BY <1>1, <1>5 DEF Reread, TypeInv, TypeOK, Invocation
  <2> QED BY <1>4, <1>5, <2>1, Rested DEF Reread
<1>6. CASE Fetch(p)
  <2>1. inv' = [inv EXCEPT ![p].pc = "begin", ![p].want = payload[Cur(p)]] => AnswersKept
    <3>1. ASSUME inv' = [inv EXCEPT ![p].pc = "begin", ![p].want = payload[Cur(p)]]
          PROVE  inv' = [inv EXCEPT ![p].pc = "begin", ![p].want = payload[Cur(p)],
                                    ![p].seen = inv[p].seen]
      BY <1>1, <3>1 DEF TypeInv, TypeOK, Invocation
    <3> QED BY <1>4, <3>1
  <2>2. Unreadable(p) => AnswersKept
    BY Moving DEF Unreadable
  <2> QED BY <1>6, <2>1, <2>2, Rested DEF Fetch
<1>7. CASE Begin(p)
  <2>1. JobsKept
    BY <1>1, <1>7 DEF Begin, JobsKept, JobRow
  <2>2. RowsKept
    BY <1>1, <1>7 DEF Begin, RowsKept, EmailRow, Delivered
  <2> QED BY <1>2, <1>7, <2>1, <2>2, Moving, Rested DEF Begin
<1>8. CASE SettleJob(p)
  <2>1. inv[p].verdict \in Verdicts
    BY <1>8 DEF SettleJob, TypeInv, Located
  <2>2. RowsKept /\ JobsKept
    BY <1>1, <1>8, <2>1, SetStateQuiet DEF SettleJob, RowsKept
  <2> QED BY <1>8, <2>2, Moving DEF SettleJob
<1>9. CASE ErasePayload(p)
  BY <1>2, <1>9, Moving, Rested DEF ErasePayload
<1> QED BY <1>3, <1>5, <1>6, <1>7, <1>8, <1>9

\* One invocation comes to hold an answer under a known id; copies may have been made meanwhile.
LEMMA AnswerTaken ==
  ASSUME TypeInv, TypeInv', AnswersKnown, Grown, NEW p \in Procs, NEW i,
         i.cur \in Keys, i.seen[i.cur].id \in 1..copies'[i.cur], inv' = [inv EXCEPT ![p] = i]
  PROVE  AnswersKnown'
<1>1. SUFFICES ASSUME NEW q \in Procs, inv'[q].pc \in Holding
               PROVE  inv'[q].seen[inv'[q].cur].id \in 1..copies'[inv'[q].cur]
  BY DEF AnswersKnown, Row, Cur, Known
<1>2. CASE q = p
  BY <1>2 DEF TypeInv, TypeOK
<1>3. CASE q # p
  <2>1. inv'[q] = inv[q]
    BY <1>3 DEF TypeInv, TypeOK
  <2>2. inv[q].cur \in Keys
    BY <1>1, <2>1 DEF TypeInv, Located, Holding, KeySteps, DeliverSteps
  <2>3. /\ copies[inv[q].cur] \in Nat /\ copies'[inv[q].cur] \in Nat
        /\ copies[inv[q].cur] <= copies'[inv[q].cur]
    BY <2>2 DEF Grown, TypeInv, TypeOK
  <2> QED BY <1>1, <2>1, <2>3 DEF AnswersKnown, Row, Cur, Known
<1> QED BY <1>2, <1>3

\* An accepted job is read with the id it was recorded under.
LEMMA ReadReports ==
  ASSUME TypeInv, TypeInv', ReportInv, NEW p \in Procs, Read(p)
  PROVE  ReportInv'
<1>1. /\ Cur(p) \in Keys /\ inv[p] \in Invocation /\ inv[p].seen \in [Keys -> JobRow]
      /\ inv[p].cur = Cur(p)
  BY AtHand DEF Read, At, KeySteps, DeliverSteps, Invocation, Cur
<1>2. RowsKept /\ JobsKept /\ KeysSame /\ UNCHANGED copies
  BY Rested DEF Read
<1>3. CASE /\ job[Cur(p)].state = "accepted"
           /\ inv' = [inv EXCEPT ![p].pc = "final", ![p].seen[Cur(p)] = job[Cur(p)]]
  <2>1. PICK i : i = [inv[p] EXCEPT !.pc = "final",
                                    !.seen = [inv[p].seen EXCEPT ![Cur(p)] = job[Cur(p)]]]
    OBVIOUS
  <2>2. inv' = [inv EXCEPT ![p] = i] /\ i.cur = Cur(p) /\ i.seen[Cur(p)] = job[Cur(p)]
    BY <1>1, <1>3, <2>1 DEF TypeInv, TypeOK, Invocation
  <2>3. job[Cur(p)].id \in 1..copies'[Cur(p)] /\ Grown
    BY <1>1, <1>2, <1>3 DEF ReportInv, JobsKnown, Known, Grown, TypeInv, TypeOK
  <2>4. AnswersKnown'
    BY <1>1, <2>2, <2>3, AnswerTaken DEF ReportInv
  <2>5. RowInv'
    BY <1>2, <2>3, RowsStay DEF ReportInv
  <2>6. JobsKnown' /\ KeysRemembered'
    BY <1>2 DEF ReportInv, JobsKnown, JobsKept, KeysRemembered, KeysSame, Known
  <2> QED BY <2>4, <2>5, <2>6 DEF ReportInv
<1>4. CASE Leave(p) \/ Goto(p, "lease") \/ \E r, state : ToState(p, "refuse", r, state)
  <2>1. "lease" \in Steps \ Holding
    BY DEF Steps, DeliverSteps, Holding
  <2> QED BY <1>2, <1>4, <2>1, Moving, ReportKept
<1> QED BY <1>3, <1>4 DEF Read

\* The provider answers with the id of a copy it has made; a job that has not heard of it
\* waits for no report.
LEMMA SendReports ==
  ASSUME TypeInv, TypeInv', ReportInv, NEW p \in Procs, Send(p)
  PROVE  ReportInv'
<1>1. /\ Cur(p) \in Keys /\ inv[p] \in Invocation /\ inv[p].seen \in [Keys -> JobRow]
      /\ inv[p].cur = Cur(p) /\ Row(p) \in JobRow
  BY AtHand DEF Send, At, KeySteps, DeliverSteps, Invocation, Cur
<1>2. copies \in [Keys -> Nat] /\ receipt \in [Keys -> Nat \cup {None}]
  BY DEF TypeInv, TypeOK
<1>3. RowsKept /\ UNCHANGED job
  BY Rested DEF Send
<1>4. Grown /\ KeysRemembered'
  <2>1. CASE UNCHANGED provider
    BY <1>2, <2>1 DEF provider, Grown, ReportInv, KeysRemembered
  <2>2. CASE /\ copies' = [copies EXCEPT ![Cur(p)] = copies[Cur(p)] + 1]
             /\ receipt' = receipt \/ receipt' = [receipt EXCEPT ![Cur(p)] = 0]
    BY <1>1, <1>2, <2>2 DEF Grown, ReportInv, KeysRemembered
  <2> QED BY <2>1, <2>2 DEF Send, Accept
<1>5. RowInv'
  BY <1>3, <1>4, RowsStay DEF ReportInv
<1>6. JobsKnown'
  BY <1>2, <1>3, <1>4 DEF ReportInv, JobsKnown, Known, Grown, TypeInv, TypeOK
<1>7. CASE \E state : ToState(p, "settle", Row(p), state)
  <2>1. AnswersKept
    BY <1>7, Moving
  <2>2. AnswersKnown'
    <3> SUFFICES ASSUME NEW q \in Procs, inv'[q].pc \in Holding
                 PROVE  inv'[q].seen[inv'[q].cur].id \in 1..copies'[inv'[q].cur]
      BY DEF AnswersKnown, Row, Cur, Known
    <3>1. inv[q].cur \in Keys /\ inv[q].seen[inv[q].cur].id \in 1..copies[inv[q].cur]
      BY <2>1 DEF AnswersKept, ReportInv, AnswersKnown, Row, Cur, Known, TypeInv, Located, Holding,
                  KeySteps, DeliverSteps
    <3> QED BY <1>2, <1>4, <2>1, <3>1 DEF AnswersKept, Grown, TypeInv, TypeOK
  <2> QED BY <1>4, <1>5, <1>6, <2>2 DEF ReportInv
<1>8. CASE /\ Accept(p)
           /\ inv' = [inv EXCEPT ![p].pc = "record", ![p].want = None,
                                 ![p].seen[Cur(p)] = [Row(p) EXCEPT !.id = copies'[Cur(p)],
                                                                    !.state = "accepted"]]
  <2>1. copies'[Cur(p)] \in 1..copies'[Cur(p)]
    BY <1>1, <1>2, <1>8 DEF Accept, provider, ReportInv, KeysRemembered
  <2>2. PICK r : r = [Row(p) EXCEPT !.id = copies'[Cur(p)], !.state = "accepted"]
    OBVIOUS
  <2>3. r.id = copies'[Cur(p)]
    BY <1>1, <2>2 DEF JobRow
  <2>4. PICK i : i = [inv[p] EXCEPT !.pc = "record", !.want = None,
                                    !.seen = [inv[p].seen EXCEPT ![Cur(p)] = r]]
    OBVIOUS
  <2>5. i.cur = Cur(p) /\ i.seen[Cur(p)] = r
    BY <1>1, <2>4 DEF Invocation
  <2>6. inv' = [inv EXCEPT ![p] = i]
    BY <1>1, <1>8, <2>2, <2>4 DEF TypeInv, TypeOK, Invocation
  <2>7. AnswersKnown'
    BY <1>1, <1>4, <2>1, <2>3, <2>5, <2>6, AnswerTaken DEF ReportInv
  <2> QED BY <1>4, <1>5, <1>6, <2>7 DEF ReportInv
<1> QED BY <1>7, <1>8 DEF Send

\* The answer is recorded in the job under the id it came with.
LEMMA RecordReports ==
  ASSUME TypeInv, TypeInv', ReportInv, NEW p \in Procs, Record(p)
  PROVE  ReportInv'
<1>1. /\ Cur(p) \in Keys /\ inv[p] \in Invocation /\ job \in [Keys -> JobRow]
      /\ inv[p].pc = "record"
  BY AtHand DEF Record, At, KeySteps, DeliverSteps, TypeInv, TypeOK
<1>2. RowsKept /\ Grown /\ UNCHANGED <<copies, receipt>>
  BY Rested DEF Record, provider, Grown, TypeInv, TypeOK
<1>3. Row(p).id \in Known(Cur(p))
  BY <1>1 DEF ReportInv, AnswersKnown, Holding
<1>4. AnswersKept
  <2>1. PICK i : i = [inv[p] EXCEPT !.pc = "final"]
    OBVIOUS
  <2>2. i.cur = inv[p].cur /\ i.seen = inv[p].seen /\ inv' = [inv EXCEPT ![p] = i]
    BY <1>1, <2>1 DEF Record, Goto, Invocation
  <2> QED BY <1>1, <2>2 DEF AnswersKept, Holding, TypeInv, TypeOK
<1>5. AnswersKnown'
  BY <1>2, <1>4 DEF ReportInv, AnswersKnown, AnswersKept, Row, Cur, Known
<1>6. JobsKnown'
  BY <1>1, <1>2, <1>3 DEF Record, ReportInv, JobsKnown, Known, JobRow
<1>7. RowInv' /\ KeysRemembered'
  BY <1>2, RowsStay DEF ReportInv, KeysRemembered
<1> QED BY <1>5, <1>6, <1>7 DEF ReportInv

\* finalizeAccepted gives the row its id, and what was reported meanwhile; a row that shows a
\* report already shows it of the only copy.
LEMMA RepairReports ==
  ASSUME TypeInv, TypeInv', ReportInv, NEW p \in Procs, RepairSent(p)
  PROVE  ReportInv'
<1> DEFINE k == Cur(p)
           id == Row(p).id
<1>1. k \in Keys /\ inv[p].pc = "final" /\ email \in [Keys -> EmailRow] /\ copies \in [Keys -> Nat]
  BY AtHand DEF RepairSent, At, KeySteps, DeliverSteps, TypeInv, TypeOK
<1>2. id \in Known(k)
  BY <1>1 DEF ReportInv, AnswersKnown, Holding
<1>3. PICK r : r = [email[k] EXCEPT !.id = id,
                                    !.status = IF email[k].status \in Unsettled
                                               THEN Reported(k, id) ELSE email[k].status]
  OBVIOUS
<1>4. /\ r.id = id
      /\ r.status = IF email[k].status \in Unsettled THEN Reported(k, id) ELSE email[k].status
  BY <1>1, <1>3 DEF EmailRow
<1>5. email' = email \/ email' = [email EXCEPT ![k] = r]
  BY <1>1, <1>3 DEF RepairSent, EmailRow
<1>6. UNCHANGED <<events, copies, job, receipt>>
  BY DEF RepairSent, provider
<1>7. email[k].status = "none" => email' = email
  BY DEF RepairSent
<1>8. RowInv'
  <2>1. CASE email' = email
    BY <1>6, <2>1, RowsStay, Rested DEF ReportInv, Grown, TypeInv, TypeOK
  <2>2. CASE email' = [email EXCEPT ![k] = r] /\ email[k].status # "none"
    <3>1. \A j \in Keys : email'[j] = IF j = k THEN r ELSE email[j]
      BY <1>1, <2>2
    <3>2. r.id \in Known(k) /\ r.id # None
      BY <1>2, <1>4, OutboxAssumption DEF Known
    <3> HIDE DEF k
    <3>3. RowsKnown'
      BY <1>6, <3>1, <3>2 DEF ReportInv, RowInv, RowsKnown, Known
    <3>4. ReportsKnown'
      BY <1>6 DEF ReportInv, RowInv, ReportsKnown, Known
    <3>5. ASSUME NEW e \in events, copies[e.key] = 1, email'[e.key].id = e.id,
                 email'[e.key].status \in Delivered
          PROVE  email'[e.key].status = e.status
      <4>1. e.key \in Keys /\ e.id \in Known(e.key)
        BY DEF ReportInv, RowInv, ReportsKnown, TypeInv, TypeOK, EventRow
      <4>2. CASE e.key # k
        BY <3>1, <3>5, <4>1, <4>2 DEF ReportInv, RowInv, SentRowShowsReport
      <4>3. CASE e.key = k /\ email[k].status \in Unsettled
        <5>1. e.id = r.id
          BY <3>1, <3>5, <4>1, <4>3
        <5>2. Reported(k, r.id) = e.status
          <6>1. e \in {f \in events : f.key = k /\ f.id = r.id}
            BY <4>3, <5>1
          <6>2. PICK f \in events : f.key = k /\ f.id = r.id /\ Reported(k, r.id) = f.status
            BY <6>1 DEF Reported
          <6> QED BY <4>3, <5>1, <6>2 DEF ReportInv, RowInv, ReportsKnown
        <5> QED BY <1>4, <3>1, <4>1, <4>3, <5>2
      <4>4. CASE e.key = k /\ email[k].status \notin Unsettled
        <5>1. r.status = email[k].status /\ email'[e.key] = r
          BY <1>4, <3>1, <4>1, <4>4
        <5>2. email[k].id # None /\ email[k].id \in Known(k) /\ e.id \in Known(k)
          BY <3>5, <4>1, <4>4, <5>1 DEF ReportInv, RowInv, RowsKnown
        <5>3. email[k].id = e.id
          BY <3>5, <4>4, <5>2 DEF Known
        <5> QED BY <3>5, <4>4, <5>1, <5>3 DEF ReportInv, RowInv, SentRowShowsReport
      <4> QED BY <4>2, <4>3, <4>4
    <3>6. SentRowShowsReport'
      BY <1>6, <3>5 DEF SentRowShowsReport
    <3> QED BY <3>3, <3>4, <3>6 DEF RowInv
  <2> QED BY <1>5, <1>7, <2>1, <2>2
<1>9. AnswersKept
  <2>1. "erase" \in Steps \ Holding
    BY DEF Steps, DeliverSteps, Holding
  <2> QED BY <2>1, Moving DEF RepairSent
<1>10. AnswersKnown' /\ JobsKnown' /\ KeysRemembered'
  BY <1>6, <1>9 DEF ReportInv, AnswersKnown, AnswersKept, JobsKnown, KeysRemembered, Row, Cur, Known
<1> QED BY <1>8, <1>10 DEF ReportInv

\* A report replaces the earlier one on its copy, in the row as well if it shows that copy.
LEMMA WebhookReports ==
  ASSUME TypeInv, TypeInv', ReportInv, NEW k \in Keys, NEW n, NEW status \in Events,
         Webhook(k, n, status)
  PROVE  ReportInv'
<1> DEFINE new == [key |-> k, id |-> n, status |-> status, age |-> 0]
<1>1. /\ UNCHANGED <<job, copies, receipt, inv>> /\ n \in Known(k)
      /\ events' = {e \in events : ~(e.key = k /\ e.id = n)} \cup {new}
      /\ email \in [Keys -> EmailRow] /\ copies \in [Keys -> Nat]
  BY DEF Webhook, provider, Known, TypeInv, TypeOK
<1>2. \A j \in Keys : /\ email'[j].id = email[j].id
                      /\ email'[j].status = IF j = k /\ email[k].id = n
                                            THEN status ELSE email[j].status
  BY <1>1 DEF Webhook, EmailRow
<1>3. n # None
  BY <1>1, OutboxAssumption DEF Known
<1>4. new.key = k /\ new.id = n /\ new.status = status
  OBVIOUS
<1> HIDE DEF new
<1>5. \A e \in events' : \/ e = new
                         \/ e \in events /\ ~(e.key = k /\ e.id = n)
  BY <1>1
<1>6. \A e \in events : e.key \in Keys /\ e.id \in Known(e.key)
  BY DEF ReportInv, RowInv, ReportsKnown, TypeInv, TypeOK, EventRow
<1>7. RowsKnown'
  BY <1>1, <1>2, <1>3 DEF ReportInv, RowInv, RowsKnown, Known
<1>8. ReportsKnown'
  <2>1. \A e \in events' : e.id \in 1..copies'[e.key]
    BY <1>1, <1>5, <1>4, <1>6 DEF Known
  <2>2. \A e, f \in events' : e.key = f.key /\ e.id = f.id => e.status = f.status
    BY <1>5, <1>4 DEF ReportInv, RowInv, ReportsKnown
  <2> QED BY <2>1, <2>2 DEF ReportsKnown, Known
<1>9. SentRowShowsReport'
  <2> SUFFICES ASSUME NEW e \in events', copies'[e.key] = 1, email'[e.key].id = e.id,
                      email'[e.key].status \in Delivered
               PROVE  email'[e.key].status = e.status
    BY DEF SentRowShowsReport
  <2>1. CASE e = new
    BY <1>2, <1>4, <2>1
  <2>2. CASE e \in events /\ ~(e.key = k /\ e.id = n)
    BY <1>1, <1>2, <1>6, <2>2 DEF ReportInv, RowInv, SentRowShowsReport
  <2> QED BY <1>5, <2>1, <2>2
<1>10. AnswersKnown' /\ JobsKnown' /\ KeysRemembered'
  BY <1>1 DEF ReportInv, AnswersKnown, JobsKnown, KeysRemembered, Row, Cur, Known
<1> QED BY <1>7, <1>8, <1>9, <1>10 DEF ReportInv, RowInv

\* Time changes no id, no status and no acceptance.
LEMMA TickReports ==
  ASSUME TypeInv, TypeInv', ReportInv, Tick
  PROVE  ReportInv'
<1>1. \A k \in Keys : job'[k].state = job[k].state /\ job'[k].id = job[k].id
  <2> SUFFICES ASSUME NEW k \in Keys
               PROVE  job'[k].state = job[k].state /\ job'[k].id = job[k].id
    OBVIOUS
  <2>1. job[k] \in JobRow /\ job'[k] = Aged(job[k])
    BY DEF Tick, TypeInv, TypeOK
  <2> QED BY <2>1 DEF Aged, JobRow
<1>2. RowsKept
  <2>1. \A e \in events' : \E f \in events : f.key = e.key /\ f.id = e.id /\ f.status = e.status
    BY DEF Tick, TypeInv, TypeOK, EventRow
  <2> QED BY <2>1 DEF Tick, RowsKept
<1>3. AnswersKept
  <2> SUFFICES ASSUME NEW p \in Procs, inv'[p].pc \in Holding
               PROVE  /\ inv[p].pc \in Holding /\ inv'[p].cur = inv[p].cur
                      /\ inv'[p].seen[inv[p].cur].id = inv[p].seen[inv[p].cur].id
    BY DEF AnswersKept
  <2>1. inv[p] \in Invocation /\ Located(inv[p]) /\ inv \in [Procs -> Invocation]
    BY DEF TypeInv, TypeOK
  <2>2. CASE inv'[p] = inv[p]
    BY <2>2
  <2>3. CASE ~At(p, "idle")
    <3>1. PICK s : s = [k \in Keys |-> Aged(inv[p].seen[k])]
      OBVIOUS
    <3>2. inv'[p] = [inv[p] EXCEPT !.age = inv[p].age + 1, !.seen = s]
      BY <2>1, <2>3, <3>1 DEF Tick
    <3>3. inv'[p].pc = inv[p].pc /\ inv'[p].cur = inv[p].cur /\ inv'[p].seen = s
      BY <2>1, <3>2 DEF Invocation
    <3>4. inv[p].cur \in Keys
      BY <2>1, <3>3 DEF Located, Holding, KeySteps, DeliverSteps
    <3>5. inv[p].seen[inv[p].cur] \in JobRow /\ s[inv[p].cur] = Aged(inv[p].seen[inv[p].cur])
      BY <2>1, <3>1, <3>4 DEF Invocation
    <3>6. s[inv[p].cur].id = inv[p].seen[inv[p].cur].id
      BY <3>5 DEF Aged, JobRow
    <3> QED BY <3>3, <3>6
  <2> QED BY <2>2, <2>3 DEF Tick
<1>4. KeysSame /\ UNCHANGED copies
  BY DEF Tick, KeysSame, Older
<1> QED BY <1>1, <1>2, <1>3, <1>4, ReportKept DEF JobsKept

\* Every step keeps what the Sent row's status rests on.
LEMMA ReportStep == TypeInv /\ TypeInv' /\ ReportInv /\ Next => ReportInv'
<1> SUFFICES ASSUME TypeInv, TypeInv', ReportInv, Next PROVE ReportInv'
  OBVIOUS
<1>1. ASSUME NEW p \in Procs, Saving(p) PROVE ReportInv'
  BY <1>1, SavingReports, Rested, ReportKept
<1>2. ASSUME NEW p \in Procs, Retrying(p) \/ Flushing(p) PROVE ReportInv'
  BY <1>2, LoopReports, Rested, ReportKept
<1>3. ASSUME NEW p \in Procs, Delivering(p) PROVE ReportInv'
  BY <1>3, AttemptReports, ReadReports, SendReports, RecordReports, RepairReports, Rested,
     ReportKept DEF Delivering
<1>4. ASSUME NEW p \in Procs, NEW i, i.pc \notin Holding, Start(p, i) PROVE ReportInv'
  BY <1>4, Without, Rested, ReportKept DEF Start
<1>5. ASSUME NEW p \in Procs, StartFlush(p) PROVE ReportInv'
  <2>1. [Idle EXCEPT !.pc = "sweep", !.flush = TRUE, !.agent = configured].pc = "sweep"
    BY DEF Idle
  <2> QED BY <1>4, <1>5, <2>1 DEF StartFlush, Holding
<1>6. ASSUME NEW p \in Procs, NEW k \in Keys, NEW c \in Contents, StartSend(p, k, c)
      PROVE  ReportInv'
  <2>1. [Idle EXCEPT !.pc = "reserve", !.cur = k, !.agent = configured, !.want = c].pc = "reserve"
    BY DEF Idle
  <2> QED BY <1>4, <1>6, <2>1 DEF StartSend, Holding
<1>7. ASSUME NEW p \in Procs, NEW k \in Keys, NEW confirm \in BOOLEAN, StartRetry(p, k, confirm)
      PROVE  ReportInv'
  <2>1. [Idle EXCEPT !.pc = "recheck", !.cur = k, !.agent = configured, !.flag = confirm].pc
          = "recheck"
    BY DEF Idle
  <2> QED BY <1>4, <1>7, <2>1 DEF StartRetry, Holding
<1>8. ASSUME NEW p \in Procs, SaveFails(p) \/ Abort(p) PROVE ReportInv'
  <2>1. "catch" \in Steps \ Holding
    BY DEF Steps, EnqueueSteps, SavingSteps, Holding
  <2> QED BY <1>8, <2>1, Moving, Rested, ReportKept DEF SaveFails, Abort
<1>9. CASE Redeploy
  BY <1>9, Rested, ReportKept DEF Redeploy
<1>10. CASE Tick
  BY <1>10, TickReports
<1>11. ASSUME NEW k \in Keys, NEW n \in 1..(1 + MaxAcks), NEW s \in Events, Webhook(k, n, s)
       PROVE  ReportInv'
  BY <1>11, WebhookReports
<1> QED
  BY <1>1, <1>2, <1>3, <1>5, <1>6, <1>7, <1>8, <1>9, <1>10, <1>11 DEF Next, Step

\* The outbox never leaves the invariant behind the Sent row's status; in particular an
\* accepted job names a copy that the provider has made.
THEOREM ReportInvariant == Spec => []ReportInv
<1>1. Init => ReportInv
  BY DEF Init, ReportInv, AnswersKnown, JobsKnown, KeysRemembered, RowInv, RowsKnown, ReportsKnown,
         SentRowShowsReport, Blank, NoJob, NoEmail, Idle, Holding, Delivered
<1>2. TypeInv /\ TypeInv' /\ ReportInv /\ [Next]_vars => ReportInv'
  <2>1. TypeInv /\ ReportInv /\ UNCHANGED vars => ReportInv'
    BY DEF vars, world, provider, ReportInv, AnswersKnown, JobsKnown, KeysRemembered, RowInv,
           RowsKnown, ReportsKnown, SentRowShowsReport, Known, Row, Cur
  <2> QED BY <2>1, ReportStep
<1> QED BY <1>1, <1>2, TypeInvariant, PTL DEF Spec

\* However reports and the recording of the acceptance overtake each other, and whatever is
\* retried or dies in between, the Sent row of a message sent once shows the last report:
\* finalizeAccepted reads the reports it missed, and later ones find the row by its id.
THEOREM SentRowIsCurrent == Spec => []SentRowShowsReport
<1>1. ReportInv => SentRowShowsReport
  BY DEF ReportInv, RowInv
<1> QED BY <1>1, ReportInvariant, PTL
=============================================================================
