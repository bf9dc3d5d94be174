------------------------ MODULE OutboxPromiseProofs ------------------------
(***************************************************************************)
(* The outbox keeps its promise to the sender, under timing hypotheses     *)
(* that name what the code relies on and does not enforce:                 *)
(*                                                                         *)
(*   SavesInTime       enqueueOutbound ends within its lease, and the      *)
(*                     cron fails the rows that it has just selected;      *)
(*   ResendTiming      Resend remembers a key beyond the retry window and  *)
(*                     the attempt that starts at its end, and a manual    *)
(*                     retry writes back the row that it has just read;    *)
(*   CloudflareTiming  SavesInTime, and an attempt that must not send      *)
(*                     because MAIL_PROVIDER was changed says so at once.  *)
(*                                                                         *)
(* On Resend a copy too many meets the key of the copy before it: while    *)
(* every copy granted has left, whoever may still send started when the    *)
(* key was known and ends before it is forgotten (ReceiptInv).             *)
(*                                                                         *)
(* On Cloudflare nothing absorbs a second copy, so it is the job's state   *)
(* that pays: copies made and attempts on their way are never more than    *)
(* the copies the sender has granted beyond the first, and one more while  *)
(* the state admits that a copy may have left (BudgetInv).                 *)
(*                                                                         *)
(* A send that is reported as not saved although its commit had taken      *)
(* effect writes "failed" over whatever the job has become: one more copy  *)
(* may leave on Cloudflare for each such report (recanted).                *)
(*                                                                         *)
(* Both need that a job is one saver's until it is committed, and that an  *)
(* accepted job stays accepted unless it is recanted (SaveInv).            *)
(***************************************************************************)
EXTENDS OutboxSentProofs, FiniteSetTheorems

-----------------------------------------------------------------------------
(* What the steps write and where they leave an invocation *)

\* Invocation p's locals become i: it goes on with its key at the next step, or leaves it.
Turns(p, i) == inv' = [inv EXCEPT ![p] = i]
On(p, i, step) ==
  /\ Turns(p, i)
  /\ i.pc = step /\ i.cur = inv[p].cur /\ i.age = inv[p].age /\ i.agent = inv[p].agent
Off(p, i) ==
  /\ Turns(p, i)
  /\ i.pc \in {"idle", "read", "next"}
  /\ i.pc # "idle" => i.age = inv[p].age /\ i.agent = inv[p].agent

\* What the guarantees read of a job row is as it was.
Same(k) ==
  /\ job'[k].state = job[k].state /\ job'[k].prepared = job[k].prepared
  /\ job'[k].content = job[k].content /\ job'[k].kind = job[k].kind
  /\ job'[k].age = job[k].age /\ job'[k].lease = job[k].lease
OthersSame(p) == \A k \in Keys \ {Cur(p)} : Same(k)

\* Moving on by a step alone keeps every other local.
LEMMA GotoOn ==
  ASSUME TypeInv, NEW p \in Procs, NEW step, Goto(p, step)
  PROVE  \E i : /\ On(p, i, step)
                /\ i.flag = inv[p].flag /\ i.want = inv[p].want
                /\ i.seen = inv[p].seen /\ i.todo = inv[p].todo
<1>1. PICK i : i = [inv[p] EXCEPT !.pc = step]
  OBVIOUS
<1>2. /\ i.pc = step /\ i.cur = inv[p].cur /\ i.age = inv[p].age /\ i.agent = inv[p].agent
      /\ i.flag = inv[p].flag /\ i.want = inv[p].want
      /\ i.seen = inv[p].seen /\ i.todo = inv[p].todo
  BY <1>1 DEF TypeInv, TypeOK, Invocation
<1>3. inv' = [inv EXCEPT ![p] = i]
  BY <1>1 DEF Goto
<1> QED BY <1>2, <1>3 DEF On, Turns

\* The await of setState carries the state to write.
LEMMA ToStateOn ==
  ASSUME TypeInv, NEW p \in Procs, NEW step, NEW r, NEW state, ToState(p, step, r, state)
  PROVE  \E i : On(p, i, step) /\ i.verdict = state
<1>1. PICK i : i = [inv[p] EXCEPT !.pc = step, !.want = None, !.verdict = state,
                                  !.seen = [inv[p].seen EXCEPT ![Cur(p)] = r]]
  OBVIOUS
<1>2. /\ i.pc = step /\ i.cur = inv[p].cur /\ i.age = inv[p].age /\ i.agent = inv[p].agent
      /\ i.verdict = state
  BY <1>1 DEF TypeInv, TypeOK, Invocation
<1>3. inv' = [inv EXCEPT ![p] = i]
  BY <1>1 DEF ToState
<1> QED BY <1>2, <1>3 DEF On, Turns

\* The await that takes a row along, with a payload and a flag.
Takes(p, step, c, b, s) ==
  inv' = [inv EXCEPT ![p].pc = step, ![p].want = c, ![p].flag = b, ![p].seen = s]

\* Taking a row along keeps the key.
LEMMA SeenOn ==
  ASSUME TypeInv, NEW p \in Procs, NEW step, NEW c, NEW b, NEW s, Takes(p, step, c, b, s)
  PROVE  \E i : On(p, i, step) /\ i.flag = b /\ i.want = c /\ i.seen = s
<1>1. PICK i : i = [inv[p] EXCEPT !.pc = step, !.want = c, !.flag = b, !.seen = s]
  OBVIOUS
<1>2. /\ i.pc = step /\ i.cur = inv[p].cur /\ i.age = inv[p].age /\ i.agent = inv[p].agent
      /\ i.flag = b /\ i.want = c /\ i.seen = s
  BY <1>1 DEF TypeInv, TypeOK, Invocation
<1>3. inv' = [inv EXCEPT ![p] = i]
  BY <1>1 DEF Takes, TypeInv, TypeOK, Invocation
<1> QED BY <1>2, <1>3 DEF On, Turns

\* Returning, ending and handing the job's id to deliverOutboxJob leave the key.
LEMMA Departs ==
  ASSUME TypeInv, NEW p \in Procs, Done(p) \/ Deliver(p) \/ Leave(p)
  PROVE  \E i : Off(p, i)
<1>1. CASE Done(p)
  <2>1. Off(p, Idle)
    BY <1>1 DEF Off, Turns, Done, Idle
  <2> QED BY <2>1
<1>2. CASE Deliver(p)
  <2>1. PICK i : i = [Idle EXCEPT !.pc = "read", !.cur = Cur(p), !.age = inv[p].age,
                                  !.agent = inv[p].agent]
    OBVIOUS
  <2>2. i.pc = "read" /\ i.age = inv[p].age /\ i.agent = inv[p].agent
    BY <2>1 DEF Idle
  <2> QED BY <1>2, <2>1, <2>2 DEF Off, Turns, Deliver
<1>3. CASE Leave(p)
  <2>1. PICK i : i = [Idle EXCEPT !.pc = "next", !.flush = TRUE, !.age = inv[p].age,
                                  !.agent = inv[p].agent, !.todo = inv[p].todo]
    OBVIOUS
  <2>2. i.pc = "next" /\ i.age = inv[p].age /\ i.agent = inv[p].agent
    BY <2>1 DEF Idle
  <2>3. Done(p) \/ Off(p, i)
    BY <1>3, <2>1, <2>2 DEF Off, Turns, Leave
  <2> QED BY <1>1, <2>3
<1> QED BY <1>1, <1>2, <1>3

\* One row is written, the others are not.
LEMMA Written ==
  ASSUME TypeInv, NEW k \in Keys, NEW r, job' = [job EXCEPT ![k] = r]
  PROVE  job'[k] = r /\ \A j \in Keys \ {k} : Same(j)
BY DEF TypeInv, TypeOK, Same

\* A job that nobody writes.
LEMMA Unwritten == UNCHANGED job => \A k \in Keys : Same(k)
BY DEF Same

\* The reservation makes a row under its own lease, or leaves the one it finds.
LEMMA ReserveWrites ==
  ASSUME TypeInv, NEW p \in Procs, Reserve(p)
  PROVE  /\ Cur(p) \in Keys /\ OthersSame(p)
         /\ job[Cur(p)].state # "none" => Same(Cur(p))
         /\ job[Cur(p)].state = "none" =>
              /\ job'[Cur(p)].state = "preparing" /\ ~job'[Cur(p)].prepared
              /\ job'[Cur(p)].content = inv[p].want /\ job'[Cur(p)].kind = inv[p].agent
              /\ job'[Cur(p)].age = None /\ job'[Cur(p)].lease = Lease - inv[p].age
<1>1. Cur(p) \in Keys
  BY AtHand DEF Reserve, At, KeySteps, EnqueueSteps
<1>2. PICK r : r = NewJob(p)
  OBVIOUS
<1>3. /\ r.state = "preparing" /\ ~r.prepared /\ r.content = inv[p].want
      /\ r.kind = inv[p].agent /\ r.age = None /\ r.lease = Lease - inv[p].age
  BY <1>2 DEF NewJob, NoJob
<1>4. job' = IF job[Cur(p)].state = "none" THEN [job EXCEPT ![Cur(p)] = r] ELSE job
  BY <1>2 DEF Reserve
<1> QED BY <1>1, <1>3, <1>4, Written, Unwritten DEF OthersSame

\* A claim takes the row over under a lease of its own.
LEMMA ClaimWrites ==
  ASSUME TypeInv, NEW p \in Procs, Claim(p)
  PROVE  /\ Cur(p) \in Keys /\ OthersSame(p)
         /\ job'[Cur(p)].prepared = job[Cur(p)].prepared
         /\ job'[Cur(p)].content = job[Cur(p)].content
         /\ job'[Cur(p)].kind = job[Cur(p)].kind /\ job'[Cur(p)].age = job[Cur(p)].age
         /\ ~Claimable(Cur(p), inv[p].age) => Same(Cur(p))
         /\ Claimable(Cur(p), inv[p].age) =>
              job'[Cur(p)].state = "preparing" /\ job'[Cur(p)].lease = Lease - inv[p].age
<1>1. Cur(p) \in Keys /\ job[Cur(p)] \in JobRow
  BY AtHand DEF Claim, At, KeySteps, EnqueueSteps
<1>2. PICK r : r = [job[Cur(p)] EXCEPT !.state = "preparing", !.lease = Lease - inv[p].age]
  OBVIOUS
<1>3. /\ r.state = "preparing" /\ r.prepared = job[Cur(p)].prepared
      /\ r.content = job[Cur(p)].content
      /\ r.kind = job[Cur(p)].kind /\ r.age = job[Cur(p)].age /\ r.lease = Lease - inv[p].age
  BY <1>1, <1>2 DEF JobRow
<1>4. job' = IF Claimable(Cur(p), inv[p].age) THEN [job EXCEPT ![Cur(p)] = r] ELSE job
  BY <1>1, <1>2 DEF Claim, TypeInv, TypeOK
<1> QED BY <1>1, <1>3, <1>4, Written, Unwritten DEF OthersSame, Same

\* What the steps that save set: nothing the guarantees read, the prepared job, or the failed one.
LEMMA SaveWrites ==
  ASSUME TypeInv, NEW p \in Procs
  PROVE  /\ Link(p) \/ NotePayloadErased(p) => Cur(p) \in Keys /\ OthersSame(p) /\ Same(Cur(p))
         /\ Commit(p) =>
              /\ Cur(p) \in Keys /\ OthersSame(p)
              /\ job'[Cur(p)].state = "pending" /\ job'[Cur(p)].prepared
              /\ job'[Cur(p)].content = job[Cur(p)].content
              /\ job'[Cur(p)].kind = job[Cur(p)].kind /\ job'[Cur(p)].age = job[Cur(p)].age
         /\ Catch(p) \/ Recant(p) =>
              /\ Cur(p) \in Keys /\ OthersSame(p)
              /\ job'[Cur(p)].state = "failed" /\ job'[Cur(p)].prepared = job[Cur(p)].prepared
              /\ job'[Cur(p)].content = job[Cur(p)].content
              /\ job'[Cur(p)].kind = job[Cur(p)].kind /\ job'[Cur(p)].age = job[Cur(p)].age
<1>1. ASSUME inv[p].pc \in KeySteps
      PROVE  Cur(p) \in Keys /\ job[Cur(p)] \in JobRow
  BY <1>1, AtHand
<1>2. ASSUME Link(p) \/ NotePayloadErased(p)
      PROVE  Cur(p) \in Keys /\ OthersSame(p) /\ Same(Cur(p))
  <2>1. Cur(p) \in Keys /\ job[Cur(p)] \in JobRow
    BY <1>1, <1>2
       DEF Link, NotePayloadErased, At, KeySteps, EnqueueSteps, SavingSteps, DeliverSteps
  <2>2. PICK r \in {[job[Cur(p)] EXCEPT !.linked = TRUE], [job[Cur(p)] EXCEPT !.bytes = FALSE]} :
          job' = [job EXCEPT ![Cur(p)] = r]
    BY <1>2 DEF Link, NotePayloadErased, TypeInv, TypeOK
  <2>3. /\ r.state = job[Cur(p)].state /\ r.prepared = job[Cur(p)].prepared
        /\ r.content = job[Cur(p)].content
        /\ r.kind = job[Cur(p)].kind /\ r.age = job[Cur(p)].age /\ r.lease = job[Cur(p)].lease
    BY <2>1 DEF JobRow
  <2> QED BY <2>1, <2>2, <2>3, Written DEF OthersSame, Same
<1>3. ASSUME Commit(p)
      PROVE  /\ Cur(p) \in Keys /\ OthersSame(p)
             /\ job'[Cur(p)].state = "pending" /\ job'[Cur(p)].prepared
             /\ job'[Cur(p)].content = job[Cur(p)].content
             /\ job'[Cur(p)].kind = job[Cur(p)].kind /\ job'[Cur(p)].age = job[Cur(p)].age
  <2>1. Cur(p) \in Keys /\ job[Cur(p)] \in JobRow
    BY <1>1, <1>3 DEF Commit, At, KeySteps, EnqueueSteps, SavingSteps
  <2>2. PICK r : r = [job[Cur(p)] EXCEPT !.state = "pending", !.prepared = TRUE,
                                         !.bytes = TRUE, !.lease = Past]
    OBVIOUS
  <2>3. job' = [job EXCEPT ![Cur(p)] = r]
    BY <1>3, <2>1, <2>2 DEF Commit, TypeInv, TypeOK
  <2>4. /\ r.state = "pending" /\ r.prepared /\ r.content = job[Cur(p)].content
        /\ r.kind = job[Cur(p)].kind /\ r.age = job[Cur(p)].age
    BY <2>1, <2>2 DEF JobRow
  <2> QED BY <2>1, <2>3, <2>4, Written DEF OthersSame
<1>4. ASSUME Catch(p) \/ Recant(p)
      PROVE  /\ Cur(p) \in Keys /\ OthersSame(p)
             /\ job'[Cur(p)].state = "failed" /\ job'[Cur(p)].prepared = job[Cur(p)].prepared
             /\ job'[Cur(p)].content = job[Cur(p)].content
             /\ job'[Cur(p)].kind = job[Cur(p)].kind /\ job'[Cur(p)].age = job[Cur(p)].age
  <2>1. Cur(p) \in Keys /\ job[Cur(p)] \in JobRow
    BY <1>1, <1>4 DEF Catch, Recant, At, KeySteps, EnqueueSteps, SavingSteps
  <2>2. PICK r : r = [job[Cur(p)] EXCEPT !.state = "failed", !.lease = Past]
    OBVIOUS
  <2>3. job' = [job EXCEPT ![Cur(p)] = r]
    BY <1>4, <2>1, <2>2 DEF Catch, Recant, WriteNotSaved, TypeInv, TypeOK
  <2>4. /\ r.state = "failed" /\ r.prepared = job[Cur(p)].prepared
        /\ r.content = job[Cur(p)].content
        /\ r.kind = job[Cur(p)].kind /\ r.age = job[Cur(p)].age
    BY <2>1, <2>2 DEF JobRow
  <2> QED BY <2>1, <2>3, <2>4, Written DEF OthersSame
<1> QED BY <1>2, <1>3, <1>4

\* setState sets the state of a job that is not accepted, and nothing else of note.
LEMMA SetStateWrites ==
  ASSUME TypeInv, NEW k \in Keys, NEW r, NEW state, SetState(k, r, state)
  PROVE  /\ \A j \in Keys \ {k} : Same(j)
         /\ job'[k].state = IF job[k].state = "accepted" THEN "accepted" ELSE state
         /\ job'[k].prepared = job[k].prepared /\ job'[k].content = job[k].content
         /\ job'[k].kind = job[k].kind /\ job'[k].age = job[k].age
         /\ job[k].state = "accepted" => Same(k)
<1>1. job[k] \in JobRow
  BY DEF TypeInv, TypeOK
<1>2. PICK u : u = [job[k] EXCEPT !.state = state, !.lease = Past, !.wait = Delay(r.attempts)]
  OBVIOUS
<1>3. /\ u.state = state /\ u.prepared = job[k].prepared /\ u.content = job[k].content
      /\ u.kind = job[k].kind /\ u.age = job[k].age
  BY <1>1, <1>2 DEF JobRow
<1>4. job' = IF job[k].state = "accepted" THEN job ELSE [job EXCEPT ![k] = u]
  BY <1>1, <1>2 DEF SetState, TypeInv, TypeOK
<1> QED BY <1>3, <1>4, Written, Unwritten DEF Same

\* What the steps of an attempt set: the lease, the first attempt's time, the acceptance.
LEMMA AttemptWrites ==
  ASSUME TypeInv, NEW p \in Procs
  PROVE  /\ LeaseJob(p) =>
              /\ Cur(p) \in Keys /\ OthersSame(p)
              /\ ~Due(job[Cur(p)]) => Same(Cur(p))
              /\ Due(job[Cur(p)]) => job'[Cur(p)].state = "sending"
              /\ job'[Cur(p)].prepared = job[Cur(p)].prepared
              /\ job'[Cur(p)].content = job[Cur(p)].content
              /\ job'[Cur(p)].kind = job[Cur(p)].kind /\ job'[Cur(p)].age = job[Cur(p)].age
         /\ Begin(p) =>
              /\ Cur(p) \in Keys /\ OthersSame(p)
              /\ job'[Cur(p)].state = job[Cur(p)].state
              /\ job'[Cur(p)].prepared = job[Cur(p)].prepared
              /\ job'[Cur(p)].content = job[Cur(p)].content
              /\ job'[Cur(p)].kind = job[Cur(p)].kind /\ job'[Cur(p)].lease = job[Cur(p)].lease
              /\ job'[Cur(p)].age = IF job[Cur(p)].age = None THEN 0 ELSE job[Cur(p)].age
         /\ Record(p) =>
              /\ Cur(p) \in Keys /\ OthersSame(p)
              /\ job'[Cur(p)].state = "accepted" /\ job'[Cur(p)].prepared = job[Cur(p)].prepared
              /\ job'[Cur(p)].content = job[Cur(p)].content
              /\ job'[Cur(p)].kind = job[Cur(p)].kind /\ job'[Cur(p)].age = job[Cur(p)].age
<1>1. ASSUME inv[p].pc \in KeySteps
      PROVE  Cur(p) \in Keys /\ job[Cur(p)] \in JobRow
  BY <1>1, AtHand
<1>2. ASSUME LeaseJob(p)
      PROVE  /\ Cur(p) \in Keys /\ OthersSame(p)
             /\ ~Due(job[Cur(p)]) => Same(Cur(p))
             /\ Due(job[Cur(p)]) => job'[Cur(p)].state = "sending"
             /\ job'[Cur(p)].prepared = job[Cur(p)].prepared
             /\ job'[Cur(p)].content = job[Cur(p)].content
             /\ job'[Cur(p)].kind = job[Cur(p)].kind /\ job'[Cur(p)].age = job[Cur(p)].age
  <2>1. Cur(p) \in Keys /\ job[Cur(p)] \in JobRow
    BY <1>1, <1>2 DEF LeaseJob, At, KeySteps, DeliverSteps
  <2>2. PICK r : r = [job[Cur(p)] EXCEPT !.state = "sending", !.lease = Lease,
                                         !.attempts = job[Cur(p)].attempts + 1]
    OBVIOUS
  <2>3. job' = IF Due(job[Cur(p)]) THEN [job EXCEPT ![Cur(p)] = r] ELSE job
    BY <1>2, <2>1, <2>2 DEF LeaseJob, TypeInv, TypeOK
  <2>4. /\ r.state = "sending" /\ r.prepared = job[Cur(p)].prepared
        /\ r.content = job[Cur(p)].content
        /\ r.kind = job[Cur(p)].kind /\ r.age = job[Cur(p)].age
    BY <2>1, <2>2 DEF JobRow
  <2> QED BY <2>1, <2>3, <2>4, Written, Unwritten DEF OthersSame, Same
<1>3. ASSUME Begin(p)
      PROVE  /\ Cur(p) \in Keys /\ OthersSame(p)
             /\ job'[Cur(p)].state = job[Cur(p)].state
             /\ job'[Cur(p)].prepared = job[Cur(p)].prepared
             /\ job'[Cur(p)].content = job[Cur(p)].content
             /\ job'[Cur(p)].kind = job[Cur(p)].kind /\ job'[Cur(p)].lease = job[Cur(p)].lease
             /\ job'[Cur(p)].age = IF job[Cur(p)].age = None THEN 0 ELSE job[Cur(p)].age
  <2>1. Cur(p) \in Keys /\ job[Cur(p)] \in JobRow
    BY <1>1, <1>3 DEF Begin, At, KeySteps, DeliverSteps
  <2>2. PICK a : a = IF job[Cur(p)].age = None THEN 0 ELSE job[Cur(p)].age
    OBVIOUS
  <2>3. PICK r : r = [job[Cur(p)] EXCEPT !.age = a]
    OBVIOUS
  <2>4. job' = [job EXCEPT ![Cur(p)] = r]
    BY <1>3, <2>1, <2>2, <2>3 DEF Begin, TypeInv, TypeOK, JobRow
  <2>5. /\ r.state = job[Cur(p)].state /\ r.prepared = job[Cur(p)].prepared
        /\ r.content = job[Cur(p)].content
        /\ r.kind = job[Cur(p)].kind /\ r.lease = job[Cur(p)].lease /\ r.age = a
    BY <2>1, <2>3 DEF JobRow
  <2> QED BY <2>1, <2>2, <2>4, <2>5, Written DEF OthersSame
<1>4. ASSUME Record(p)
      PROVE  /\ Cur(p) \in Keys /\ OthersSame(p)
             /\ job'[Cur(p)].state = "accepted" /\ job'[Cur(p)].prepared = job[Cur(p)].prepared
             /\ job'[Cur(p)].content = job[Cur(p)].content
             /\ job'[Cur(p)].kind = job[Cur(p)].kind /\ job'[Cur(p)].age = job[Cur(p)].age
  <2>1. Cur(p) \in Keys /\ job[Cur(p)] \in JobRow
    BY <1>1, <1>4 DEF Record, At, KeySteps, DeliverSteps
  <2>2. PICK r : r = [job[Cur(p)] EXCEPT !.state = "accepted", !.id = Row(p).id, !.lease = Past]
    OBVIOUS
  <2>3. job' = [job EXCEPT ![Cur(p)] = r]
    BY <1>4, <2>1, <2>2 DEF Record, TypeInv, TypeOK
  <2>4. /\ r.state = "accepted" /\ r.prepared = job[Cur(p)].prepared
        /\ r.content = job[Cur(p)].content
        /\ r.kind = job[Cur(p)].kind /\ r.age = job[Cur(p)].age
    BY <2>1, <2>2 DEF JobRow
  <2> QED BY <2>1, <2>3, <2>4, Written DEF OthersSame
<1> QED BY <1>2, <1>3, <1>4

\* A re-armed job waits again, with the first attempt's time it was read with or none.
LEMMA RearmWrites ==
  ASSUME TypeInv, NEW p \in Procs, Rearm(p)
  PROVE  /\ Cur(p) \in Keys /\ OthersSame(p)
         /\ job[Cur(p)].state # Row(p).state => Same(Cur(p)) /\ UNCHANGED acks
         /\ job[Cur(p)].state = Row(p).state =>
              /\ job'[Cur(p)].state = "pending"
              /\ job'[Cur(p)].age = IF inv[p].flag THEN None ELSE Row(p).age
              /\ acks' = IF Row(p).state = "uncertain" \/ inv[p].flag
                         THEN [acks EXCEPT ![Cur(p)] = @ + 1] ELSE acks
         /\ job'[Cur(p)].prepared = job[Cur(p)].prepared
         /\ job'[Cur(p)].content = job[Cur(p)].content /\ job'[Cur(p)].kind = job[Cur(p)].kind
         /\ job'[Cur(p)].lease = job[Cur(p)].lease
<1>1. Cur(p) \in Keys /\ job[Cur(p)] \in JobRow
  BY AtHand DEF Rearm, At, KeySteps
<1>2. PICK a : a = IF inv[p].flag THEN None ELSE Row(p).age
  OBVIOUS
<1>3. PICK r : r = [job[Cur(p)] EXCEPT !.state = "pending", !.attempts = 0, !.wait = 0, !.age = a]
  OBVIOUS
<1>4. job' = IF job[Cur(p)].state = Row(p).state THEN [job EXCEPT ![Cur(p)] = r] ELSE job
  BY <1>1, <1>2, <1>3 DEF Rearm, TypeInv, TypeOK
<1>5. /\ r.state = "pending" /\ r.prepared = job[Cur(p)].prepared
      /\ r.content = job[Cur(p)].content
      /\ r.kind = job[Cur(p)].kind /\ r.lease = job[Cur(p)].lease /\ r.age = a
  BY <1>1, <1>3 DEF JobRow
<1>6. \/ job[Cur(p)].state # Row(p).state /\ UNCHANGED acks
      \/ /\ job[Cur(p)].state = Row(p).state
         /\ acks' = IF Row(p).state = "uncertain" \/ inv[p].flag
                    THEN [acks EXCEPT ![Cur(p)] = @ + 1] ELSE acks
  BY DEF Rearm
<1> QED BY <1>1, <1>2, <1>4, <1>5, <1>6, Written, Unwritten DEF OthersSame, Same

\* The await of flushOutbox, between its queries and the jobs they list.
Loops(p, step, c, s, t) ==
  inv' = [inv EXCEPT ![p].pc = step, ![p].cur = c, ![p].seen = s, ![p].todo = t]

\* The steps of flushOutbox keep the provider and the time of their invocation.
LEMMA LoopOn ==
  ASSUME TypeInv, NEW p \in Procs, NEW step, NEW c, NEW s, NEW t, Loops(p, step, c, s, t)
  PROVE  \E i : /\ Turns(p, i) /\ i.pc = step /\ i.cur = c /\ i.seen = s /\ i.todo = t
                /\ i.age = inv[p].age /\ i.agent = inv[p].agent
<1>1. PICK i : i = [inv[p] EXCEPT !.pc = step, !.cur = c, !.seen = s, !.todo = t]
  OBVIOUS
<1>2. /\ i.pc = step /\ i.cur = c /\ i.seen = s /\ i.todo = t
      /\ i.age = inv[p].age /\ i.agent = inv[p].agent
  BY <1>1 DEF TypeInv, TypeOK, Invocation
<1>3. inv' = [inv EXCEPT ![p] = i]
  BY <1>1 DEF Loops, TypeInv, TypeOK, Invocation
<1> QED BY <1>2, <1>3 DEF Turns

\* Where the steps of flushOutbox lead.
LEMMA FlushMoves ==
  ASSUME TypeInv, NEW p \in Procs
  PROVE  /\ Sweep(p) =>
              \E i : /\ Turns(p, i) /\ i.pc = "expire" /\ i.seen = job
                     /\ i.todo = {k \in Keys : job[k].state \in {"sending", "preparing"}
                                               /\ job[k].lease < 0}
                     /\ i.age = inv[p].age /\ i.agent = inv[p].agent
         /\ SelectDue(p) \/ NextDue(p) \/ PurgeEvents(p) => \E i : Off(p, i)
         /\ Expire(p) =>
              \E k \in Oldest(inv[p].todo) : \E i :
                /\ SetState(k, inv[p].seen[k], SweepState(inv[p].seen[k]))
                /\ Turns(p, i) /\ i.pc = "expire" /\ i.cur = inv[p].cur /\ i.seen = inv[p].seen
                /\ i.todo = inv[p].todo \ {k}
                /\ i.age = inv[p].age /\ i.agent = inv[p].agent
<1>0. inv[p] \in Invocation /\ inv \in [Procs -> Invocation]
  BY DEF TypeInv, TypeOK
<1>2. ASSUME Sweep(p)
      PROVE  \E i : /\ Turns(p, i) /\ i.pc = "expire" /\ i.seen = job
                    /\ i.todo = {k \in Keys : job[k].state \in {"sending", "preparing"}
                                              /\ job[k].lease < 0}
                    /\ i.age = inv[p].age /\ i.agent = inv[p].agent
  <2>1. PICK t : t = {k \in Keys : job[k].state \in {"sending", "preparing"} /\ job[k].lease < 0}
    OBVIOUS
  <2>2. Loops(p, "expire", inv[p].cur, job, t)
    BY <1>0, <1>2, <2>1 DEF Sweep, Invocation, Loops
  <2>3. \E i : /\ Turns(p, i) /\ i.pc = "expire" /\ i.seen = job /\ i.todo = t
               /\ i.age = inv[p].age /\ i.agent = inv[p].agent
    BY <2>2, LoopOn
  <2> QED BY <2>1, <2>3
<1>3. ASSUME SelectDue(p) PROVE \E i : Off(p, i)
  <2>1. Loops(p, "next", inv[p].cur, Blank, FirstDue)
    BY <1>0, <1>3 DEF SelectDue, Invocation, Loops
  <2>2. \E i : Turns(p, i) /\ i.pc = "next" /\ i.age = inv[p].age /\ i.agent = inv[p].agent
    BY <2>1, LoopOn
  <2> QED BY <2>2 DEF Off
<1>4. ASSUME NextDue(p) PROVE \E i : Off(p, i)
  <2>1. PICK k \in Oldest(inv[p].todo) :
          inv' = [inv EXCEPT ![p].pc = "read", ![p].cur = k, ![p].todo = inv[p].todo \ {k}]
    BY <1>0, <1>4 DEF NextDue
  <2>2. Loops(p, "read", k, inv[p].seen, inv[p].todo \ {k})
    BY <1>0, <2>1 DEF Invocation, Loops
  <2>3. \E i : Turns(p, i) /\ i.pc = "read" /\ i.age = inv[p].age /\ i.agent = inv[p].agent
    BY <2>2, LoopOn
  <2> QED BY <2>3 DEF Off
<1>5. ASSUME PurgeEvents(p) PROVE \E i : Off(p, i)
  BY <1>5, Departs DEF PurgeEvents
<1>6. ASSUME Expire(p)
      PROVE  \E k \in Oldest(inv[p].todo) : \E i :
                /\ SetState(k, inv[p].seen[k], SweepState(inv[p].seen[k]))
                /\ Turns(p, i) /\ i.pc = "expire" /\ i.cur = inv[p].cur /\ i.seen = inv[p].seen
                /\ i.todo = inv[p].todo \ {k}
                /\ i.age = inv[p].age /\ i.agent = inv[p].agent
  <2>1. PICK k \in Oldest(inv[p].todo) :
          /\ SetState(k, inv[p].seen[k], SweepState(inv[p].seen[k]))
          /\ inv' = [inv EXCEPT ![p].todo = inv[p].todo \ {k}]
    BY <1>0, <1>6 DEF Expire
  <2>2. Loops(p, "expire", inv[p].cur, inv[p].seen, inv[p].todo \ {k})
    BY ZenonT(40), <1>0, <1>6, <2>1 DEF Expire, At, Invocation, Loops
  <2>3. \E i : /\ Turns(p, i) /\ i.pc = "expire" /\ i.cur = inv[p].cur /\ i.seen = inv[p].seen
               /\ i.todo = inv[p].todo \ {k}
               /\ i.age = inv[p].age /\ i.agent = inv[p].agent
    BY <2>2, LoopOn
  <2> QED BY <2>1, <2>3
<1> QED BY <1>2, <1>3, <1>4, <1>5, <1>6

\* A request or a cron begins: the clock is at zero and the provider is the one configured.
LEMMA Begins ==
  ASSUME TypeInv, NEW p \in Procs,
         \/ \E k \in Keys, c \in Contents : StartSend(p, k, c)
         \/ \E k \in Keys, confirm \in BOOLEAN : StartRetry(p, k, confirm)
         \/ StartFlush(p)
  PROVE  /\ \E i : /\ Turns(p, i) /\ i.pc \in {"reserve", "recheck", "sweep"}
                   /\ i.age = 0 /\ i.agent = configured
         /\ UNCHANGED <<job, email, payload, files, provider, acks, recanted>>
<1>1. ASSUME NEW k \in Keys, NEW c \in Contents, StartSend(p, k, c)
      PROVE  \E i : /\ Turns(p, i) /\ i.pc \in {"reserve", "recheck", "sweep"}
                    /\ i.age = 0 /\ i.agent = configured
  <2>1. PICK i : i = [Idle EXCEPT !.pc = "reserve", !.cur = k, !.agent = configured, !.want = c]
    OBVIOUS
  <2>2. i.pc = "reserve" /\ i.age = 0 /\ i.agent = configured
    BY <2>1 DEF Idle
  <2> QED BY <1>1, <2>1, <2>2 DEF StartSend, Start, Turns
<1>2. ASSUME NEW k \in Keys, NEW confirm \in BOOLEAN, StartRetry(p, k, confirm)
      PROVE  \E i : /\ Turns(p, i) /\ i.pc \in {"reserve", "recheck", "sweep"}
                    /\ i.age = 0 /\ i.agent = configured
  <2>1. PICK i : i = [Idle EXCEPT !.pc = "recheck", !.cur = k, !.agent = configured,
                                  !.flag = confirm]
    OBVIOUS
  <2>2. i.pc = "recheck" /\ i.age = 0 /\ i.agent = configured
    BY <2>1 DEF Idle
  <2> QED BY <1>2, <2>1, <2>2 DEF StartRetry, Start, Turns
<1>3. ASSUME StartFlush(p)
      PROVE  \E i : /\ Turns(p, i) /\ i.pc \in {"reserve", "recheck", "sweep"}
                    /\ i.age = 0 /\ i.agent = configured
  <2>1. PICK i : i = [Idle EXCEPT !.pc = "sweep", !.flush = TRUE, !.agent = configured]
    OBVIOUS
  <2>2. i.pc = "sweep" /\ i.age = 0 /\ i.agent = configured
    BY <2>1 DEF Idle
  <2> QED BY <1>3, <2>1, <2>2 DEF StartFlush, Start, Turns
<1> QED BY <1>1, <1>2, <1>3 DEF StartSend, StartRetry, StartFlush, Start

\* Time only ages a row and an invocation, and stops at what is due at once.
LEMMA TickWrites ==
  ASSUME TypeInv, Tick
  PROVE  /\ \A k \in Keys :
              /\ job'[k].state = job[k].state /\ job'[k].prepared = job[k].prepared
              /\ job'[k].content = job[k].content /\ job'[k].kind = job[k].kind
              /\ job'[k].age = Older(job[k].age, Window)
              /\ job'[k].lease = IF job[k].lease > Past THEN job[k].lease - 1 ELSE job[k].lease
         /\ \A p \in Procs :
              /\ inv'[p].pc = inv[p].pc /\ inv'[p].cur = inv[p].cur /\ inv'[p].want = inv[p].want
              /\ inv'[p].agent = inv[p].agent /\ inv'[p].flag = inv[p].flag
              /\ inv'[p].verdict = inv[p].verdict /\ inv'[p].todo = inv[p].todo
              /\ inv[p].pc # "idle" =>
                   /\ inv'[p].age = inv[p].age + 1 /\ inv[p].age < InvocationLimit
                   /\ inv[p].pc \in EnqueueSteps => inv[p].age < PrepareLimit
                   /\ inv[p].pc \notin Prompt
                   /\ \A k \in Keys : inv'[p].seen[k].state = inv[p].seen[k].state
<1>1. ASSUME NEW k \in Keys
      PROVE  /\ job'[k].state = job[k].state /\ job'[k].prepared = job[k].prepared
             /\ job'[k].content = job[k].content /\ job'[k].kind = job[k].kind
             /\ job'[k].age = Older(job[k].age, Window)
             /\ job'[k].lease = IF job[k].lease > Past THEN job[k].lease - 1 ELSE job[k].lease
  <2>1. job[k] \in JobRow /\ job'[k] = Aged(job[k])
    BY DEF Tick, TypeInv, TypeOK
  <2> QED BY <2>1 DEF Aged, JobRow
<1>2. ASSUME NEW p \in Procs
      PROVE  /\ inv'[p].pc = inv[p].pc /\ inv'[p].cur = inv[p].cur /\ inv'[p].want = inv[p].want
             /\ inv'[p].agent = inv[p].agent /\ inv'[p].flag = inv[p].flag
             /\ inv'[p].verdict = inv[p].verdict /\ inv'[p].todo = inv[p].todo
             /\ inv[p].pc # "idle" =>
                  /\ inv'[p].age = inv[p].age + 1 /\ inv[p].age < InvocationLimit
                  /\ inv[p].pc \in EnqueueSteps => inv[p].age < PrepareLimit
                  /\ inv[p].pc \notin Prompt
                  /\ \A k \in Keys : inv'[p].seen[k].state = inv[p].seen[k].state
  <2>0. inv[p] \in Invocation /\ OnTime(p)
    BY DEF Tick, TypeInv, TypeOK
  <2>1. CASE inv[p].pc = "idle"
    <3>1. inv'[p] = inv[p]
      BY <2>1 DEF Tick, At
    <3> QED BY <2>1, <3>1
  <2>2. CASE inv[p].pc # "idle"
    <3>1. PICK s : s = [k \in Keys |-> Aged(inv[p].seen[k])]
      OBVIOUS
    <3>2. inv'[p] = [inv[p] EXCEPT !.age = inv[p].age + 1, !.seen = s]
      BY <2>0, <2>2, <3>1 DEF Tick, At, Invocation
    <3>3. /\ inv'[p].pc = inv[p].pc /\ inv'[p].cur = inv[p].cur /\ inv'[p].want = inv[p].want
          /\ inv'[p].agent = inv[p].agent /\ inv'[p].flag = inv[p].flag
          /\ inv'[p].verdict = inv[p].verdict /\ inv'[p].todo = inv[p].todo
          /\ inv'[p].age = inv[p].age + 1 /\ inv'[p].seen = s
      BY <2>0, <3>2 DEF Invocation
    <3>4. ASSUME NEW k \in Keys PROVE s[k].state = inv[p].seen[k].state
      <4>1. inv[p].seen[k] \in JobRow /\ s[k] = Aged(inv[p].seen[k])
        BY <2>0, <3>1 DEF Invocation
      <4> QED BY <4>1 DEF Aged, JobRow
    <3> QED BY <2>0, <2>2, <3>3, <3>4 DEF OnTime, At
  <2> QED BY <2>1, <2>2
<1> QED BY <1>1, <1>2

\* Where the steps of enqueueOutbound lead.
LEMMA SaveMoves ==
  ASSUME TypeInv, NEW p \in Procs
  PROVE  /\ Reserve(p) =>
              \E i : On(p, i, "select") /\ i.flag = (job[Cur(p)].state = "none")
         /\ Select(p) => \/ \E i : Off(p, i)
                         \/ \E i : On(p, i, "put") /\ inv[p].flag
                         \/ \E i : On(p, i, "claim")
         /\ Claim(p) => \/ \E i : Off(p, i) /\ ~Claimable(Cur(p), inv[p].age)
                        \/ \E i : On(p, i, "put") /\ Claimable(Cur(p), inv[p].age)
         /\ Put(p) => \E i : On(p, i, "row") /\ i.want = inv[p].want
         /\ FindRow(p) => \E step \in {"insert", "link"} : \E i :
                            On(p, i, step) /\ i.want = inv[p].want
         /\ InsertRow(p) => \E step \in {"link", "catch"} : \E i :
                              On(p, i, step) /\ i.want = inv[p].want
         /\ Link(p) => \E i : On(p, i, "files") /\ i.want = inv[p].want
         /\ StoreFiles(p) => \E i : On(p, i, "commit") /\ i.want = inv[p].want
         /\ Commit(p) => (\E i : Off(p, i)) \/ (\E i : On(p, i, "recant"))
         /\ Catch(p) \/ Recant(p) => \E i : Off(p, i)
         /\ SaveFails(p) => \E i : On(p, i, "catch")
<1>1. ASSUME Reserve(p)
      PROVE  \E i : On(p, i, "select") /\ i.flag = (job[Cur(p)].state = "none")
  <2>1. PICK b : b = (job[Cur(p)].state = "none")
    OBVIOUS
  <2>2. Takes(p, "select", inv[p].want, b, inv[p].seen)
    BY <1>1, <2>1 DEF Reserve, Takes, TypeInv, TypeOK, Invocation
  <2>3. \E i : On(p, i, "select") /\ i.flag = b
    BY <2>2, SeenOn
  <2> QED BY <2>1, <2>3
<1>2. ASSUME Select(p)
      PROVE  \/ \E i : Off(p, i)
             \/ \E i : On(p, i, "put") /\ inv[p].flag
             \/ \E i : On(p, i, "claim")
  <2>1. CASE Done(p) \/ Deliver(p)
    BY <2>1, Departs
  <2>2. CASE Goto(p, IF inv[p].flag THEN "put" ELSE "claim")
    <3>1. CASE inv[p].flag
      <4>1. Goto(p, "put")
        BY <2>2, <3>1
      <4> QED BY <3>1, <4>1, GotoOn
    <3>2. CASE ~inv[p].flag
      <4>1. Goto(p, "claim")
        BY <2>2, <3>2
      <4> QED BY <4>1, GotoOn
    <3> QED BY <3>1, <3>2
  <2> QED BY <1>2, <2>1, <2>2 DEF Select, Enqueued
<1>3. ASSUME Claim(p)
      PROVE  \/ \E i : Off(p, i) /\ ~Claimable(Cur(p), inv[p].age)
             \/ \E i : On(p, i, "put") /\ Claimable(Cur(p), inv[p].age)
  <2>1. \/ Claimable(Cur(p), inv[p].age) /\ Goto(p, "put")
        \/ ~Claimable(Cur(p), inv[p].age) /\ Done(p)
    BY <1>3 DEF Claim
  <2> QED BY <2>1, GotoOn, Departs
<1>4. ASSUME NEW step, Goto(p, step)
      PROVE  \E i : On(p, i, step) /\ i.want = inv[p].want
  BY <1>4, GotoOn
<1>5. /\ Put(p) => Goto(p, "row")
      /\ FindRow(p) => Goto(p, "insert") \/ Goto(p, "link")
      /\ InsertRow(p) => Goto(p, "link") \/ Goto(p, "catch")
      /\ Link(p) => Goto(p, "files")
      /\ StoreFiles(p) => Goto(p, "commit")
      /\ SaveFails(p) => Goto(p, "catch")
  BY DEF Put, FindRow, InsertRow, Link, StoreFiles, SaveFails
<1>6. Catch(p) \/ Recant(p) => \E i : Off(p, i)
  BY Departs DEF Catch, Recant
<1>7. Commit(p) => (\E i : Off(p, i)) \/ (\E i : On(p, i, "recant"))
  BY Departs, GotoOn DEF Commit, Enqueued
<1> QED BY <1>1, <1>2, <1>3, <1>4, <1>5, <1>6, <1>7

\* Where the steps of an attempt lead, and what decided it.
LEMMA AttemptMoves ==
  ASSUME TypeInv, NEW p \in Procs
  PROVE  /\ Read(p) =>
              \/ \E i : Off(p, i)
              \/ \E i : On(p, i, "final") /\ job[Cur(p)].state = "accepted"
              \/ \E i : /\ On(p, i, "refuse") /\ Due(job[Cur(p)])
                        /\ \/ job[Cur(p)].kind # inv[p].agent /\ i.verdict = "failed"
                           \/ Expired(job[Cur(p)])
              \/ \E i : /\ On(p, i, "lease") /\ job[Cur(p)].prepared
                        /\ job[Cur(p)].kind = inv[p].agent /\ ~Expired(job[Cur(p)])
         /\ LeaseJob(p) => \/ \E i : Off(p, i)
                           \/ \E i : On(p, i, "reread") /\ Due(job[Cur(p)])
         /\ Reread(p) => \E i : On(p, i, "fetch")
         /\ Fetch(p) => \/ \E i : On(p, i, "begin")
                        \/ \E i : On(p, i, "settle") /\ i.verdict \in {"retry", "failed"}
         /\ Begin(p) => \E i : On(p, i, "send")
         /\ Send(p) =>
              \/ \E i : Accept(p) /\ On(p, i, "record")
              \/ \E i : /\ Accept(p) /\ On(p, i, "settle")
                        /\ inv[p].agent # "resend" => i.verdict = "uncertain"
              \/ \E i : UNCHANGED provider /\ On(p, i, "settle")
         /\ SettleJob(p) \/ NotePayloadErased(p) => \E i : Off(p, i)
         /\ Record(p) => \E i : On(p, i, "final")
         /\ RepairSent(p) => (\E i : Off(p, i)) \/ (\E i : On(p, i, "erase"))
         /\ ErasePayload(p) => \E i : On(p, i, "erased")
         /\ Abort(p) => \E i : Off(p, i)
<1>0. inv[p] \in Invocation /\ inv \in [Procs -> Invocation]
  BY DEF TypeInv, TypeOK
<1>1. ASSUME NEW step, NEW s,
             inv' = [inv EXCEPT ![p].pc = step, ![p].seen[Cur(p)] = s]
      PROVE  \E i : On(p, i, step)
  <2>1. Takes(p, step, inv[p].want, inv[p].flag, [inv[p].seen EXCEPT ![Cur(p)] = s])
    BY <1>0, <1>1 DEF Takes, Invocation
  <2> QED BY <2>1, SeenOn
<1>2. ASSUME Read(p)
      PROVE  \/ \E i : Off(p, i)
             \/ \E i : On(p, i, "final") /\ job[Cur(p)].state = "accepted"
             \/ \E i : /\ On(p, i, "refuse") /\ Due(job[Cur(p)])
                       /\ \/ job[Cur(p)].kind # inv[p].agent /\ i.verdict = "failed"
                          \/ Expired(job[Cur(p)])
             \/ \E i : /\ On(p, i, "lease") /\ job[Cur(p)].prepared
                       /\ job[Cur(p)].kind = inv[p].agent /\ ~Expired(job[Cur(p)])
  <2>1. CASE Leave(p)
    BY <2>1, Departs
  <2>2. CASE /\ job[Cur(p)].state = "accepted"
             /\ inv' = [inv EXCEPT ![p].pc = "final", ![p].seen[Cur(p)] = job[Cur(p)]]
    BY <2>2, <1>1
  <2>3. CASE /\ Due(job[Cur(p)]) /\ job[Cur(p)].kind # inv[p].agent
             /\ ToState(p, "refuse", job[Cur(p)], "failed")
    BY <2>3, ToStateOn
  <2>4. CASE /\ Due(job[Cur(p)]) /\ Expired(job[Cur(p)])
             /\ ToState(p, "refuse", job[Cur(p)], "uncertain")
    BY <2>4, ToStateOn
  <2>5. CASE /\ job[Cur(p)].prepared /\ job[Cur(p)].kind = inv[p].agent /\ ~Expired(job[Cur(p)])
             /\ Goto(p, "lease")
    BY <2>5, GotoOn
  <2> QED BY <1>2, <2>1, <2>2, <2>3, <2>4, <2>5 DEF Read
<1>3. ASSUME LeaseJob(p)
      PROVE  \/ \E i : Off(p, i)
             \/ \E i : On(p, i, "reread") /\ Due(job[Cur(p)])
  <2>1. CASE Due(job[Cur(p)])
    BY <1>3, <2>1, GotoOn DEF LeaseJob
  <2>2. CASE ~Due(job[Cur(p)])
    BY <1>3, <2>2, Departs DEF LeaseJob
  <2> QED BY <2>1, <2>2
<1>4. ASSUME Reread(p) PROVE \E i : On(p, i, "fetch")
  BY <1>1, <1>4 DEF Reread
<1>5. ASSUME Fetch(p)
      PROVE  \/ \E i : On(p, i, "begin")
             \/ \E i : On(p, i, "settle") /\ i.verdict \in {"retry", "failed"}
  <2>1. CASE inv' = [inv EXCEPT ![p].pc = "begin", ![p].want = payload[Cur(p)]]
    <3>1. Takes(p, "begin", payload[Cur(p)], inv[p].flag, inv[p].seen)
      BY <1>0, <2>1 DEF Takes, Invocation
    <3> QED BY <3>1, SeenOn
  <2>2. CASE Unreadable(p)
    <3>1. PICK state \in {"retry", "failed"} : ToState(p, "settle", Row(p), state)
      BY <2>2 DEF Unreadable
    <3> QED BY <3>1, ToStateOn
  <2> QED BY <1>5, <2>1, <2>2 DEF Fetch
<1>6. ASSUME Send(p)
      PROVE  \/ \E i : Accept(p) /\ On(p, i, "record")
             \/ \E i : /\ Accept(p) /\ On(p, i, "settle")
                       /\ inv[p].agent # "resend" => i.verdict = "uncertain"
             \/ \E i : UNCHANGED provider /\ On(p, i, "settle")
  <2>1. CASE /\ Accept(p)
             /\ inv' = [inv EXCEPT ![p].pc = "record", ![p].want = None,
                                   ![p].seen[Cur(p)] = [Row(p) EXCEPT !.id = copies'[Cur(p)],
                                                                      !.state = "accepted"]]
    <3>1. PICK r : r = [Row(p) EXCEPT !.id = copies'[Cur(p)], !.state = "accepted"]
      OBVIOUS
    <3>2. Takes(p, "record", None, inv[p].flag, [inv[p].seen EXCEPT ![Cur(p)] = r])
      BY ZenonT(40), <1>0, <2>1, <3>1 DEF Takes, Invocation
    <3> QED BY <2>1, <3>2, SeenOn
  <2>2. CASE /\ Accept(p)
             /\ ToState(p, "settle", Row(p),
                        FailureState(inv[p].agent, "unknown", Row(p).attempts))
    <3>1. inv[p].agent # "resend" =>
            FailureState(inv[p].agent, "unknown", Row(p).attempts) = "uncertain"
      BY DEF FailureState
    <3>2. \E i : /\ On(p, i, "settle")
                 /\ i.verdict = FailureState(inv[p].agent, "unknown", Row(p).attempts)
      BY <2>2, ToStateOn
    <3> QED BY <2>2, <3>1, <3>2
  <2>3. CASE /\ UNCHANGED provider
             /\ \E reply : ToState(p, "settle", Row(p),
                                   FailureState(inv[p].agent, reply, Row(p).attempts))
    BY <2>3, ToStateOn
  <2> QED BY <1>6, <2>1, <2>2, <2>3 DEF Send
<1>7. SettleJob(p) \/ NotePayloadErased(p) \/ Abort(p) => \E i : Off(p, i)
  BY Departs DEF SettleJob, NotePayloadErased, Abort
<1>8. /\ Begin(p) => \E i : On(p, i, "send")
      /\ Record(p) => \E i : On(p, i, "final")
      /\ ErasePayload(p) => \E i : On(p, i, "erased")
  BY GotoOn DEF Begin, Record, ErasePayload
<1>9. RepairSent(p) => (\E i : Off(p, i)) \/ (\E i : On(p, i, "erase"))
  BY GotoOn, Departs DEF RepairSent
<1> QED BY <1>2, <1>3, <1>4, <1>5, <1>6, <1>7, <1>8, <1>9

\* Where the steps of a manual retry lead: only a job that needs attention is re-armed, and the
\* flag is set when its key has expired.
LEMMA RetryMoves ==
  ASSUME TypeInv, NEW p \in Procs
  PROVE  /\ Recheck(p) =>
              \/ \E i : Off(p, i)
              \/ \E i : /\ On(p, i, "rearm") /\ i.seen[i.cur] = job[Cur(p)]
                        /\ i.flag = Expired(job[Cur(p)]) /\ job[Cur(p)].state \in Verdicts
         /\ Rearm(p) => \E i : Off(p, i)
<1>0. inv[p] \in Invocation /\ inv \in [Procs -> Invocation]
  BY DEF TypeInv, TypeOK
<1>1. ASSUME Recheck(p)
      PROVE  \/ \E i : Off(p, i)
             \/ \E i : /\ On(p, i, "rearm") /\ i.seen[i.cur] = job[Cur(p)]
                       /\ i.flag = Expired(job[Cur(p)]) /\ job[Cur(p)].state \in Verdicts
  <2>1. CASE Done(p)
    BY <2>1, Departs
  <2>2. CASE /\ job[Cur(p)].state \in {"failed", "uncertain", "retry"}
             /\ inv' = [inv EXCEPT ![p].pc = "rearm", ![p].seen[Cur(p)] = job[Cur(p)],
                                   ![p].flag = Expired(job[Cur(p)])]
    <3>0. Cur(p) \in Keys
      BY <1>1, AtHand DEF Recheck, At, KeySteps
    <3>1. PICK b : b = Expired(job[Cur(p)])
      OBVIOUS
    <3>2. PICK s : s = [inv[p].seen EXCEPT ![Cur(p)] = job[Cur(p)]]
      OBVIOUS
    <3>3. s[Cur(p)] = job[Cur(p)]
      BY <1>0, <3>0, <3>2 DEF Invocation
    <3>4. Takes(p, "rearm", inv[p].want, b, s)
      BY ZenonT(40), <1>0, <2>2, <3>1, <3>2 DEF Takes, Invocation
    <3>5. \E i : On(p, i, "rearm") /\ i.flag = b /\ i.seen = s
      BY <3>4, SeenOn
    <3> QED BY <2>2, <3>1, <3>3, <3>5 DEF On, Cur, Verdicts
  <2> QED BY <1>1, <2>1, <2>2 DEF Recheck
<1>2. Rearm(p) => \E i : Off(p, i)
  BY Departs DEF Rearm
<1> QED BY <1>1, <1>2

-----------------------------------------------------------------------------
(* Providers and clocks *)

\* An attempt runs with the provider its job was made for, and nobody outlives the limits.
Attempting == {"lease", "reread", "fetch", "begin", "send"}
ProcAgent(i) ==
  /\ i.pc # "idle" => i.agent # None /\ i.age <= InvocationLimit
  /\ i.pc \in EnqueueSteps => i.age <= PrepareLimit
  /\ i.pc \in Attempting => i.agent = job[i.cur].kind
  /\ i.pc = "rearm" => i.seen[i.cur].state \in Verdicts
AgentInv ==
  /\ \A k \in Keys : Exists(k) => job[k].kind # None
  /\ \A p \in Procs : ProcAgent(inv[p])

KindsStay ==
  \A k \in Keys : /\ Exists(k) => job'[k].state # "none" /\ job'[k].kind = job[k].kind
                  /\ ~Exists(k) /\ job'[k].state # "none" => job'[k].kind # None

\* A step of one invocation keeps the providers of the others' jobs.
LEMMA AgentMoved ==
  ASSUME IInv, AgentInv, KindsStay, NEW p \in Procs, NEW i, Turns(p, i),
         i.pc # "idle" => i.agent # None /\ i.age <= InvocationLimit,
         i.pc \in EnqueueSteps => i.age <= PrepareLimit,
         i.pc \in Attempting => i.agent = job'[i.cur].kind,
         i.pc = "rearm" => i.seen[i.cur].state \in Verdicts
  PROVE  AgentInv'
<1>1. \A k \in Keys : job'[k].state # "none" => job'[k].kind # None
  BY DEF AgentInv, KindsStay, Exists
<1>2. ASSUME NEW q \in Procs PROVE ProcAgent(inv[q])'
  <2>1. CASE q = p
    <3>1. inv'[q] = i
      BY <2>1 DEF Turns, IInv, TypeInv, TypeOK
    <3> QED BY <3>1 DEF ProcAgent
  <2>2. CASE q # p
    <3>1. inv'[q] = inv[q] /\ ProcAgent(inv[q])
      BY <2>2 DEF Turns, IInv, TypeInv, TypeOK, AgentInv
    <3>2. inv[q].pc \in Attempting => job'[inv[q].cur].kind = job[inv[q].cur].kind
      <4>1. ASSUME inv[q].pc \in Attempting
            PROVE  inv[q].pc \in KeySteps /\ inv[q].pc \in DeliverSteps \ {"read"}
        BY <4>1 DEF Attempting, KeySteps, DeliverSteps
      <4> QED BY <4>1, Standing DEF ProcInv, KindsStay
    <3> QED BY <3>1, <3>2 DEF ProcAgent
  <2> QED BY <2>1, <2>2
<1> QED BY <1>1, <1>2 DEF AgentInv, Exists

\* Who leaves a key attempts nothing.
LEMMA AgentOff ==
  ASSUME IInv, AgentInv, KindsStay, NEW p \in Procs, inv[p].pc # "idle", \E i : Off(p, i)
  PROVE  AgentInv'
<1>1. PICK i : Off(p, i)
  OBVIOUS
<1>2. ProcAgent(inv[p])
  BY DEF AgentInv
<1>3. i.pc \notin EnqueueSteps \cup Attempting \cup {"rearm"}
  BY <1>1 DEF Off, EnqueueSteps, SavingSteps, Attempting
<1> QED BY <1>1, <1>2, <1>3, AgentMoved DEF Off, ProcAgent

\* Who goes on stays within the limits it started under.
LEMMA AgentOn ==
  ASSUME IInv, AgentInv, KindsStay, NEW p \in Procs, inv[p].pc # "idle", NEW step, NEW i,
         On(p, i, step),
         step \in EnqueueSteps => inv[p].pc \in EnqueueSteps,
         step \in Attempting => inv[p].agent = job'[inv[p].cur].kind,
         step = "rearm" => i.seen[i.cur].state \in Verdicts
  PROVE  AgentInv'
<1>1. ProcAgent(inv[p])
  BY DEF AgentInv
<1> QED BY <1>1, AgentMoved DEF On, ProcAgent

\* Kinds stay when no job is written.
LEMMA KindsRest == UNCHANGED job => KindsStay
BY DEF KindsStay, Exists

\* A saver or a claimer works within the time enqueueOutbound has.
LEMMA AgentSaving ==
  ASSUME IInv, AgentInv, NEW p \in Procs, Saving(p) \/ SaveFails(p)
  PROVE  AgentInv'
<1> TypeInv
  BY DEF IInv
<1>0. /\ inv[p].pc # "idle" /\ inv[p].pc \in KeySteps
      /\ ~Recant(p) => inv[p].pc \in EnqueueSteps
  BY DEF Saving, Reserve, Select, Claim, Put, FindRow, InsertRow, Link, StoreFiles, Commit, Catch,
         Recant, SaveFails, At, EnqueueSteps, SavingSteps, KeySteps
<1>1. Cur(p) \in Keys /\ ProcInv(inv[p]) /\ ProcAgent(inv[p]) /\ Cur(p) = inv[p].cur
  BY <1>0, Standing DEF AgentInv
<1>2. {"select", "put", "claim", "row", "insert", "link", "files", "commit", "catch"}
        \subseteq EnqueueSteps
  BY DEF EnqueueSteps, SavingSteps
<1>3. \A step \in EnqueueSteps \cup {"recant"} : step \notin Attempting /\ step # "rearm"
  BY DEF EnqueueSteps, SavingSteps, Attempting
<1>4. KindsStay
  <2>1. CASE Reserve(p)
    BY <1>0, <1>1, <2>1, ReserveWrites DEF KindsStay, OthersSame, Same, Exists, ProcAgent
  <2>2. CASE Claim(p)
    <3>1. Exists(Cur(p))
      BY <1>1, <2>2 DEF Claim, At, ProcInv
    <3> QED BY <2>2, <3>1, ClaimWrites DEF KindsStay, OthersSame, Same, Exists
  <2>3. CASE Link(p) \/ Commit(p) \/ Catch(p) \/ Recant(p)
    <3>1. Exists(Cur(p))
      BY <1>1, <2>3 DEF Link, Commit, Catch, Recant, At, ProcInv, SavingSteps
    <3> QED BY <2>3, <3>1, SaveWrites DEF KindsStay, OthersSame, Same, Exists
  <2>4. CASE Select(p) \/ Put(p) \/ FindRow(p) \/ InsertRow(p) \/ StoreFiles(p) \/ SaveFails(p)
    BY <2>4, KindsRest DEF Select, Put, FindRow, InsertRow, StoreFiles, SaveFails
  <2> QED BY <2>1, <2>2, <2>3, <2>4 DEF Saving
<1>5. \/ \E i : Off(p, i)
      \/ \E step \in EnqueueSteps \cup {"recant"} : \E i : On(p, i, step) /\ ~Recant(p)
  <2>1. CASE Recant(p)
    BY <2>1, SaveMoves
  <2>2. CASE ~Recant(p)
    BY <1>2, <2>2, SaveMoves DEF Saving
  <2> QED BY <2>1, <2>2
<1> QED BY <1>0, <1>3, <1>4, <1>5, AgentOff, AgentOn

\* Attempts, retries and the cron's loop keep kinds, and an attempt starts with the job's own.
LEMMA AgentWorking ==
  ASSUME IInv, AgentInv, NEW p \in Procs, Delivering(p) \/ Retrying(p) \/ Flushing(p) \/ Abort(p)
  PROVE  AgentInv'
<1> TypeInv
  BY DEF IInv
<1>0. inv[p].pc # "idle"
  BY DEF Delivering, Read, LeaseJob, Reread, Fetch, Begin, Send, SettleJob, Record, RepairSent,
         ErasePayload, NotePayloadErased, Retrying, Recheck, Rearm, Flushing, Sweep, Expire,
         SelectDue, NextDue, PurgeEvents, Abort, At
<1>1. ProcAgent(inv[p])
  BY DEF AgentInv
<1>2. CASE Flushing(p)
  <2>1. CASE Sweep(p) \/ Expire(p)
    <3>1. KindsStay
      <4>1. CASE Sweep(p)
        BY <4>1, KindsRest DEF Sweep
      <4>2. CASE Expire(p)
        <5>1. PICK k \in Oldest(inv[p].todo) : SetState(k, inv[p].seen[k], SweepState(inv[p].seen[k]))
          BY <4>2 DEF Expire
        <5>2. k \in inv[p].todo /\ inv[p].todo \subseteq Keys
          BY <5>1 DEF Oldest, TypeInv, TypeOK, Invocation
        <5>3. k \in Keys /\ Exists(k) /\ SweepState(inv[p].seen[k]) # "none"
          BY <4>2, <5>2 DEF Expire, At, IInv, SentInv, ProcInv, SweepState
        <5> QED BY <5>1, <5>3, SetStateWrites DEF KindsStay, Same, Exists
      <4> QED BY <2>1, <4>1, <4>2
    <3>2. PICK i : Turns(p, i) /\ i.pc = "expire" /\ i.age = inv[p].age /\ i.agent = inv[p].agent
      BY <2>1, FlushMoves
    <3>3. i.pc \notin EnqueueSteps \cup Attempting \cup {"rearm"}
      BY <3>2 DEF EnqueueSteps, SavingSteps, Attempting
    <3> QED BY <1>0, <1>1, <3>1, <3>2, <3>3, AgentMoved DEF ProcAgent
  <2>2. CASE SelectDue(p) \/ NextDue(p) \/ PurgeEvents(p)
    <3>1. KindsStay
      BY <2>2, KindsRest DEF SelectDue, NextDue, PurgeEvents
    <3> QED BY <1>0, <2>2, <3>1, AgentOff, FlushMoves
  <2> QED BY <1>2, <2>1, <2>2 DEF Flushing
<1>3. CASE Abort(p)
  <2>1. KindsStay
    BY <1>3, KindsRest DEF Abort
  <2> QED BY <1>0, <1>3, <2>1, AgentOff, AttemptMoves
<1>4. CASE Delivering(p) \/ Retrying(p)
  <2>0. inv[p].pc \in KeySteps
    BY <1>4 DEF Delivering, Read, LeaseJob, Reread, Fetch, Begin, Send, SettleJob, Record,
      RepairSent, ErasePayload, NotePayloadErased, Retrying, Recheck, Rearm, At, KeySteps,
      DeliverSteps
  <2>1. Cur(p) \in Keys /\ Cur(p) = inv[p].cur /\ ProcInv(inv[p])
    BY <2>0, Standing
  <2>2. ~Read(p) /\ ~Recheck(p) => Exists(Cur(p))
    BY <1>4, <2>1 DEF Delivering, LeaseJob, Reread, Fetch, Begin, Send, SettleJob, Record,
      RepairSent, ErasePayload, NotePayloadErased, Retrying, Rearm, At, DeliverSteps, ProcInv
  <2>3. KindsStay
    <3>1. CASE LeaseJob(p) \/ Begin(p) \/ Record(p)
      <4>1. Exists(Cur(p))
        BY <2>1, <3>1 DEF LeaseJob, Begin, Record, At, DeliverSteps, ProcInv
      <4> QED BY <2>1, <3>1, <4>1, AttemptWrites DEF KindsStay, OthersSame, Same, Exists
    <3>2. CASE SettleJob(p)
      <4>1. Exists(Cur(p)) /\ inv[p].verdict # "none"
        BY <2>1, <3>2 DEF SettleJob, DeliverSteps, ProcInv, TypeInv, Located, Verdicts
      <4> QED BY <2>1, <3>2, <4>1, SetStateWrites DEF SettleJob, KindsStay, Same, Exists
    <3>3. CASE NotePayloadErased(p)
      BY <2>1, <3>3, SaveWrites DEF KindsStay, OthersSame, Same, Exists
    <3>4. CASE Rearm(p)
      <4>1. Exists(Cur(p))
        BY <2>1, <3>4 DEF Rearm, At, ProcInv
      <4> QED BY <2>1, <3>4, <4>1, RearmWrites DEF KindsStay, OthersSame, Same, Exists
    <3>5. CASE \/ Read(p) \/ Reread(p) \/ Fetch(p) \/ Send(p) \/ RepairSent(p) \/ ErasePayload(p)
               \/ Recheck(p)
      BY <3>5, KindsRest DEF Read, Reread, Fetch, Send, RepairSent, ErasePayload, Recheck
    <3> QED BY <1>4, <3>1, <3>2, <3>3, <3>4, <3>5 DEF Delivering, Retrying
  <2>4. CASE \E i : Off(p, i)
    BY <1>0, <2>3, <2>4, AgentOff
  <2>5. CASE \E i : On(p, i, "rearm") /\ i.seen[i.cur] = job[Cur(p)] /\ job[Cur(p)].state \in Verdicts
    BY <1>0, <2>3, <2>5, AgentOn DEF EnqueueSteps, SavingSteps, Attempting
  <2>6. CASE \E step \in {"final", "refuse", "settle", "record", "erase", "erased"} : \E i :
                On(p, i, step)
    BY <1>0, <2>3, <2>6, AgentOn DEF EnqueueSteps, SavingSteps, Attempting
  <2>7. CASE /\ Exists(Cur(p)) /\ inv[p].agent = job[Cur(p)].kind
             /\ \E step \in Attempting : \E i : On(p, i, step)
    <3>1. inv[p].agent = job'[inv[p].cur].kind
      BY <2>1, <2>3, <2>7 DEF KindsStay
    <3> QED BY <1>0, <2>3, <2>7, <3>1, AgentOn DEF EnqueueSteps, SavingSteps, Attempting
  <2>8. Read(p) /\ job[Cur(p)].prepared => Exists(Cur(p))
    BY <2>1 DEF IInv, SentInv, KeyInv
  <2>9. inv[p].pc \in Attempting => inv[p].agent = job[Cur(p)].kind
    BY <1>1, <2>1 DEF ProcAgent
  <2>10. CASE Read(p)
    BY <2>4, <2>6, <2>7, <2>8, <2>10, AttemptMoves DEF Attempting
  <2>11. CASE LeaseJob(p) \/ Reread(p) \/ Fetch(p) \/ Begin(p)
    <3>1. inv[p].pc \in Attempting /\ Exists(Cur(p))
      BY <2>1, <2>11 DEF LeaseJob, Reread, Fetch, Begin, At, Attempting, DeliverSteps, ProcInv
    <3> QED BY <2>4, <2>6, <2>7, <2>9, <2>11, <3>1, AttemptMoves DEF Attempting
  <2>12. CASE \/ Send(p) \/ SettleJob(p) \/ Record(p) \/ RepairSent(p) \/ ErasePayload(p)
              \/ NotePayloadErased(p)
    BY <2>4, <2>6, <2>12, AttemptMoves
  <2>13. CASE Retrying(p)
    BY <2>4, <2>5, <2>13, RetryMoves DEF Retrying
  <2> QED BY <1>4, <2>10, <2>11, <2>12, <2>13 DEF Delivering
<1> QED BY <1>2, <1>3, <1>4

\* Every step keeps providers and clocks.
LEMMA AgentStep == IInv /\ AgentInv /\ Next => AgentInv'
<1> SUFFICES ASSUME IInv, AgentInv, Next PROVE AgentInv'
  OBVIOUS
<1> TypeInv
  BY DEF IInv
<1>1. ASSUME NEW p \in Procs, Step(p) \/ SaveFails(p) \/ Abort(p) PROVE AgentInv'
  BY <1>1, AgentSaving, AgentWorking DEF Step
<1>2. ASSUME NEW p \in Procs,
             \/ \E k \in Keys, c \in Contents : StartSend(p, k, c)
             \/ \E k \in Keys, confirm \in BOOLEAN : StartRetry(p, k, confirm)
             \/ StartFlush(p)
      PROVE  AgentInv'
  <2>1. PICK i : /\ Turns(p, i) /\ i.pc \in {"reserve", "recheck", "sweep"}
                 /\ i.age = 0 /\ i.agent = configured
    BY <1>2, Begins
  <2>2. KindsStay
    BY <1>2, Begins, KindsRest
  <2>3. configured # None /\ 0 <= InvocationLimit /\ 0 <= PrepareLimit
    BY OutboxAssumption DEF TypeInv, TypeOK
  <2>4. i.pc \notin Attempting \cup {"rearm"}
    BY <2>1 DEF Attempting
  <2> QED BY <2>1, <2>2, <2>3, <2>4, AgentMoved
<1>3. ASSUME UNCHANGED <<job, inv>> PROVE AgentInv'
  BY <1>3 DEF AgentInv, ProcAgent, Exists
<1>4. CASE Tick
  <2>1. \A k \in Keys : job'[k].state = job[k].state /\ job'[k].kind = job[k].kind
    BY <1>4, TickWrites
  <2>2. ASSUME NEW p \in Procs PROVE ProcAgent(inv[p])'
    <3>1. ProcAgent(inv[p]) /\ inv[p] \in Invocation
      BY DEF AgentInv, TypeInv, TypeOK
    <3>2. /\ inv'[p].pc = inv[p].pc /\ inv'[p].cur = inv[p].cur /\ inv'[p].agent = inv[p].agent
          /\ inv[p].pc # "idle" =>
               /\ inv'[p].age = inv[p].age + 1 /\ inv[p].age < InvocationLimit
               /\ inv[p].pc \in EnqueueSteps => inv[p].age < PrepareLimit
               /\ \A k \in Keys : inv'[p].seen[k].state = inv[p].seen[k].state
      BY <1>4, TickWrites
    <3>3. /\ inv[p].age \in Nat /\ InvocationLimit \in Nat /\ PrepareLimit \in Nat
          /\ "idle" \notin EnqueueSteps \cup Attempting \cup {"rearm"}
      BY <3>1, OutboxAssumption DEF Invocation, EnqueueSteps, SavingSteps, Attempting
    <3>4. inv[p].pc \in Attempting \cup {"rearm"} => inv[p].cur \in Keys
      <4>1. inv[p].pc \in Attempting \cup {"rearm"} => inv[p].pc \in KeySteps
        BY DEF Attempting, KeySteps, DeliverSteps
      <4> QED BY <4>1 DEF TypeInv, Located
    <3> QED BY <2>1, <3>1, <3>2, <3>3, <3>4 DEF ProcAgent
  <2> QED BY <2>1, <2>2 DEF AgentInv, Exists
<1>5. CASE Redeploy \/ \E k \in Keys, n \in 1..(1 + MaxAcks), s \in Events : Webhook(k, n, s)
  BY <1>3, <1>5 DEF Redeploy, Webhook
<1> QED BY <1>1, <1>2, <1>4, <1>5 DEF Next

-----------------------------------------------------------------------------
(* Resend: a key outlives its window *)

\* Resend remembers a key longer than an attempt can start late and run, and a manual retry
\* writes back the row that it has just read.
ResendTiming == 0 < Window /\ Window + InvocationLimit <= KeyTTL /\ "rearm" \in Prompt

\* The key is remembered for as long as the attempt can last.
Remembered(i) == receipt[i.cur] # None /\ receipt[i.cur] < Window + i.age

\* When every copy granted has left, the key is at least as young as the first attempt.
KeyReceipt(k) ==
  job[k].kind = "resend" =>
    /\ copies[k] <= acks[k] + 1
    /\ copies[k] = acks[k] + 1 => /\ job[k].age # None /\ receipt[k] # None
                                  /\ job[k].age < Window => receipt[k] <= job[k].age

\* An attempt that may find a copy already made also finds its key.
ProcReceipt(i) ==
  /\ i.pc = "rearm" => i.seen[i.cur] = job[i.cur] /\ i.flag = Expired(job[i.cur])
  /\ i.pc \in Attempting /\ job[i.cur].kind = "resend" =>
       IF i.pc = "send"
       THEN \/ copies[i.cur] < acks[i.cur]
            \/ copies[i.cur] = acks[i.cur] /\ job[i.cur].age # None
            \/ Remembered(i)
       ELSE copies[i.cur] = acks[i.cur] + 1 => Remembered(i)

ReceiptInv == (\A k \in Keys : KeyReceipt(k)) /\ (\A p \in Procs : ProcReceipt(inv[p]))

Settled(k) ==
  /\ copies'[k] = copies[k] /\ receipt'[k] = receipt[k] /\ acks'[k] = acks[k]
  /\ job'[k].kind = job[k].kind /\ job'[k].age = job[k].age

\* Nobody else is about to re-arm a job when p takes a step.
LEMMA ReceiptMoved ==
  ASSUME IInv, "rearm" \in Prompt, NEW p \in Procs, Turn(p), NEW i, Turns(p, i),
         \A k \in Keys : KeyReceipt(k)',
         \A q \in Procs \ {p} : inv[q].pc \in Attempting => ProcReceipt(inv[q])',
         ProcReceipt(i)'
  PROVE  ReceiptInv'
<1>1. ASSUME NEW q \in Procs PROVE ProcReceipt(inv[q])'
  <2>1. CASE q = p
    <3>1. inv'[q] = i
      BY <2>1 DEF Turns, IInv, TypeInv, TypeOK
    <3> QED BY <3>1 DEF ProcReceipt, Remembered
  <2>2. CASE q # p
    <3>1. inv'[q] = inv[q] /\ inv[q].pc # "rearm"
      BY <2>2 DEF Turn, Turns, IInv, TypeInv, TypeOK
    <3> QED BY <2>2, <3>1 DEF ProcReceipt
  <2> QED BY <2>1, <2>2
<1> QED BY <1>1 DEF ReceiptInv

\* A step that changes neither keys, copies, grants nor first attempts keeps the invariant.
LEMMA ReceiptQuiet ==
  ASSUME IInv, ReceiptInv, "rearm" \in Prompt, NEW p \in Procs, Turn(p), NEW i, Turns(p, i),
         \A k \in Keys : Settled(k), ProcReceipt(i)'
  PROVE  ReceiptInv'
<1>1. \A k \in Keys : KeyReceipt(k)'
  BY DEF ReceiptInv, KeyReceipt, Settled
<1>2. ASSUME NEW q \in Procs \ {p}, inv[q].pc \in Attempting PROVE ProcReceipt(inv[q])'
  <2>1. inv'[q] = inv[q] /\ ProcReceipt(inv[q]) /\ inv[q].pc # "rearm"
    BY <1>2 DEF Turns, IInv, TypeInv, TypeOK, ReceiptInv, Attempting
  <2>2. inv[q].cur \in Keys
    BY <1>2 DEF IInv, TypeInv, Located, Attempting, KeySteps, DeliverSteps
  <2> QED BY <2>1, <2>2 DEF ProcReceipt, Remembered, Settled
<1> QED BY <1>1, <1>2, ReceiptMoved

\* Who leaves a key owes it nothing.
LEMMA ReceiptOff ==
  ASSUME IInv, ReceiptInv, "rearm" \in Prompt, NEW p \in Procs, Turn(p),
         \A k \in Keys : Settled(k),
         \E i : Turns(p, i) /\ i.pc \notin Attempting \cup {"rearm"}
  PROVE  ReceiptInv'
<1>1. PICK i : Turns(p, i) /\ i.pc \notin Attempting \cup {"rearm"}
  OBVIOUS
<1>2. ProcReceipt(i)'
  BY <1>1 DEF ProcReceipt
<1> QED BY <1>1, <1>2, ReceiptQuiet

\* Who goes on with an attempt still finds its key.
LEMMA ReceiptOn ==
  ASSUME IInv, ReceiptInv, "rearm" \in Prompt, NEW p \in Procs, Turn(p),
         \A k \in Keys : Settled(k), inv[p].pc \in Attempting \ {"send"},
         NEW step \in Attempting \ {"send"}, \E i : On(p, i, step)
  PROVE  ReceiptInv'
<1>1. PICK i : On(p, i, step)
  OBVIOUS
<1>2. ProcReceipt(inv[p]) /\ inv[p].cur \in Keys
  BY DEF ReceiptInv, IInv, TypeInv, Located, Attempting, KeySteps, DeliverSteps
<1>3. step # "rearm"
  BY DEF Attempting
<1>4. ProcReceipt(i)'
  BY <1>1, <1>2, <1>3 DEF On, ProcReceipt, Remembered, Settled
<1> QED BY <1>1, <1>4, ReceiptQuiet DEF On

\* The ways to be off an attempt.
LEMMA OffAttempt ==
  ASSUME NEW p \in Procs,
         \/ \E i : Off(p, i)
         \/ \E step \in Steps \ (Attempting \cup {"rearm"}) : \E i : On(p, i, step)
  PROVE  \E i : Turns(p, i) /\ i.pc \notin Attempting \cup {"rearm"}
BY DEF Off, On, Attempting

\* Saving a message touches no key, no copy and no first attempt; a new job has none.
LEMMA ReceiptSaving ==
  ASSUME IInv, ReceiptInv, "rearm" \in Prompt, NEW p \in Procs, Turn(p),
         Saving(p) \/ SaveFails(p)
  PROVE  ReceiptInv'
<1> TypeInv
  BY DEF IInv
<1>1. EnqueueSteps \cup {"recant"} \subseteq Steps \ (Attempting \cup {"rearm"})
  BY DEF EnqueueSteps, SavingSteps, Steps, Attempting
<1>2. PICK i : Turns(p, i) /\ i.pc \notin Attempting \cup {"rearm"}
  <2>1. \/ \E i : Off(p, i)
        \/ \E step \in EnqueueSteps \cup {"recant"} : \E i : On(p, i, step)
    <3>1. {"select", "put", "claim", "row", "insert", "link", "files", "commit", "catch"}
            \subseteq EnqueueSteps
      BY DEF EnqueueSteps, SavingSteps
    <3> QED BY <3>1, SaveMoves DEF Saving
  <2> QED BY <1>1, <2>1, OffAttempt
<1>3. UNCHANGED <<copies, receipt, acks>>
  BY DEF Saving, Reserve, Select, Claim, Put, FindRow, InsertRow, Link, StoreFiles, Commit, Catch,
         Recant, SaveFails, provider
<1>4. CASE ~(Reserve(p) /\ job[Cur(p)].state = "none")
  <2>1. \A k \in Keys : job'[k].kind = job[k].kind /\ job'[k].age = job[k].age
    <3>1. CASE Reserve(p)
      BY <1>4, <3>1, ReserveWrites DEF OthersSame, Same
    <3>2. CASE Claim(p)
      BY <3>2, ClaimWrites DEF OthersSame, Same
    <3>3. CASE Link(p) \/ Commit(p) \/ Catch(p) \/ Recant(p)
      BY <3>3, SaveWrites DEF OthersSame, Same
    <3>4. CASE Select(p) \/ Put(p) \/ FindRow(p) \/ InsertRow(p) \/ StoreFiles(p) \/ SaveFails(p)
      BY <3>4 DEF Select, Put, FindRow, InsertRow, StoreFiles, SaveFails
    <3> QED BY <3>1, <3>2, <3>3, <3>4 DEF Saving
  <2> QED BY <1>2, <1>3, <2>1, ReceiptOff DEF Settled
<1>5. CASE Reserve(p) /\ job[Cur(p)].state = "none"
  <2>1. Cur(p) \in Keys /\ OthersSame(p)
    BY <1>5, ReserveWrites
  <2>2. copies[Cur(p)] = 0 /\ acks[Cur(p)] \in Nat
    BY <1>5, <2>1 DEF IInv, SentInv, KeyInv, Exists, TypeInv, TypeOK
  <2>3. ASSUME NEW k \in Keys PROVE KeyReceipt(k)'
    <3>1. CASE k = Cur(p)
      BY <1>3, <2>2, <3>1 DEF KeyReceipt
    <3>2. CASE k # Cur(p)
      BY <1>3, <2>1, <3>2 DEF KeyReceipt, ReceiptInv, OthersSame, Same
    <3> QED BY <3>1, <3>2
  <2>4. ASSUME NEW q \in Procs \ {p}, inv[q].pc \in Attempting PROVE ProcReceipt(inv[q])'
    <3>1. inv'[q] = inv[q] /\ ProcReceipt(inv[q]) /\ inv[q].pc # "rearm"
      BY <1>2, <2>4 DEF Turns, TypeInv, TypeOK, ReceiptInv, Attempting
    <3>2. inv[q].pc \in KeySteps /\ inv[q].pc \in DeliverSteps \ {"read"}
      BY <2>4 DEF Attempting, KeySteps, DeliverSteps
    <3>3. inv[q].cur \in Keys /\ inv[q].cur # Cur(p)
      BY <1>5, <3>2, Standing DEF ProcInv, Exists
    <3> QED BY <1>3, <2>1, <3>1, <3>3 DEF ProcReceipt, Remembered, OthersSame, Same
  <2>5. ProcReceipt(i)'
    BY <1>2 DEF ProcReceipt
  <2> QED BY <1>2, <2>3, <2>4, <2>5, ReceiptMoved
<1> QED BY <1>4, <1>5

\* Steps that write neither a key, a copy, a grant nor a first attempt: all but Read, Begin,
\* Send, Recheck and Rearm.
LEMMA ReceiptPlain ==
  ASSUME IInv, ReceiptInv, "rearm" \in Prompt, NEW p \in Procs, Turn(p),
         \/ LeaseJob(p) \/ Reread(p) \/ Fetch(p)
         \/ SettleJob(p) \/ Record(p) \/ RepairSent(p) \/ ErasePayload(p) \/ NotePayloadErased(p)
         \/ Flushing(p) \/ Abort(p)
  PROVE  ReceiptInv'
<1> TypeInv
  BY DEF IInv
<1>1. UNCHANGED <<copies, receipt, acks>>
  BY DEF LeaseJob, Reread, Fetch, SettleJob, Record, RepairSent, ErasePayload, NotePayloadErased,
         Flushing, Sweep, Expire, SelectDue, NextDue, PurgeEvents, Abort, provider
<1>2. \A k \in Keys : job'[k].kind = job[k].kind /\ job'[k].age = job[k].age
  <2>1. CASE LeaseJob(p) \/ Record(p)
    BY <2>1, AttemptWrites DEF OthersSame, Same
  <2>2. CASE NotePayloadErased(p)
    BY <2>2, SaveWrites DEF OthersSame, Same
  <2>3. CASE SettleJob(p)
    <3>1. Cur(p) \in Keys
      BY <2>3, Standing DEF SettleJob, KeySteps, DeliverSteps
    <3> QED BY <2>3, <3>1, SetStateWrites DEF SettleJob, Same
  <2>4. CASE Expire(p)
    <3>1. PICK k \in Oldest(inv[p].todo) : SetState(k, inv[p].seen[k], SweepState(inv[p].seen[k]))
      BY <2>4 DEF Expire
    <3>2. k \in Keys
      BY <3>1 DEF Oldest, TypeInv, TypeOK, Invocation
    <3> QED BY <3>1, <3>2, SetStateWrites DEF Same
  <2>5. CASE UNCHANGED job
    BY <2>5
  <2> QED
    BY <2>1, <2>2, <2>3, <2>4, <2>5 DEF Reread, Fetch, RepairSent, ErasePayload, Flushing, Sweep,
      SelectDue, NextDue, PurgeEvents, Abort
<1>3. \A k \in Keys : Settled(k)
  BY <1>1, <1>2 DEF Settled
<1>4. CASE \E i : Turns(p, i) /\ i.pc \notin Attempting \cup {"rearm"}
  BY <1>3, <1>4, ReceiptOff
<1>5. CASE (\E i : Off(p, i)) \/ \E step \in {"settle", "final", "erase", "erased"} : \E i : On(p, i, step)
  BY <1>4, <1>5, OffAttempt DEF Attempting, Steps, DeliverSteps
<1>6. CASE LeaseJob(p) \/ Reread(p) \/ Fetch(p)
  <2>1. inv[p].pc \in Attempting \ {"send"}
    BY <1>6 DEF LeaseJob, Reread, Fetch, At, Attempting
  <2>2. CASE \E step \in {"reread", "fetch", "begin"} : \E i : On(p, i, step)
    BY <1>3, <2>1, <2>2, ReceiptOn DEF Attempting
  <2> QED BY <1>5, <1>6, <2>2, AttemptMoves
<1>7. CASE Flushing(p)
  <2>1. CASE Sweep(p) \/ Expire(p)
    <3>1. \E i : Turns(p, i) /\ i.pc = "expire"
      BY <2>1, FlushMoves
    <3> QED BY <1>4, <3>1 DEF Attempting
  <2>2. CASE SelectDue(p) \/ NextDue(p) \/ PurgeEvents(p)
    BY <1>5, <2>2, FlushMoves
  <2> QED BY <1>7, <2>1, <2>2 DEF Flushing
<1>8. CASE \/ SettleJob(p) \/ Record(p) \/ RepairSent(p) \/ ErasePayload(p)
           \/ NotePayloadErased(p) \/ Abort(p)
  BY <1>5, <1>8, AttemptMoves
<1> QED BY <1>6, <1>7, <1>8

\* An attempt that starts within the window finds the key of a copy that may have left.
LEMMA ReceiptRead ==
  ASSUME IInv, ReceiptInv, ResendTiming, NEW p \in Procs, Turn(p), Read(p)
  PROVE  ReceiptInv'
<1> TypeInv /\ "rearm" \in Prompt /\ Window \in Nat
  BY OutboxAssumption DEF IInv, ResendTiming
<1>1. \A k \in Keys : Settled(k)
  BY DEF Read, provider, Settled
<1>2. CASE (\E i : Off(p, i)) \/ \E step \in {"final", "refuse"} : \E i : On(p, i, step)
  BY <1>1, <1>2, OffAttempt, ReceiptOff DEF Attempting, Steps, DeliverSteps
<1>3. CASE \E i : On(p, i, "lease") /\ ~Expired(job[Cur(p)])
  <2>1. PICK i : On(p, i, "lease") /\ ~Expired(job[Cur(p)])
    BY <1>3
  <2>2. Cur(p) \in Keys /\ job[Cur(p)] \in JobRow /\ inv[p].age \in Nat
    BY Standing DEF Read, At, KeySteps, DeliverSteps, TypeInv, TypeOK, Invocation
  <2>3. KeyReceipt(Cur(p)) /\ receipt[Cur(p)] \in Nat \cup {None}
    BY <2>2 DEF ReceiptInv, TypeInv, TypeOK
  <2>4. ASSUME job[Cur(p)].kind = "resend", copies[Cur(p)] = acks[Cur(p)] + 1
        PROVE  receipt[Cur(p)] # None /\ receipt[Cur(p)] < Window + inv[p].age
    <3>1. job[Cur(p)].age \in Nat /\ job[Cur(p)].age < Window
      BY <2>1, <2>2, <2>3, <2>4 DEF Expired, KeyReceipt, JobRow
    <3>2. receipt[Cur(p)] \in Nat /\ receipt[Cur(p)] <= job[Cur(p)].age
      BY <2>3, <2>4, <3>1 DEF KeyReceipt
    <3>3. receipt[Cur(p)] # None
      BY <2>3, <2>4 DEF KeyReceipt
    <3> QED BY <2>2, <3>1, <3>2, <3>3
  <2>5. i.pc = "lease" /\ i.cur = Cur(p) /\ i.age = inv[p].age
    BY <2>1 DEF On, Cur
  <2>6. ProcReceipt(i)'
    BY <1>1, <2>2, <2>4, <2>5 DEF ProcReceipt, Remembered, Settled
  <2> QED BY <1>1, <2>1, <2>6, ReceiptQuiet DEF On
<1> QED BY <1>2, <1>3, AttemptMoves

\* The first attempt's time is set before the call.
LEMMA ReceiptBegin ==
  ASSUME IInv, ReceiptInv, "rearm" \in Prompt, NEW p \in Procs, Turn(p), Begin(p)
  PROVE  ReceiptInv'
<1> TypeInv
  BY DEF IInv
<1>1. PICK i : On(p, i, "send")
  BY AttemptMoves
<1>2. i.pc = "send" /\ i.cur = Cur(p) /\ i.age = inv[p].age /\ Turns(p, i)
  BY <1>1 DEF On, Cur
<1>3. UNCHANGED <<copies, receipt, acks>>
  BY DEF Begin, provider
<1>4. /\ Cur(p) \in Keys /\ OthersSame(p)
      /\ job'[Cur(p)].kind = job[Cur(p)].kind
      /\ job'[Cur(p)].age = IF job[Cur(p)].age = None THEN 0 ELSE job[Cur(p)].age
  BY AttemptWrites
<1>5. 0 # None /\ copies \in [Keys -> Nat] /\ acks \in [Keys -> Nat]
  BY OutboxAssumption DEF TypeInv, TypeOK
<1>6. ASSUME NEW k \in Keys
      PROVE  /\ job'[k].kind = job[k].kind
             /\ job[k].age # None => job'[k].age = job[k].age
             /\ k = Cur(p) => job'[k].age # None
  BY <1>4, <1>5 DEF OthersSame, Same
<1>7. ASSUME NEW k \in Keys PROVE KeyReceipt(k)'
  <2>1. KeyReceipt(k)
    BY DEF ReceiptInv
  <2> QED BY <1>3, <1>6, <2>1 DEF KeyReceipt
<1>8. ASSUME NEW q \in Procs \ {p}, inv[q].pc \in Attempting PROVE ProcReceipt(inv[q])'
  <2>1. inv'[q] = inv[q] /\ ProcReceipt(inv[q]) /\ inv[q].pc # "rearm"
    BY <1>2, <1>8 DEF Turns, TypeInv, TypeOK, ReceiptInv, Attempting
  <2>2. inv[q].cur \in Keys
    BY <1>8 DEF TypeInv, Located, Attempting, KeySteps, DeliverSteps
  <2>3. /\ job'[inv[q].cur].kind = job[inv[q].cur].kind
        /\ job[inv[q].cur].age # None => job'[inv[q].cur].age = job[inv[q].cur].age
    BY <1>6, <2>2
  <2> QED BY <1>3, <2>1, <2>3 DEF ProcReceipt, Remembered
<1>9. ProcReceipt(i)'
  <2>1. ProcReceipt(inv[p]) /\ KeyReceipt(Cur(p)) /\ inv[p].pc = "begin" /\ inv[p].cur = Cur(p)
    BY <1>4 DEF ReceiptInv, Begin, At, Cur
  <2>2. /\ job[Cur(p)].kind = "resend" => copies[Cur(p)] <= acks[Cur(p)] + 1
        /\ job[Cur(p)].kind = "resend" /\ copies[Cur(p)] = acks[Cur(p)] + 1 =>
             receipt[Cur(p)] # None /\ receipt[Cur(p)] < Window + inv[p].age
    BY <2>1 DEF ProcReceipt, KeyReceipt, Remembered, Attempting
  <2>3. copies[Cur(p)] \in Nat /\ acks[Cur(p)] \in Nat
    BY <1>4, <1>5
  <2> QED BY <1>2, <1>3, <1>4, <1>6, <2>2, <2>3 DEF ProcReceipt, Remembered
<1> QED BY <1>2, <1>7, <1>8, <1>9, ReceiptMoved

\* A call makes a copy only when no key is remembered, and then one copy was still granted.
LEMMA ReceiptSend ==
  ASSUME IInv, AgentInv, ReceiptInv, ResendTiming, NEW p \in Procs, Turn(p), Send(p)
  PROVE  ReceiptInv'
<1> TypeInv /\ "rearm" \in Prompt /\ 0 < Window
  BY DEF IInv, ResendTiming
<1>0. Window \in Nat /\ InvocationLimit \in Nat /\ KeyTTL \in Nat /\ 0 # None
  BY OutboxAssumption
<1>1. PICK i : Turns(p, i) /\ i.pc \notin Attempting \cup {"rearm"}
  <2>1. \E step \in {"record", "settle"} : \E i : On(p, i, step)
    BY AttemptMoves
  <2> QED BY <2>1, OffAttempt DEF Attempting, Steps, DeliverSteps
<1>2. UNCHANGED <<job, acks>> /\ (UNCHANGED provider \/ Accept(p))
  BY DEF Send
<1>3. /\ inv[p].pc = "send" /\ Cur(p) \in Keys /\ inv[p].cur = Cur(p)
      /\ inv[p].age \in Nat /\ inv[p].agent = job[Cur(p)].kind /\ inv[p].age <= InvocationLimit
      /\ copies[Cur(p)] \in Nat /\ acks[Cur(p)] \in Nat /\ receipt[Cur(p)] \in Nat \cup {None}
  <2>1. inv[p].pc = "send"
    BY DEF Send, At
  <2>2. inv[p].pc \in KeySteps /\ inv[p].pc \in Attempting /\ inv[p].pc # "idle"
    BY <2>1 DEF KeySteps, DeliverSteps, Attempting
  <2>3. Cur(p) \in Keys /\ Cur(p) = inv[p].cur /\ ProcAgent(inv[p])
    BY <2>2, Standing DEF AgentInv
  <2> QED BY <2>1, <2>2, <2>3 DEF ProcAgent, TypeInv, TypeOK, Invocation
<1>4. CASE UNCHANGED provider
  <2>1. \A k \in Keys : Settled(k)
    BY <1>2, <1>4 DEF provider, Settled
  <2> QED BY <1>1, <2>1, ReceiptOff
<1>5. CASE /\ copies' = [copies EXCEPT ![Cur(p)] = @ + 1]
           /\ receipt' = IF inv[p].agent = "resend" THEN [receipt EXCEPT ![Cur(p)] = 0] ELSE receipt
           /\ ~(inv[p].agent = "resend" /\ receipt[Cur(p)] # None /\ receipt[Cur(p)] < KeyTTL)
  <2>1. /\ copies'[Cur(p)] = copies[Cur(p)] + 1
        /\ inv[p].agent = "resend" => receipt'[Cur(p)] = 0
        /\ \A k \in Keys \ {Cur(p)} : copies'[k] = copies[k] /\ receipt'[k] = receipt[k]
    BY <1>3, <1>5 DEF TypeInv, TypeOK
  <2>2. inv[p].agent = "resend" =>
          \/ copies[Cur(p)] < acks[Cur(p)]
          \/ copies[Cur(p)] = acks[Cur(p)] /\ job[Cur(p)].age # None
    <3>1. ASSUME inv[p].agent = "resend"
          PROVE  ~(receipt[Cur(p)] # None /\ receipt[Cur(p)] < Window + inv[p].age)
      BY <1>0, <1>3, <1>5, <3>1 DEF ResendTiming
    <3>2. ProcReceipt(inv[p])
      BY DEF ReceiptInv
    <3> QED BY <1>3, <3>1, <3>2 DEF ProcReceipt, Remembered, Attempting
  <2>3. ASSUME NEW k \in Keys PROVE KeyReceipt(k)'
    <3>1. CASE k # Cur(p)
      <4>1. KeyReceipt(k)
        BY DEF ReceiptInv
      <4> QED BY <1>2, <2>1, <3>1, <4>1 DEF KeyReceipt
    <3>2. CASE k = Cur(p)
      <4>1. job[k].kind = "resend" =>
              /\ copies[k] + 1 <= acks[k] + 1
              /\ copies[k] + 1 = acks[k] + 1 =>
                   /\ job[k].age # None
                   /\ job[k].age < Window => 0 <= job[k].age
        <5>1. job[k].age \in Nat \cup {None}
          BY <3>2, <1>3 DEF TypeInv, TypeOK, JobRow
        <5> QED BY <1>3, <2>2, <3>2, <5>1
      <4> QED BY <1>0, <1>2, <1>3, <2>1, <3>2, <4>1 DEF KeyReceipt
    <3> QED BY <3>1, <3>2
  <2>4. ASSUME NEW q \in Procs \ {p}, inv[q].pc \in Attempting PROVE ProcReceipt(inv[q])'
    <3>1. /\ inv'[q] = inv[q] /\ ProcReceipt(inv[q]) /\ inv[q].pc # "rearm"
          /\ inv[q].age \in Nat
      BY <1>1, <2>4 DEF Turns, TypeInv, TypeOK, Invocation, ReceiptInv, Attempting
    <3>2. inv[q].cur \in Keys
      BY <2>4 DEF TypeInv, Located, Attempting, KeySteps, DeliverSteps
    <3>3. CASE inv[q].cur # Cur(p)
      BY <1>2, <2>1, <3>1, <3>2, <3>3 DEF ProcReceipt, Remembered
    <3>4. CASE inv[q].cur = Cur(p)
      <4>1. job[Cur(p)].kind = "resend" =>
              receipt'[Cur(p)] = 0 /\ 0 < Window + inv[q].age
        BY <1>0, <1>3, <2>1, <3>1
      <4> QED BY <1>0, <1>2, <3>1, <3>4, <4>1 DEF ProcReceipt, Remembered
    <3> QED BY <3>3, <3>4
  <2>5. ProcReceipt(i)'
    BY <1>1 DEF ProcReceipt
  <2> QED BY <1>1, <2>3, <2>4, <2>5, ReceiptMoved
<1> QED BY <1>2, <1>4, <1>5 DEF Accept

\* A manual retry re-arms the row it has just read; whenever it forgets the first attempt's
\* time, another copy has been granted.
LEMMA ReceiptRetry ==
  ASSUME IInv, ReceiptInv, "rearm" \in Prompt, NEW p \in Procs, Turn(p), Retrying(p)
  PROVE  ReceiptInv'
<1> TypeInv
  BY DEF IInv
<1>1. CASE Recheck(p)
  <2>1. \A k \in Keys : Settled(k)
    BY <1>1 DEF Recheck, provider, Settled
  <2>2. CASE \E i : Off(p, i)
    BY <2>1, <2>2, OffAttempt, ReceiptOff
  <2>3. CASE \E i : On(p, i, "rearm") /\ i.seen[i.cur] = job[Cur(p)] /\ i.flag = Expired(job[Cur(p)])
    <3>1. PICK i : On(p, i, "rearm") /\ i.seen[i.cur] = job[Cur(p)] /\ i.flag = Expired(job[Cur(p)])
      BY <2>3
    <3>2. i.cur = Cur(p) /\ UNCHANGED job /\ i.pc = "rearm"
      BY <1>1, <3>1 DEF On, Cur, Recheck
    <3>3. ProcReceipt(i)'
      BY <3>1, <3>2 DEF ProcReceipt, Expired, Attempting
    <3> QED BY <2>1, <3>1, <3>3, ReceiptQuiet DEF On
  <2> QED BY <1>1, <2>2, <2>3, RetryMoves
<1>2. CASE Rearm(p)
  <2>1. PICK i : Turns(p, i) /\ i.pc \notin Attempting \cup {"rearm"}
    BY <1>2, RetryMoves, OffAttempt
  <2>2. UNCHANGED <<copies, receipt>>
    BY <1>2 DEF Rearm, provider
  <2>3. /\ Cur(p) \in Keys /\ OthersSame(p) /\ job'[Cur(p)].kind = job[Cur(p)].kind
        /\ Row(p) = job[Cur(p)] /\ inv[p].flag = Expired(job[Cur(p)])
    BY <1>2, RearmWrites DEF ReceiptInv, ProcReceipt, Rearm, At, Row, Cur
  <2>4. /\ job'[Cur(p)].age = IF inv[p].flag THEN None ELSE job[Cur(p)].age
        /\ acks' = IF job[Cur(p)].state = "uncertain" \/ inv[p].flag
                   THEN [acks EXCEPT ![Cur(p)] = @ + 1] ELSE acks
    BY <1>2, <2>3, RearmWrites
  <2>5. CASE ~(job[Cur(p)].state = "uncertain" \/ inv[p].flag)
    <3>1. \A k \in Keys : Settled(k)
      BY <2>2, <2>3, <2>4, <2>5 DEF Settled, OthersSame, Same
    <3> QED BY <2>1, <3>1, ReceiptOff
  <2>6. CASE job[Cur(p)].state = "uncertain" \/ inv[p].flag
    <3>1. acks'[Cur(p)] = acks[Cur(p)] + 1 /\ \A k \in Keys \ {Cur(p)} : acks'[k] = acks[k]
      BY <2>3, <2>4, <2>6 DEF TypeInv, TypeOK
    <3>2. copies[Cur(p)] \in Nat /\ acks[Cur(p)] \in Nat
      BY <2>3 DEF TypeInv, TypeOK
    <3>3. ASSUME NEW k \in Keys PROVE KeyReceipt(k)'
      <4>1. KeyReceipt(k)
        BY DEF ReceiptInv
      <4>2. CASE k # Cur(p)
        BY <2>2, <2>3, <3>1, <4>1, <4>2 DEF KeyReceipt, OthersSame, Same
      <4>3. CASE k = Cur(p)
        <5>1. job'[k].kind = "resend" => copies[k] <= acks[k] + 1
          BY <2>3, <4>1, <4>3 DEF KeyReceipt
        <5>2. copies'[k] = copies[k] /\ acks'[k] = acks[k] + 1
          BY <2>2, <3>1, <4>3
        <5>3. job'[k].kind = "resend" => copies'[k] < acks'[k] + 1
          BY <3>2, <4>3, <5>1, <5>2
        <5>4. copies'[k] \in Nat /\ acks'[k] \in Nat
          BY <3>2, <4>3, <5>2
        <5> QED BY <5>3, <5>4 DEF KeyReceipt
      <4> QED BY <4>2, <4>3
    <3>4. ASSUME NEW q \in Procs \ {p}, inv[q].pc \in Attempting PROVE ProcReceipt(inv[q])'
      <4>1. inv'[q] = inv[q] /\ ProcReceipt(inv[q]) /\ inv[q].pc # "rearm"
        BY <2>1, <3>4 DEF Turns, TypeInv, TypeOK, ReceiptInv, Attempting
      <4>2. inv[q].cur \in Keys
        BY <3>4 DEF TypeInv, Located, Attempting, KeySteps, DeliverSteps
      <4>3. CASE inv[q].cur # Cur(p)
        BY <2>2, <2>3, <3>1, <4>1, <4>2, <4>3 DEF ProcReceipt, Remembered, OthersSame, Same
      <4>4. CASE inv[q].cur = Cur(p)
        <5>1. ASSUME job[Cur(p)].kind = "resend"
              PROVE  IF inv[q].pc = "send"
                     THEN copies[Cur(p)] <= acks[Cur(p)] \/ Remembered(inv[q])
                     ELSE copies[Cur(p)] <= acks[Cur(p)] + 1
          <6>1. KeyReceipt(Cur(p))
            BY <2>3 DEF ReceiptInv
          <6> QED BY <3>2, <3>4, <4>1, <4>4, <5>1, <6>1 DEF ProcReceipt, KeyReceipt
        <5>2. copies'[Cur(p)] = copies[Cur(p)] /\ acks'[Cur(p)] = acks[Cur(p)] + 1
          BY <2>2, <3>1
        <5>3. job[Cur(p)].kind = "resend" =>
                IF inv[q].pc = "send" THEN copies'[Cur(p)] < acks'[Cur(p)] \/ Remembered(inv[q])
                ELSE copies'[Cur(p)] < acks'[Cur(p)] + 1
          BY <3>2, <5>1, <5>2
        <5>4. copies'[Cur(p)] \in Nat /\ acks'[Cur(p)] \in Nat
          BY <3>2, <5>2
        <5> QED BY <2>2, <2>3, <4>1, <4>4, <5>3, <5>4 DEF ProcReceipt, Remembered
      <4> QED BY <4>3, <4>4
    <3>5. ProcReceipt(i)'
      BY <2>1 DEF ProcReceipt
    <3> QED BY <2>1, <3>3, <3>4, <3>5, ReceiptMoved
  <2> QED BY <2>5, <2>6
<1> QED BY <1>1, <1>2 DEF Retrying

\* Keys and first attempts age alike.
LEMMA ReceiptTick ==
  ASSUME IInv, ReceiptInv, "rearm" \in Prompt, Tick
  PROVE  ReceiptInv'
<1> TypeInv
  BY DEF IInv
<1>1. UNCHANGED <<copies, acks>> /\ Window \in Nat /\ KeyTTL \in Nat
  BY OutboxAssumption DEF Tick
<1>2. ASSUME NEW k \in Keys
      PROVE  /\ job'[k].kind = job[k].kind /\ job'[k].age = Older(job[k].age, Window)
             /\ receipt'[k] = Older(receipt[k], KeyTTL)
             /\ receipt[k] \in Nat \cup {None} /\ job[k].age \in Nat \cup {None}
             /\ receipt[k] # None => receipt'[k] \in Nat /\ receipt'[k] # None /\ receipt'[k] <= receipt[k] + 1
  <2>1. job'[k].kind = job[k].kind /\ job'[k].age = Older(job[k].age, Window)
    BY TickWrites
  <2>2. receipt'[k] = Older(receipt[k], KeyTTL)
    BY DEF Tick
  <2>3. receipt[k] \in Nat \cup {None} /\ job[k].age \in Nat \cup {None}
    BY DEF TypeInv, TypeOK, JobRow
  <2>4. None \notin Nat
    BY OutboxAssumption
  <2> QED BY <1>1, <2>1, <2>2, <2>3, <2>4 DEF Older
<1>3. ASSUME NEW k \in Keys PROVE KeyReceipt(k)'
  <2>1. KeyReceipt(k) /\ None \notin Nat
    BY OutboxAssumption DEF ReceiptInv
  <2>2. ASSUME job[k].age # None
        PROVE  /\ job'[k].age # None
               /\ job'[k].age < Window => job[k].age < Window /\ job'[k].age = job[k].age + 1
    BY <1>1, <1>2, <2>1, <2>2 DEF Older
  <2>3. ASSUME job[k].kind = "resend", copies[k] = acks[k] + 1
        PROVE  /\ job'[k].age # None /\ receipt'[k] # None
               /\ job'[k].age < Window => receipt'[k] <= job'[k].age
    <3>1. /\ job[k].age # None /\ receipt[k] # None
          /\ job[k].age < Window => receipt[k] <= job[k].age
      BY <2>1, <2>3 DEF KeyReceipt
    <3> QED BY <1>2, <2>2, <3>1
  <2> QED BY <1>1, <1>2, <2>1, <2>3 DEF KeyReceipt
<1>4. ASSUME NEW q \in Procs PROVE ProcReceipt(inv[q])'
  <2>1. ProcReceipt(inv[q]) /\ inv[q].age \in Nat /\ None \notin Nat
    BY OutboxAssumption DEF ReceiptInv, TypeInv, TypeOK, Invocation
  <2>2. /\ inv'[q].pc = inv[q].pc /\ inv'[q].cur = inv[q].cur
        /\ inv[q].pc # "idle" => inv'[q].age = inv[q].age + 1 /\ inv[q].pc \notin Prompt
    BY TickWrites
  <2>3. inv[q].pc # "rearm"
    BY <2>2
  <2>4. ASSUME inv[q].pc \in Attempting PROVE inv[q].cur \in Keys /\ inv[q].pc # "idle"
    BY <2>4 DEF TypeInv, Located, Attempting, KeySteps, DeliverSteps
  <2>5. ASSUME inv[q].pc \in Attempting, Remembered(inv[q]) PROVE Remembered(inv[q])'
    <3>1. receipt[inv[q].cur] # None /\ receipt[inv[q].cur] < Window + inv[q].age
      BY <2>5 DEF Remembered
    <3>2. /\ receipt'[inv[q].cur] # None /\ receipt'[inv[q].cur] <= receipt[inv[q].cur] + 1
          /\ receipt[inv[q].cur] \in Nat /\ receipt'[inv[q].cur] \in Nat
      BY <1>2, <2>4, <2>5, <3>1
    <3>3. receipt'[inv[q].cur] < Window + (inv[q].age + 1)
      BY <1>1, <2>1, <3>1, <3>2
    <3> QED BY <2>2, <2>4, <2>5, <3>2, <3>3 DEF Remembered
  <2>6. ASSUME inv[q].pc \in Attempting, job[inv[q].cur].age # None PROVE job'[inv[q].cur].age # None
    BY <1>1, <1>2, <2>1, <2>4, <2>6 DEF Older
  <2>7. inv[q].pc \in Attempting => job'[inv[q].cur].kind = job[inv[q].cur].kind
    BY <1>2, <2>4
  <2> QED BY <1>1, <2>1, <2>2, <2>3, <2>5, <2>6, <2>7 DEF ProcReceipt
<1> QED BY <1>3, <1>4 DEF ReceiptInv

\* Every step keeps copies and keys together.
LEMMA ReceiptStep ==
  ASSUME IInv, AgentInv, ReceiptInv, ResendTiming, Next
  PROVE  ReceiptInv'
<1> TypeInv /\ "rearm" \in Prompt
  BY DEF IInv, ResendTiming
<1>1. ASSUME NEW p \in Procs, Turn(p), Step(p) \/ SaveFails(p) \/ Abort(p) PROVE ReceiptInv'
  BY <1>1, ReceiptSaving, ReceiptPlain, ReceiptRead, ReceiptBegin, ReceiptSend, ReceiptRetry
     DEF Step, Delivering
<1>2. ASSUME NEW p \in Procs, Turn(p),
             \/ \E k \in Keys, c \in Contents : StartSend(p, k, c)
             \/ \E k \in Keys, confirm \in BOOLEAN : StartRetry(p, k, confirm)
             \/ StartFlush(p)
      PROVE  ReceiptInv'
  <2>1. \E i : Turns(p, i) /\ i.pc \notin Attempting \cup {"rearm"}
    BY <1>2, Begins DEF Attempting
  <2>2. \A k \in Keys : Settled(k)
    BY <1>2, Begins DEF Settled, provider
  <2> QED BY <1>2, <2>1, <2>2, ReceiptOff
<1>3. ASSUME UNCHANGED <<job, inv, provider, acks>> PROVE ReceiptInv'
  BY <1>3 DEF ReceiptInv, KeyReceipt, ProcReceipt, Remembered, provider
<1>4. CASE Redeploy \/ \E k \in Keys, n \in 1..(1 + MaxAcks), s \in Events : Webhook(k, n, s)
  BY <1>3, <1>4 DEF Redeploy, Webhook
<1>5. CASE Tick
  BY <1>5, ReceiptTick
<1> QED BY <1>1, <1>2, <1>4, <1>5 DEF Next

-----------------------------------------------------------------------------
(* Saving: one saver at a time *)

\* A lease outlasts enqueueOutbound, and the sweep acts on the rows it has just selected.
SavesInTime == PrepareLimit <= Lease /\ "expire" \in Prompt

\* Who has reserved or claimed the job and is now storing what it needs.
Saver(i) == i.pc \in SavingSteps \/ (i.pc = "select" /\ i.flag)
Stages == {"row", "insert", "link", "files", "commit"}

SaveKey(k) ==
  /\ job[k].state = "accepted" => job[k].prepared
  /\ job[k].prepared /\ job[k].state # "accepted" /\ recanted[k] = 0
       => payload[k] = job[k].content
SaveProc(i) ==
  /\ Saver(i) => /\ job[i.cur].state = "preparing" /\ ~job[i.cur].prepared
                 /\ job[i.cur].lease = Lease - i.age
  /\ i.pc \in Stages => payload[i.cur] = i.want
  /\ i.pc = "expire" => \A k \in i.todo : /\ i.seen[k] = job[k] /\ job[k].lease < 0
                                          /\ job[k].state \in {"sending", "preparing"}
  /\ i.pc \in {"final", "erase"} /\ recanted[i.cur] = 0 => job[i.cur].state = "accepted"
Alone == \A p, q \in Procs : Saver(inv[p]) /\ Saver(inv[q]) /\ Cur(p) = Cur(q) => p = q
SaveInv ==
  /\ \A k \in Keys : SaveKey(k)
  /\ \A p \in Procs : SaveProc(inv[p])
  /\ Alone

\* What a saver holds, and that a step of p touches only what it holds itself.
Reserved(k) == job[k].state = "preparing" /\ ~job[k].prepared /\ job[k].lease >= 0
Mine(p, k) == Saver(inv[p]) /\ k = Cur(p)
Spared(p) ==
  \A k \in Keys : Reserved(k) /\ ~Mine(p, k) => Same(k) /\ payload'[k] = payload[k]
StaysClosed ==
  \A k \in Keys : job[k].state = "accepted" /\ recanted'[k] = recanted[k]
                    => job'[k].state = "accepted"
Remembers == \A k \in Keys : recanted'[k] = 0 => recanted[k] = 0
SaveKeys(p) == Spared(p) /\ StaysClosed /\ Remembers /\ \A k \in Keys : SaveKey(k)'

\* A saver holds its key: its lease has not run out.
LEMMA SaverHolds ==
  ASSUME IInv, AgentInv, SaveInv, SavesInTime, NEW q \in Procs, Saver(inv[q])
  PROVE  Reserved(inv[q].cur) /\ inv[q].cur \in Keys /\ inv[q].pc # "idle"
<1>1. inv[q].pc \in EnqueueSteps /\ inv[q].pc \in KeySteps /\ inv[q].pc # "idle"
  BY DEF Saver, EnqueueSteps, SavingSteps, KeySteps
<1>2. ProcAgent(inv[q]) /\ SaveProc(inv[q])
  BY DEF AgentInv, SaveInv
<1>3. inv[q].age \in Nat /\ inv[q].cur \in Keys
  BY <1>1, Standing DEF IInv, TypeInv, TypeOK, Invocation, Cur
<1>4. PrepareLimit \in Nat /\ Lease \in Nat /\ PrepareLimit <= Lease
  BY OutboxAssumption DEF SavesInTime
<1>5. inv[q].age <= PrepareLimit /\ job[inv[q].cur].lease = Lease - inv[q].age
  BY <1>1, <1>2 DEF ProcAgent, SaveProc
<1>6. job[inv[q].cur].lease >= 0
  BY <1>3, <1>4, <1>5
<1> QED BY <1>1, <1>2, <1>3, <1>6 DEF SaveProc, Reserved

\* A step that spares what others hold keeps the invariant, if p's own next step may rely on
\* what it relies on.
LEMMA SaveMoved ==
  ASSUME IInv, AgentInv, SaveInv, SavesInTime, NEW p \in Procs, Turn(p), NEW i, Turns(p, i),
         SaveKeys(p), SaveProc(i)',
         Saver(i) => ~Reserved(i.cur) \/ Mine(p, i.cur)
  PROVE  SaveInv'
<1>0. inv \in [Procs -> Invocation]
  BY DEF IInv, TypeInv, TypeOK
<1>1. ASSUME NEW q \in Procs, q # p, Saver(inv[q])
      PROVE  Same(inv[q].cur) /\ payload'[inv[q].cur] = payload[inv[q].cur]
  <2>1. Reserved(inv[q].cur) /\ inv[q].cur \in Keys
    BY <1>1, SaverHolds
  <2>2. ~Mine(p, inv[q].cur)
    BY <1>1 DEF Mine, SaveInv, Alone, Cur
  <2> QED BY <2>1, <2>2 DEF SaveKeys, Spared
<1>2. ASSUME NEW q \in Procs PROVE SaveProc(inv[q])'
  <2>1. CASE q = p
    <3>1. inv'[q] = i
      BY <1>0, <2>1 DEF Turns
    <3> QED BY <3>1 DEF SaveProc, Saver
  <2>2. CASE q # p
    <3>1. inv'[q] = inv[q] /\ SaveProc(inv[q])
      BY <1>0, <2>2 DEF Turns, SaveInv
    <3>2. inv[q].pc # "expire"
      BY <2>2 DEF Turn, SavesInTime
    <3>3. Saver(inv[q]) =>
            /\ job'[inv[q].cur].state = "preparing" /\ ~job'[inv[q].cur].prepared
            /\ job'[inv[q].cur].lease = Lease - inv[q].age
      BY <1>1, <2>2, <3>1 DEF SaveProc, Same
    <3>4. inv[q].pc \in Stages => payload'[inv[q].cur] = inv[q].want
      <4>1. inv[q].pc \in Stages => Saver(inv[q])
        BY DEF Stages, Saver, SavingSteps
      <4> QED BY <1>1, <2>2, <3>1, <4>1 DEF SaveProc
    <3>5. inv[q].pc \in {"final", "erase"} /\ recanted'[inv[q].cur] = 0
            => job'[inv[q].cur].state = "accepted"
      <4>1. ASSUME inv[q].pc \in {"final", "erase"} PROVE inv[q].cur \in Keys
        BY <4>1, Standing DEF KeySteps, DeliverSteps
      <4> QED BY <3>1, <4>1 DEF SaveProc, SaveKeys, StaysClosed, Remembers
    <3> QED BY <3>1, <3>2, <3>3, <3>4, <3>5 DEF SaveProc, Saver
  <2> QED BY <2>1, <2>2
<1>3. ASSUME NEW q \in Procs, q # p, Saver(inv[q]), Saver(i), i.cur = inv[q].cur PROVE FALSE
  <2>1. Reserved(i.cur)
    BY <1>3, SaverHolds
  <2>2. Mine(p, i.cur)
    BY <1>3, <2>1
  <2> QED BY <1>3, <2>2 DEF Mine, SaveInv, Alone, Cur
<1>4. Alone'
  <2>1. ASSUME NEW a \in Procs, NEW b \in Procs, a # b,
               Saver(inv'[a]), Saver(inv'[b]), inv'[a].cur = inv'[b].cur
        PROVE  FALSE
    <3>1. \A q \in Procs : inv'[q] = IF q = p THEN i ELSE inv[q]
      BY <1>0 DEF Turns
    <3>2. CASE a = p
      BY <1>3, <2>1, <3>1, <3>2
    <3>3. CASE b = p
      BY <1>3, <2>1, <3>1, <3>3
    <3>4. CASE a # p /\ b # p
      BY <2>1, <3>1, <3>4 DEF SaveInv, Alone, Cur
    <3> QED BY <3>2, <3>3, <3>4
  <2> QED BY <2>1 DEF Alone, Saver, Cur
<1> QED BY <1>2, <1>4 DEF SaveInv, SaveKeys

\* The steps at which an invocation saves, sweeps or finishes.
Careful == SavingSteps \cup {"select", "expire", "final", "erase"}

\* At any other step it relies on nothing.
LEMMA SaveLeft ==
  ASSUME IInv, AgentInv, SaveInv, SavesInTime, NEW p \in Procs, Turn(p), SaveKeys(p),
         \E i : Turns(p, i) /\ i.pc \notin Careful
  PROVE  SaveInv'
<1>1. PICK i : Turns(p, i) /\ i.pc \notin Careful
  OBVIOUS
<1>2. SaveProc(i)' /\ ~Saver(i)
  BY <1>1 DEF SaveProc, Saver, Careful, Stages, SavingSteps
<1> QED BY <1>1, <1>2, SaveMoved

\* The steps outside the saver's path that an invocation may go on to.
LEMMA LeftOr ==
  ASSUME NEW p \in Procs,
         (\E i : Off(p, i)) \/ \E step \in Steps \ Careful : \E i : On(p, i, step)
  PROVE  \E i : Turns(p, i) /\ i.pc \notin Careful
BY DEF Off, On, Careful, SavingSteps

\* Jobs and payloads that nobody writes.
LEMMA SaveRest ==
  ASSUME SaveInv, NEW p \in Procs, UNCHANGED <<job, payload, recanted>>
  PROVE  SaveKeys(p)
BY DEF SaveInv, SaveKeys, SaveKey, Spared, StaysClosed, Remembers, Same

\* A row that no other saver holds is written without being prepared.
LEMMA SaveSet ==
  ASSUME SaveInv, NEW p \in Procs, NEW k \in Keys, ~Reserved(k) \/ Mine(p, k),
         \A j \in Keys \ {k} : Same(j), UNCHANGED <<payload, recanted>>,
         job'[k].prepared => job[k].prepared /\ job'[k].content = job[k].content,
         job[k].state = "accepted" => job'[k].state = "accepted",
         job'[k].state = "accepted" => job'[k].prepared
  PROVE  SaveKeys(p)
<1>1. ASSUME NEW j \in Keys PROVE SaveKey(j)'
  <2>1. SaveKey(j)
    BY DEF SaveInv
  <2>2. CASE j = k
    BY <2>1, <2>2 DEF SaveKey
  <2>3. CASE j # k
    BY <2>1, <2>3 DEF SaveKey, Same
  <2> QED BY <2>2, <2>3
<1>2. StaysClosed
  BY DEF StaysClosed, Same
<1>3. Spared(p)
  BY DEF Spared
<1> QED BY <1>1, <1>2, <1>3 DEF SaveKeys, Remembers

\* Who goes on saving still holds its key.
LEMMA SaverOn ==
  ASSUME IInv, AgentInv, SaveInv, SavesInTime, NEW p \in Procs, Turn(p), SaveKeys(p),
         Saver(inv[p]), Same(inv[p].cur),
         \E step \in SavingSteps : \E i :
           On(p, i, step) /\ (step \in Stages => payload'[inv[p].cur] = i.want)
  PROVE  SaveInv'
<1>1. PICK step, i :
        /\ step \in SavingSteps /\ On(p, i, step)
        /\ (step \in Stages => payload'[inv[p].cur] = i.want)
  OBVIOUS
<1>2. i.pc = step /\ i.cur = inv[p].cur /\ i.age = inv[p].age /\ Turns(p, i)
  BY <1>1 DEF On
<1>3. step \notin {"expire", "final", "erase"} /\ Mine(p, i.cur)
  BY <1>1, <1>2 DEF SavingSteps, Mine, Cur
<1>4. SaveProc(inv[p])
  BY DEF SaveInv
<1>5. /\ job'[i.cur].state = "preparing" /\ ~job'[i.cur].prepared
      /\ job'[i.cur].lease = Lease - i.age
  BY <1>2, <1>4 DEF SaveProc, Same
<1>6. SaveProc(i)'
  BY <1>1, <1>2, <1>3, <1>5 DEF SaveProc
<1> QED BY <1>2, <1>3, <1>6, SaveMoved

\* The steps of enqueueOutbound.
LEMMA SaveSaving ==
  ASSUME IInv, AgentInv, SaveInv, SavesInTime, NEW p \in Procs, Turn(p),
         Saving(p) \/ SaveFails(p)
  PROVE  SaveInv' /\ StaysClosed
<1> TypeInv
  BY DEF IInv
<1>0. inv[p].pc \in KeySteps
  BY DEF Saving, Reserve, Select, Claim, Put, FindRow, InsertRow, Link, StoreFiles, Commit, Catch,
         Recant, SaveFails, At, EnqueueSteps, SavingSteps, KeySteps
<1>1. /\ Cur(p) \in Keys /\ Cur(p) = inv[p].cur /\ ProcInv(inv[p]) /\ KeyInv(Cur(p))
      /\ SaveProc(inv[p]) /\ SaveKey(Cur(p)) /\ inv[p].age \in Nat
  BY <1>0, Standing DEF SaveInv, TypeInv, TypeOK, Invocation
<1>2. SaveKeys(p) => StaysClosed
  BY DEF SaveKeys
<1>3. ASSUME \E i : Off(p, i), SaveKeys(p) PROVE SaveInv'
  BY <1>3, LeftOr, SaveLeft
<1>4. CASE Reserve(p)
  <2>1. PICK i : On(p, i, "select") /\ i.flag = (job[Cur(p)].state = "none")
    BY <1>4, SaveMoves
  <2>2. i.pc = "select" /\ i.cur = Cur(p) /\ i.age = inv[p].age /\ Turns(p, i)
    BY <1>1, <2>1 DEF On
  <2>3. CASE job[Cur(p)].state = "none"
    <3>1. /\ job'[Cur(p)].state = "preparing" /\ ~job'[Cur(p)].prepared
          /\ job'[Cur(p)].lease = Lease - inv[p].age /\ OthersSame(p) /\ UNCHANGED <<payload, recanted>>
      BY <1>4, <2>3, ReserveWrites DEF Reserve
    <3>2. ~Reserved(Cur(p))
      BY <2>3 DEF Reserved
    <3>3. SaveKeys(p)
      BY <1>1, <2>3, <3>1, <3>2, SaveSet DEF OthersSame
    <3>4. SaveProc(i)'
      BY <2>2, <3>1 DEF SaveProc, Stages
    <3> QED BY <1>2, <2>2, <3>2, <3>3, <3>4, SaveMoved
  <2>4. CASE job[Cur(p)].state # "none"
    <3>1. UNCHANGED <<job, payload, recanted>>
      BY <1>4, <2>4 DEF Reserve
    <3>2. SaveKeys(p) /\ ~Saver(i)
      BY <2>1, <2>2, <2>4, <3>1, SaveRest DEF Saver, SavingSteps
    <3>3. SaveProc(i)'
      BY <2>2, <3>2 DEF SaveProc, Stages
    <3> QED BY <1>2, <2>2, <3>2, <3>3, SaveMoved
  <2> QED BY <2>3, <2>4
<1>5. CASE Claim(p)
  <2>1. CASE ~Claimable(Cur(p), inv[p].age)
    <3>1. UNCHANGED <<job, payload, recanted>> /\ Done(p)
      BY <1>5, <2>1 DEF Claim
    <3> QED BY <1>2, <1>3, <3>1, Departs, SaveRest
  <2>2. CASE Claimable(Cur(p), inv[p].age)
    <3>1. PICK i : On(p, i, "put")
      BY <1>5, <2>2, SaveMoves
    <3>2. i.pc = "put" /\ i.cur = Cur(p) /\ i.age = inv[p].age /\ Turns(p, i)
      BY <1>1, <3>1 DEF On
    <3>3. /\ job'[Cur(p)].state = "preparing" /\ job'[Cur(p)].prepared = job[Cur(p)].prepared
          /\ job'[Cur(p)].lease = Lease - inv[p].age /\ OthersSame(p) /\ UNCHANGED <<payload, recanted>>
      BY <1>5, <2>2, ClaimWrites DEF Claim
    <3>4. ~job[Cur(p)].prepared /\ ~Reserved(Cur(p))
      <4>1. job[Cur(p)].lease \in Int
        BY <1>1 DEF TypeInv, TypeOK, JobRow
      <4> QED BY <1>1, <2>2, <4>1 DEF Claimable, Reserved
    <3>5. SaveKeys(p)
      BY <1>1, <3>3, <3>4, SaveSet DEF SaveKey, OthersSame
    <3>6. SaveProc(i)'
      BY <3>2, <3>3, <3>4 DEF SaveProc, Stages
    <3> QED BY <1>2, <3>2, <3>4, <3>5, <3>6, SaveMoved
  <2> QED BY <2>1, <2>2
<1>6. CASE Select(p)
  <2>1. SaveKeys(p) /\ UNCHANGED job
    BY <1>6, SaveRest DEF Select
  <2>2. CASE \E i : Off(p, i)
    BY <1>2, <1>3, <2>1, <2>2
  <2>3. CASE \E i : On(p, i, "put") /\ inv[p].flag
    <3>1. Saver(inv[p]) /\ Same(inv[p].cur)
      BY <1>1, <1>6, <2>1, <2>3, Unwritten DEF Saver, Select, At
    <3>2. "put" \in SavingSteps /\ "put" \notin Stages
      BY DEF SavingSteps, Stages
    <3> QED BY <1>2, <2>1, <2>3, <3>1, <3>2, SaverOn
  <2>4. CASE \E i : On(p, i, "claim")
    <3>1. "claim" \in Steps \ Careful
      BY DEF Steps, EnqueueSteps, Careful, SavingSteps
    <3> QED BY <1>2, <2>1, <2>4, <3>1, LeftOr, SaveLeft
  <2> QED BY <1>6, <2>2, <2>3, <2>4, SaveMoves
<1>7. ASSUME inv[p].pc \in SavingSteps
      PROVE  Saver(inv[p]) /\ Mine(p, Cur(p)) /\ inv[p].want = job[Cur(p)].content
             /\ ~job[Cur(p)].prepared /\ job[Cur(p)].state = "preparing"
  BY <1>1, <1>7 DEF Saver, Mine, ProcInv, SaveProc
<1>8. CASE Put(p)
  <2>1. /\ inv[p].pc \in SavingSteps /\ UNCHANGED <<job, recanted>>
        /\ payload' = [payload EXCEPT ![Cur(p)] = inv[p].want]
    BY <1>8 DEF Put, At, SavingSteps
  <2>2. payload'[Cur(p)] = inv[p].want /\ \A k \in Keys \ {Cur(p)} : payload'[k] = payload[k]
    BY <1>1, <2>1 DEF TypeInv, TypeOK
  <2>3. Spared(p) /\ StaysClosed
    BY <1>7, <2>1, <2>2, Unwritten DEF Spared, StaysClosed, Mine
  <2>4. ASSUME NEW k \in Keys PROVE SaveKey(k)'
    <3>1. CASE k = Cur(p)
      BY <1>7, <2>1, <3>1 DEF SaveKey
    <3>2. CASE k # Cur(p)
      BY <2>1, <2>2, <3>2 DEF SaveKey, SaveInv
    <3> QED BY <3>1, <3>2
  <2>5. \E i : On(p, i, "row") /\ i.want = inv[p].want
    BY <1>8, SaveMoves
  <2>6. "row" \in SavingSteps
    BY DEF SavingSteps
  <2> QED
    BY <1>1, <1>7, <2>1, <2>2, <2>3, <2>4, <2>5, <2>6, SaverOn, Unwritten
       DEF SaveKeys, Remembers
<1>9. CASE FindRow(p) \/ InsertRow(p) \/ Link(p) \/ StoreFiles(p) \/ SaveFails(p)
  <2>1. inv[p].pc \in SavingSteps
    BY <1>9 DEF FindRow, InsertRow, Link, StoreFiles, SaveFails, At, SavingSteps
  <2>2. UNCHANGED <<payload, recanted>> /\ \A k \in Keys : Same(k)
    <3>1. CASE Link(p)
      BY <3>1, SaveWrites DEF Link, OthersSame
    <3>2. CASE FindRow(p) \/ InsertRow(p) \/ StoreFiles(p) \/ SaveFails(p)
      BY <3>2, Unwritten DEF FindRow, InsertRow, StoreFiles, SaveFails
    <3> QED BY <1>9, <3>1, <3>2
  <2>3. SaveKeys(p)
    BY <1>1, <1>7, <2>1, <2>2, SaveSet DEF Same
  <2>4. ASSUME ~SaveFails(p) PROVE payload[Cur(p)] = inv[p].want
    BY <1>1, <1>9, <2>4 DEF FindRow, InsertRow, Link, StoreFiles, At, SaveProc, Stages
  <2>5. \/ \E i : On(p, i, "catch")
        \/ \E step \in {"insert", "link", "files", "commit"} : \E i :
             On(p, i, step) /\ payload[Cur(p)] = i.want
    BY <1>9, <2>4, SaveMoves
  <2>6. /\ {"insert", "link", "files", "commit"} \subseteq SavingSteps
        /\ "catch" \in SavingSteps /\ "catch" \notin Stages
    BY DEF SavingSteps, Stages
  <2> QED BY <1>1, <1>2, <1>7, <2>1, <2>2, <2>3, <2>5, <2>6, SaverOn
<1>10. CASE Commit(p)
  <2>1. /\ inv[p].pc \in SavingSteps /\ UNCHANGED <<payload, recanted>> /\ payload[Cur(p)] = inv[p].want
        /\ OthersSame(p)
        /\ job'[Cur(p)].state = "pending" /\ job'[Cur(p)].prepared
        /\ job'[Cur(p)].content = job[Cur(p)].content
    BY <1>1, <1>10, SaveWrites DEF Commit, At, SavingSteps, SaveProc, Stages
  <2>2. Spared(p) /\ StaysClosed
    BY <1>7, <2>1 DEF Spared, StaysClosed, Mine, OthersSame, Same
  <2>3. ASSUME NEW k \in Keys PROVE SaveKey(k)'
    <3>1. CASE k = Cur(p)
      BY <1>7, <2>1, <3>1 DEF SaveKey
    <3>2. CASE k # Cur(p)
      BY <2>1, <3>2 DEF SaveKey, SaveInv, OthersSame, Same
    <3> QED BY <3>1, <3>2
  <2>4. SaveKeys(p)
    BY <2>1, <2>2, <2>3 DEF SaveKeys, Remembers
  <2>5. "recant" \in Steps \ Careful
    BY DEF Steps, Careful, SavingSteps
  <2> QED BY <1>10, <2>2, <2>4, <2>5, LeftOr, SaveLeft, SaveMoves
<1>11. CASE Catch(p)
  <2>1. /\ inv[p].pc \in SavingSteps /\ UNCHANGED <<payload, recanted>> /\ OthersSame(p)
        /\ job'[Cur(p)].state = "failed" /\ job'[Cur(p)].prepared = job[Cur(p)].prepared
        /\ job'[Cur(p)].content = job[Cur(p)].content
    BY <1>11, SaveWrites DEF Catch, At, SavingSteps
  <2>2. SaveKeys(p)
    BY <1>1, <1>7, <2>1, SaveSet DEF OthersSame
  <2> QED BY <1>2, <1>3, <1>11, <2>2, SaveMoves
<1>12. CASE Recant(p)
  <2>1. /\ UNCHANGED payload /\ OthersSame(p)
        /\ job'[Cur(p)].state = "failed" /\ job'[Cur(p)].prepared = job[Cur(p)].prepared
        /\ job'[Cur(p)].content = job[Cur(p)].content
    BY <1>12, SaveWrites DEF Recant
  <2>2. /\ \A k \in Keys \ {Cur(p)} : recanted'[k] = recanted[k]
        /\ recanted'[Cur(p)] = IF job[Cur(p)].state \in {"sending", "uncertain", "accepted"}
                                THEN recanted[Cur(p)] + 1 ELSE recanted[Cur(p)]
        /\ recanted[Cur(p)] \in Nat
    BY <1>1, <1>12 DEF Recant, TypeInv, TypeOK
  <2>3. job[Cur(p)].prepared /\ ~Reserved(Cur(p))
    BY <1>1, <1>12 DEF Recant, At, ProcInv, Reserved
  <2>4. Spared(p)
    BY <2>1, <2>3 DEF Spared, OthersSame
  <2>5. recanted'[Cur(p)] # recanted[Cur(p)] \/ job[Cur(p)].state # "accepted"
    BY <2>2
  <2>6. recanted'[Cur(p)] = 0 => recanted[Cur(p)] = 0 /\ job[Cur(p)].state # "accepted"
    BY <2>2
  <2>7. StaysClosed /\ Remembers
    BY <2>1, <2>2, <2>5, <2>6 DEF StaysClosed, Remembers, OthersSame, Same
  <2>8. ASSUME NEW k \in Keys PROVE SaveKey(k)'
    <3>1. CASE k = Cur(p)
      BY <1>1, <2>1, <2>6, <3>1 DEF SaveKey
    <3>2. CASE k # Cur(p)
      BY <2>1, <2>2, <3>2 DEF SaveKey, SaveInv, OthersSame, Same
    <3> QED BY <3>1, <3>2
  <2> QED BY <1>3, <1>12, <2>4, <2>7, <2>8, SaveMoves DEF SaveKeys
<1> QED BY <1>4, <1>5, <1>6, <1>8, <1>9, <1>10, <1>11, <1>12 DEF Saving

\* The steps of an attempt: the job is prepared, so no saver holds it.
LEMMA SaveDelivering ==
  ASSUME IInv, AgentInv, SaveInv, SavesInTime, NEW p \in Procs, Turn(p), Delivering(p)
  PROVE  SaveInv' /\ StaysClosed
<1> TypeInv
  BY DEF IInv
<1>0. inv[p].pc \in KeySteps /\ (~Read(p) => inv[p].pc \in DeliverSteps \ {"read"})
  BY DEF Delivering, Read, LeaseJob, Reread, Fetch, Begin, Send, SettleJob, Record, RepairSent,
         ErasePayload, NotePayloadErased, At, KeySteps, DeliverSteps
<1>1. /\ Cur(p) \in Keys /\ Cur(p) = inv[p].cur /\ ProcInv(inv[p]) /\ SaveProc(inv[p])
      /\ SaveKey(Cur(p))
  BY <1>0, Standing DEF SaveInv
<1>2. ~Read(p) => job[Cur(p)].prepared /\ ~Reserved(Cur(p))
  BY <1>0, <1>1 DEF ProcInv, Reserved
<1>3. SaveKeys(p)
  <2>1. CASE UNCHANGED <<job, payload, recanted>>
    BY <2>1, SaveRest
  <2>2. CASE LeaseJob(p) \/ Begin(p) \/ Record(p)
    <3>1. UNCHANGED <<payload, recanted>> /\ OthersSame(p)
      BY <2>2, AttemptWrites DEF LeaseJob, Begin, Record
    <3>2. /\ job'[Cur(p)].prepared = job[Cur(p)].prepared
          /\ job'[Cur(p)].content = job[Cur(p)].content
      BY <2>2, AttemptWrites
    <3>3. job[Cur(p)].state = "accepted" => job'[Cur(p)].state = "accepted"
      BY <2>2, AttemptWrites DEF Due, Same
    <3>4. job[Cur(p)].prepared /\ ~Reserved(Cur(p))
      BY <1>2, <2>2 DEF LeaseJob, Begin, Record, Read, At
    <3> QED BY <1>1, <3>1, <3>2, <3>3, <3>4, SaveSet DEF OthersSame
  <2>3. CASE SettleJob(p)
    <3>1. job[Cur(p)].prepared /\ ~Reserved(Cur(p))
      BY <1>2, <2>3 DEF SettleJob, Read, At
    <3>2. UNCHANGED <<payload, recanted>> /\ SetState(Cur(p), Row(p), inv[p].verdict)
      BY <2>3 DEF SettleJob
    <3> QED BY <1>1, <3>1, <3>2, SetStateWrites, SaveSet
  <2>4. CASE NotePayloadErased(p)
    <3>1. job[Cur(p)].prepared /\ ~Reserved(Cur(p))
      BY <1>2, <2>4 DEF NotePayloadErased, Read, At
    <3>2. UNCHANGED <<payload, recanted>> /\ OthersSame(p) /\ Same(Cur(p))
      BY <2>4, SaveWrites DEF NotePayloadErased
    <3> QED BY ZenonT(40), <1>1, <3>1, <3>2, SaveSet DEF OthersSame, Same
  <2>5. CASE ErasePayload(p)
    <3>1. /\ UNCHANGED <<job, recanted>>
          /\ \A k \in Keys \ {Cur(p)} : payload'[k] = payload[k]
      BY <1>1, <2>5 DEF ErasePayload, TypeInv, TypeOK
    <3>2. (recanted[Cur(p)] = 0 => job[Cur(p)].state = "accepted") /\ ~Reserved(Cur(p))
      BY <1>1, <1>2, <2>5 DEF ErasePayload, Read, At, SaveProc
    <3> QED
      BY <3>1, <3>2, Unwritten DEF SaveInv, SaveKeys, SaveKey, Spared, StaysClosed, Remembers
  <2> QED
    BY <2>1, <2>2, <2>3, <2>4, <2>5
       DEF Delivering, Read, Reread, Fetch, Send, RepairSent
<1>4. CASE (\E i : Off(p, i)) \/ \E step \in Steps \ Careful : \E i : On(p, i, step)
  BY <1>3, <1>4, LeftOr, SaveLeft DEF SaveKeys
<1>5. CASE \E step \in {"final", "erase"} : \E i :
             On(p, i, step) /\ (recanted'[Cur(p)] = 0 => job'[Cur(p)].state = "accepted")
  <2>1. PICK step, i : /\ step \in {"final", "erase"} /\ On(p, i, step)
                       /\ recanted'[Cur(p)] = 0 => job'[Cur(p)].state = "accepted"
    BY <1>5
  <2>2. i.pc \in {"final", "erase"} /\ i.cur = Cur(p) /\ Turns(p, i)
    BY <1>1, <2>1 DEF On
  <2>3. SaveProc(i)' /\ ~Saver(i)
    BY <2>1, <2>2 DEF SaveProc, Saver, Stages, SavingSteps
  <2> QED BY <1>3, <2>2, <2>3, SaveMoved DEF SaveKeys
<1>6. {"lease", "reread", "refuse", "fetch", "begin", "send", "settle", "record", "erased"}
        \subseteq Steps \ Careful
  BY DEF Steps, DeliverSteps, Careful, SavingSteps
<1>7. CASE Read(p)
  <2>1. CASE \E i : On(p, i, "final") /\ job[Cur(p)].state = "accepted"
    BY <1>5, <1>7, <2>1 DEF Read
  <2> QED BY <1>4, <1>6, <1>7, <2>1, AttemptMoves
<1>8. CASE Record(p)
  BY <1>5, <1>8, AttemptMoves, AttemptWrites
<1>9. CASE RepairSent(p)
  <2>1. recanted'[Cur(p)] = 0 => job'[Cur(p)].state = "accepted"
    BY <1>1, <1>9 DEF RepairSent, At, SaveProc
  <2> QED BY <1>4, <1>5, <1>9, <2>1, AttemptMoves
<1>10. CASE \/ LeaseJob(p) \/ Reread(p) \/ Fetch(p) \/ Begin(p) \/ Send(p) \/ SettleJob(p)
            \/ ErasePayload(p) \/ NotePayloadErased(p)
  BY <1>4, <1>6, <1>10, AttemptMoves
<1> QED BY <1>7, <1>8, <1>9, <1>10 DEF Delivering

\* A manual retry re-arms a job that needs attention; the sweep resets rows it has just seen
\* with an expired lease.
LEMMA SaveWorking ==
  ASSUME IInv, AgentInv, SaveInv, SavesInTime, NEW p \in Procs, Turn(p),
         Retrying(p) \/ Flushing(p) \/ Abort(p)
  PROVE  SaveInv' /\ StaysClosed
<1> TypeInv
  BY DEF IInv
<1>1. ASSUME SaveKeys(p), \E i : Turns(p, i) /\ i.pc \notin Careful PROVE SaveInv' /\ StaysClosed
  BY <1>1, SaveLeft DEF SaveKeys
<1>2. ASSUME SaveKeys(p), \E i : Off(p, i) PROVE SaveInv' /\ StaysClosed
  BY <1>1, <1>2, LeftOr
<1>3. CASE Recheck(p)
  <2>1. SaveKeys(p)
    BY <1>3, SaveRest DEF Recheck
  <2>2. "rearm" \in Steps \ Careful
    BY DEF Steps, Careful, SavingSteps
  <2>3. (\E i : Off(p, i)) \/ \E i : On(p, i, "rearm")
    BY <1>3, RetryMoves
  <2> QED BY <1>1, <2>1, <2>2, <2>3, LeftOr
<1>4. CASE Rearm(p)
  <2>1. /\ Cur(p) \in Keys /\ OthersSame(p) /\ UNCHANGED <<payload, recanted>>
        /\ job'[Cur(p)].prepared = job[Cur(p)].prepared
        /\ job'[Cur(p)].content = job[Cur(p)].content
    BY <1>4, RearmWrites DEF Rearm
  <2>2. Row(p).state \in Verdicts
    BY <1>4 DEF Rearm, At, AgentInv, ProcAgent, Row, Cur
  <2>3. CASE job[Cur(p)].state = Row(p).state
    <3>1. job'[Cur(p)].state = "pending"
      BY <1>4, <2>3, RearmWrites
    <3>2. ~Reserved(Cur(p)) /\ job[Cur(p)].state # "accepted"
      BY <2>2, <2>3 DEF Reserved, Verdicts
    <3>3. SaveKeys(p)
      BY <2>1, <3>1, <3>2, SaveSet DEF OthersSame
    <3> QED BY <1>2, <1>4, <3>3, RetryMoves
  <2>4. CASE job[Cur(p)].state # Row(p).state
    <3>1. UNCHANGED <<job, payload, recanted>>
      BY <1>4, <2>4 DEF Rearm
    <3> QED BY <1>2, <1>4, <3>1, SaveRest, RetryMoves
  <2> QED BY <2>3, <2>4
<1>5. CASE Sweep(p)
  <2>1. SaveKeys(p) /\ UNCHANGED job
    BY <1>5, SaveRest DEF Sweep
  <2>2. PICK i : /\ Turns(p, i) /\ i.pc = "expire" /\ i.seen = job
                 /\ i.todo = {k \in Keys : job[k].state \in {"sending", "preparing"}
                                           /\ job[k].lease < 0}
    BY <1>5, FlushMoves
  <2>3. SaveProc(i)' /\ ~Saver(i)
    BY <2>1, <2>2 DEF SaveProc, Saver, Stages, SavingSteps
  <2> QED BY <2>1, <2>2, <2>3, SaveMoved DEF SaveKeys
<1>6. CASE Expire(p)
  <2>1. PICK k, i :
          /\ k \in Oldest(inv[p].todo)
          /\ SetState(k, inv[p].seen[k], SweepState(inv[p].seen[k]))
          /\ Turns(p, i) /\ i.pc = "expire" /\ i.seen = inv[p].seen /\ i.todo = inv[p].todo \ {k}
    BY <1>6, FlushMoves
  <2>2. k \in inv[p].todo /\ inv[p].todo \subseteq Keys
    BY <2>1 DEF Oldest, TypeInv, TypeOK, Invocation
  <2>3. \A j \in inv[p].todo : /\ inv[p].seen[j] = job[j] /\ job[j].lease < 0
                               /\ job[j].state \in {"sending", "preparing"}
    BY <1>6 DEF Expire, At, SaveInv, SaveProc
  <2>4. k \in Keys /\ ~Reserved(k) /\ job[k].state # "accepted"
    <3>1. job[k].lease \in Int
      BY <2>2 DEF TypeInv, TypeOK, JobRow
    <3> QED BY <2>2, <2>3, <3>1 DEF Reserved
  <2>5. SweepState(inv[p].seen[k]) # "accepted" /\ UNCHANGED <<payload, recanted>>
    BY <1>6 DEF SweepState, Expire
  <2>6. SaveKeys(p)
    BY <2>1, <2>4, <2>5, SetStateWrites, SaveSet
  <2>7. \A j \in Keys \ {k} : job'[j] = job[j]
    BY <2>1, <2>4 DEF SetState, TypeInv, TypeOK
  <2>8. SaveProc(i)' /\ ~Saver(i)
    BY <2>1, <2>2, <2>3, <2>7 DEF SaveProc, Saver, Stages, SavingSteps
  <2> QED BY <2>1, <2>6, <2>8, SaveMoved DEF SaveKeys
<1>7. CASE SelectDue(p) \/ NextDue(p) \/ PurgeEvents(p)
  <2>1. UNCHANGED <<job, payload, recanted>>
    BY <1>7 DEF SelectDue, NextDue, PurgeEvents
  <2> QED BY <1>2, <1>7, <2>1, SaveRest, FlushMoves
<1>8. CASE Abort(p)
  <2>1. UNCHANGED <<job, payload, recanted>>
    BY <1>8 DEF Abort
  <2> QED BY <1>2, <1>8, <2>1, SaveRest, AttemptMoves
<1> QED BY <1>3, <1>4, <1>5, <1>6, <1>7, <1>8 DEF Retrying, Flushing

\* A saver's lease runs down as its clock runs up, and no sweep is under way.
LEMMA SaveTick ==
  ASSUME IInv, AgentInv, SaveInv, SavesInTime, Tick
  PROVE  SaveInv' /\ StaysClosed
<1> TypeInv
  BY DEF IInv
<1>1. UNCHANGED <<payload, recanted>>
  BY DEF Tick
<1>2. \A k \in Keys :
        /\ job'[k].state = job[k].state /\ job'[k].prepared = job[k].prepared
        /\ job'[k].content = job[k].content
        /\ job'[k].lease = IF job[k].lease > Past THEN job[k].lease - 1 ELSE job[k].lease
  BY TickWrites
<1>3. ASSUME NEW k \in Keys PROVE SaveKey(k)'
  BY <1>1, <1>2 DEF SaveKey, SaveInv
<1>4. \A q \in Procs :
        /\ inv'[q].pc = inv[q].pc /\ inv'[q].cur = inv[q].cur /\ inv'[q].want = inv[q].want
        /\ inv'[q].flag = inv[q].flag
        /\ inv[q].pc # "idle" => inv'[q].age = inv[q].age + 1 /\ inv[q].pc \notin Prompt
  BY TickWrites
<1>5. Alone'
  <2>1. ASSUME NEW a \in Procs, NEW b \in Procs, a # b,
               Saver(inv'[a]), Saver(inv'[b]), inv'[a].cur = inv'[b].cur
        PROVE  FALSE
    BY <1>4, <2>1 DEF SaveInv, Alone, Cur, Saver
  <2> QED BY <2>1 DEF Alone, Saver, Cur
<1>6. ASSUME NEW q \in Procs PROVE SaveProc(inv[q])'
  <2>1. SaveProc(inv[q])
    BY DEF SaveInv
  <2>2. inv[q].pc # "expire"
    BY <1>4 DEF SavesInTime
  <2>3. ASSUME Saver(inv[q])
        PROVE  /\ job'[inv[q].cur].state = "preparing" /\ ~job'[inv[q].cur].prepared
               /\ job'[inv[q].cur].lease = Lease - inv'[q].age
    <3>1. Reserved(inv[q].cur) /\ inv[q].cur \in Keys /\ inv[q].pc # "idle"
      BY <2>3, SaverHolds
    <3>2. job[inv[q].cur].lease = Lease - inv[q].age
      BY <2>1, <2>3 DEF SaveProc
    <3>3. /\ inv[q].age \in Nat /\ job[inv[q].cur].lease \in Int
          /\ InvocationLimit \in Nat /\ Lease \in Nat
      BY <3>1, OutboxAssumption DEF TypeInv, TypeOK, Invocation, JobRow
    <3>4. job[inv[q].cur].lease > Past
      BY <3>1, <3>3 DEF Reserved, Past
    <3>5. job'[inv[q].cur].lease = job[inv[q].cur].lease - 1 /\ inv'[q].age = inv[q].age + 1
      BY <1>2, <1>4, <3>1, <3>4
    <3> QED BY <1>2, <3>1, <3>2, <3>3, <3>5 DEF Reserved
  <2>4. inv[q].pc \in {"final", "erase"} /\ recanted'[inv[q].cur] = 0
          => job'[inv[q].cur].state = "accepted"
    <3>1. ASSUME inv[q].pc \in {"final", "erase"} PROVE inv[q].cur \in Keys
      BY <3>1, Standing DEF KeySteps, DeliverSteps, Cur
    <3> QED BY <1>1, <1>2, <2>1, <3>1 DEF SaveProc
  <2>5. inv[q].pc \in Stages => payload'[inv[q].cur] = inv[q].want
    BY <1>1, <2>1 DEF SaveProc
  <2> QED BY <1>4, <2>2, <2>3, <2>4, <2>5 DEF SaveProc, Saver
<1> QED BY <1>2, <1>3, <1>5, <1>6 DEF SaveInv, StaysClosed

\* Every step keeps savers apart and payloads whole, and reopens no accepted job.
LEMMA SaveStep ==
  ASSUME IInv, AgentInv, SaveInv, SavesInTime, Next
  PROVE  SaveInv' /\ StaysClosed
<1>1. ASSUME NEW p \in Procs, Turn(p), Step(p) \/ SaveFails(p) \/ Abort(p)
      PROVE  SaveInv' /\ StaysClosed
  BY <1>1, SaveSaving, SaveDelivering, SaveWorking DEF Step
<1>2. ASSUME NEW p \in Procs, Turn(p),
             \/ \E k \in Keys, c \in Contents : StartSend(p, k, c)
             \/ \E k \in Keys, confirm \in BOOLEAN : StartRetry(p, k, confirm)
             \/ StartFlush(p)
      PROVE  SaveInv' /\ StaysClosed
  <2>1. UNCHANGED <<job, payload, recanted>> /\ \E i : Turns(p, i) /\ i.pc \in {"reserve", "recheck", "sweep"}
    BY <1>2, Begins DEF IInv
  <2>2. \E i : Turns(p, i) /\ i.pc \notin Careful
    BY <2>1 DEF Careful, SavingSteps
  <2>3. SaveKeys(p)
    BY <2>1, SaveRest
  <2> QED BY <1>2, <2>2, <2>3, SaveLeft DEF SaveKeys
<1>3. CASE Redeploy \/ \E k \in Keys, n \in 1..(1 + MaxAcks), s \in Events : Webhook(k, n, s)
  <2>1. UNCHANGED <<job, payload, recanted, inv>>
    BY <1>3 DEF Redeploy, Webhook
  <2> QED BY <2>1 DEF SaveInv, SaveKey, SaveProc, Alone, Saver, Cur, StaysClosed
<1>4. CASE Tick
  BY <1>4, SaveTick
<1> QED BY <1>1, <1>2, <1>3, <1>4 DEF Next

-----------------------------------------------------------------------------
(* Cloudflare: every copy is paid for *)

\* And a refused job is refused before anything else happens to it.
CloudflareTiming == SavesInTime /\ ("refuse" \in Prompt \/ "resend" \notin Kinds)

\* An attempt that may still transmit, or is about to say that it did not.
Spends(i, k) ==
  /\ i.cur = k
  /\ \/ i.pc \in {"reread", "fetch", "begin", "send"}
     \/ i.pc = "settle" /\ i.verdict \in {"failed", "retry"}
Spending(k) == {p \in Procs : Spends(inv[p], k)}

\* States that admit a copy may have left.
Allow(r) == IF r.state \in {"sending", "uncertain", "accepted"} THEN 1 ELSE 0

\* The jobs of messages that Cloudflare is to send, and those that nobody has made.
Metered(r) == r.state # "none" => r.kind # "resend"

\* Copies and attempts together never exceed what was granted and what the state admits.
KeyBudget(k) ==
  /\ IsFiniteSet(Spending(k))
  /\ Metered(job[k]) =>
       copies[k] + Cardinality(Spending(k)) <= acks[k] + recanted[k] + Allow(job[k])
RefusedOpen(i) ==
  i.pc = "refuse" => /\ "resend" \in Kinds
                     /\ job[i.cur].kind # "resend" => job[i.cur].state \in {"pending", "retry"}
BudgetInv == (\A k \in Keys : KeyBudget(k)) /\ (\A p \in Procs : RefusedOpen(inv[p]))

\* What a step takes from the budget of a key it also gives back.
One(b) == IF b THEN 1 ELSE 0
Fits(p, i, k) ==
  Metered(job'[k]) =>
    /\ Metered(job[k])
    /\ copies'[k] + One(Spends(i, k)) + acks[k] + recanted[k] + Allow(job[k])
         <= copies[k] + One(Spends(inv[p], k)) + acks'[k] + recanted'[k] + Allow(job'[k])
Steady(k) ==
  /\ job'[k].kind = job[k].kind /\ job'[k].state = job[k].state
  /\ copies'[k] = copies[k] /\ acks'[k] = acks[k] /\ recanted'[k] = recanted[k]

\* One attempt more or less.
LEMMA SpendingMoves ==
  ASSUME TypeInv, NEW p \in Procs, NEW i, Turns(p, i), NEW k \in Keys, IsFiniteSet(Spending(k))
  PROVE  /\ IsFiniteSet(Spending(k)')
         /\ Cardinality(Spending(k)) \in Nat /\ Cardinality(Spending(k)') \in Nat
         /\ Cardinality(Spending(k)') + One(Spends(inv[p], k))
              = Cardinality(Spending(k)) + One(Spends(i, k))
<1>1. \A q \in Procs : inv'[q] = IF q = p THEN i ELSE inv[q]
  BY DEF Turns, TypeInv, TypeOK
<1>2. PICK T : T = Spending(k)
  OBVIOUS
<1>3. PICK U : U = Spending(k)'
  OBVIOUS
<1>4. /\ \A q \in Procs \ {p} : q \in U <=> q \in T
      /\ p \in T <=> Spends(inv[p], k)
      /\ p \in U <=> Spends(i, k)
      /\ T \subseteq Procs /\ U \subseteq Procs
  BY <1>1, <1>2, <1>3 DEF Spending, Spends
<1>5. IsFiniteSet(T) /\ Cardinality(T) \in Nat
  BY <1>2, FS_CardinalityType
<1>6. CASE (p \in T) <=> (p \in U)
  <2>1. T = U
    BY <1>4, <1>6
  <2> QED BY <1>2, <1>3, <1>4, <1>5, <1>6, <2>1 DEF One
<1>7. CASE p \in T /\ p \notin U
  <2>1. U = T \ {p}
    BY <1>4, <1>7
  <2>2. IsFiniteSet(U) /\ Cardinality(U) = Cardinality(T) - 1 /\ Cardinality(U) \in Nat
    BY <1>5, <1>7, <2>1, FS_RemoveElement, FS_CardinalityType
  <2>3. One(Spends(inv[p], k)) = 1 /\ One(Spends(i, k)) = 0
    BY <1>4, <1>7 DEF One
  <2>4. Cardinality(U) + 1 = Cardinality(T) + 0
    BY <1>5, <2>2
  <2> QED BY <1>2, <1>3, <1>5, <2>2, <2>3, <2>4
<1>8. CASE p \notin T /\ p \in U
  <2>1. U = T \cup {p}
    BY <1>4, <1>8
  <2>2. IsFiniteSet(U) /\ Cardinality(U) = Cardinality(T) + 1 /\ Cardinality(U) \in Nat
    BY <1>5, <1>8, <2>1, FS_AddElement, FS_CardinalityType
  <2>3. One(Spends(inv[p], k)) = 0 /\ One(Spends(i, k)) = 1
    BY <1>4, <1>8 DEF One
  <2>4. Cardinality(U) + 0 = Cardinality(T) + 1
    BY <1>5, <2>2
  <2> QED BY <1>2, <1>3, <1>5, <2>2, <2>3, <2>4
<1> QED BY <1>6, <1>7, <1>8

\* A step that fits every key's budget keeps the budgets.
LEMMA BudgetMoved ==
  ASSUME IInv, BudgetInv, CloudflareTiming, NEW p \in Procs, Turn(p), NEW i, Turns(p, i),
         copies' \in [Keys -> Nat], acks' \in [Keys -> Nat], recanted' \in [Keys -> Nat],
         \A k \in Keys : Fits(p, i, k), RefusedOpen(i)'
  PROVE  BudgetInv'
<1> TypeInv
  BY DEF IInv
<1>1. ASSUME NEW k \in Keys PROVE KeyBudget(k)'
  <2>1. KeyBudget(k) /\ Fits(p, i, k)
    BY DEF BudgetInv
  <2>2. /\ IsFiniteSet(Spending(k)')
        /\ Cardinality(Spending(k)) \in Nat /\ Cardinality(Spending(k)') \in Nat
        /\ Cardinality(Spending(k)') + One(Spends(inv[p], k))
             = Cardinality(Spending(k)) + One(Spends(i, k))
    BY <2>1, SpendingMoves DEF KeyBudget
  <2>3. /\ copies[k] \in Nat /\ acks[k] \in Nat /\ copies'[k] \in Nat /\ acks'[k] \in Nat
        /\ recanted[k] \in Nat /\ recanted'[k] \in Nat
        /\ Allow(job[k]) \in Nat /\ Allow(job'[k]) \in Nat
        /\ One(Spends(inv[p], k)) \in Nat /\ One(Spends(i, k)) \in Nat
    BY DEF TypeInv, TypeOK, Allow, One
  <2>4. Metered(job'[k]) =>
          copies'[k] + Cardinality(Spending(k)') <= acks'[k] + recanted'[k] + Allow(job'[k])
    BY <2>1, <2>2, <2>3 DEF KeyBudget, Fits
  <2> QED BY <2>2, <2>4 DEF KeyBudget
<1>2. ASSUME NEW q \in Procs PROVE RefusedOpen(inv[q])'
  <2>1. CASE q = p
    <3>1. inv'[q] = i
      BY <2>1 DEF Turns, TypeInv, TypeOK
    <3> QED BY <3>1 DEF RefusedOpen
  <2>2. CASE q # p
    <3>1. inv'[q] = inv[q] /\ RefusedOpen(inv[q])
      BY <2>2 DEF Turns, TypeInv, TypeOK, BudgetInv
    <3>2. inv[q].pc # "refuse"
      BY <2>2, <3>1 DEF Turn, CloudflareTiming, RefusedOpen
    <3> QED BY <3>1, <3>2 DEF RefusedOpen
  <2> QED BY <2>1, <2>2
<1> QED BY <1>1, <1>2 DEF BudgetInv

\* A key that a step does not touch.
LEMMA SteadyFits ==
  ASSUME TypeInv, NEW p \in Procs, NEW i, NEW k \in Keys, Steady(k),
         Spends(i, k) => Spends(inv[p], k)
  PROVE  Fits(p, i, k)
<1>1. /\ copies[k] \in Nat /\ acks[k] \in Nat /\ recanted[k] \in Nat
      /\ Allow(job[k]) \in Nat /\ Allow(job'[k]) = Allow(job[k])
  BY DEF TypeInv, TypeOK, Allow, Steady
<1>2. One(Spends(i, k)) \in Nat /\ One(Spends(inv[p], k)) \in Nat
  BY DEF One
<1>3. One(Spends(i, k)) <= One(Spends(inv[p], k))
  BY DEF One
<1>4. Metered(job'[k]) = Metered(job[k])
  BY DEF Metered, Exists, Steady
<1> QED BY <1>1, <1>2, <1>3, <1>4 DEF Fits, Steady

\* Steps that write no state, make no copy and start no attempt.
LEMMA BudgetQuiet ==
  ASSUME IInv, BudgetInv, CloudflareTiming, NEW p \in Procs, Turn(p),
         UNCHANGED <<copies, acks, recanted>>,
         \A k \in Keys : job'[k].kind = job[k].kind /\ job'[k].state = job[k].state,
         \E i : /\ Turns(p, i) /\ i.pc # "refuse"
                /\ \A k \in Keys : Spends(i, k) => Spends(inv[p], k)
  PROVE  BudgetInv'
<1> TypeInv
  BY DEF IInv
<1>1. PICK i : /\ Turns(p, i) /\ i.pc # "refuse"
               /\ \A k \in Keys : Spends(i, k) => Spends(inv[p], k)
  OBVIOUS
<1>2. \A k \in Keys : Fits(p, i, k)
  BY <1>1, SteadyFits DEF Steady
<1>3. /\ RefusedOpen(i)' /\ copies' \in [Keys -> Nat] /\ acks' \in [Keys -> Nat]
      /\ recanted' \in [Keys -> Nat]
  BY <1>1 DEF RefusedOpen, TypeInv, TypeOK
<1> QED BY <1>1, <1>2, <1>3, BudgetMoved

\* Steps that write the state of p's own key.
LEMMA BudgetKeyed ==
  ASSUME IInv, BudgetInv, CloudflareTiming, NEW p \in Procs, Turn(p), NEW i, Turns(p, i),
         i.pc # "refuse", Cur(p) \in Keys, OthersSame(p),
         copies' \in [Keys -> Nat], acks' \in [Keys -> Nat], recanted' \in [Keys -> Nat],
         \A k \in Keys \ {Cur(p)} :
           copies'[k] = copies[k] /\ acks'[k] = acks[k] /\ recanted'[k] = recanted[k],
         \A k \in Keys \ {Cur(p)} : ~Spends(i, k),
         Fits(p, i, Cur(p))
  PROVE  BudgetInv'
<1> TypeInv
  BY DEF IInv
<1>1. ASSUME NEW k \in Keys PROVE Fits(p, i, k)
  <2>1. CASE k = Cur(p)
    BY <2>1
  <2>2. CASE k # Cur(p)
    BY <2>2, SteadyFits DEF Steady, OthersSame, Same
  <2> QED BY <2>1, <2>2
<1>2. RefusedOpen(i)'
  BY DEF RefusedOpen
<1> QED BY <1>1, <1>2, BudgetMoved

\* Who goes on spends at most on its own key.
LEMMA SpendsOn ==
  ASSUME NEW p \in Procs, NEW step, NEW i, On(p, i, step)
  PROVE  /\ step \notin {"reread", "fetch", "begin", "send", "settle"} => \A k : ~Spends(i, k)
         /\ \A k : k # Cur(p) => ~Spends(i, k)
         /\ inv[p].pc \in {"reread", "fetch", "begin", "send"} =>
              \A k : Spends(i, k) => Spends(inv[p], k)
BY DEF On, Spends, Cur

\* Who leaves spends nothing.
LEMMA SpendsOff ==
  ASSUME NEW p \in Procs, NEW i, Off(p, i)
  PROVE  Turns(p, i) /\ i.pc # "refuse" /\ \A k : ~Spends(i, k)
BY DEF Off, Spends

\* Saving: the job admits no copy before and after, and its saver spends nothing.
LEMMA BudgetSaving ==
  ASSUME IInv, AgentInv, SaveInv, BudgetInv, CloudflareTiming, NEW p \in Procs, Turn(p),
         Saving(p) \/ SaveFails(p), ~Recant(p)
  PROVE  BudgetInv'
<1> TypeInv
  BY DEF IInv
<1>0. inv[p].pc \in KeySteps
  BY DEF Saving, Reserve, Select, Claim, Put, FindRow, InsertRow, Link, StoreFiles, Commit, Catch,
         SaveFails, At, EnqueueSteps, SavingSteps, KeySteps
<1>1. /\ Cur(p) \in Keys /\ Cur(p) = inv[p].cur /\ KeyInv(Cur(p)) /\ SaveProc(inv[p])
      /\ copies[Cur(p)] \in Nat /\ acks[Cur(p)] \in Nat /\ recanted[Cur(p)] \in Nat
  BY <1>0, Standing DEF SaveInv, TypeInv, TypeOK
<1>2. UNCHANGED <<copies, acks, recanted>>
  BY DEF Saving, Reserve, Select, Claim, Put, FindRow, InsertRow, Link, StoreFiles, Commit, Catch,
         SaveFails, provider
<1>3. copies' \in [Keys -> Nat] /\ acks' \in [Keys -> Nat] /\ recanted' \in [Keys -> Nat]
  BY <1>2 DEF TypeInv, TypeOK
<1>4. PICK i : Turns(p, i) /\ i.pc # "refuse" /\ \A k : ~Spends(i, k)
  <2>1. CASE \E i : Off(p, i)
    BY <2>1, SpendsOff
  <2>2. CASE \E step \in {"select", "put", "claim", "row", "insert", "link", "files", "commit",
                          "catch", "recant"} : \E i : On(p, i, step)
    BY <2>2, SpendsOn DEF On
  <2> QED BY <2>1, <2>2, SaveMoves DEF Saving
<1>5. ASSUME OthersSame(p), Metered(job'[Cur(p)]) => Metered(job[Cur(p)]) /\ Allow(job[Cur(p)]) = 0
      PROVE  BudgetInv'
  <2>1. Allow(job'[Cur(p)]) \in {0, 1} /\ One(Spends(inv[p], Cur(p))) \in {0, 1}
    BY DEF Allow, One
  <2>2. One(Spends(i, Cur(p))) = 0
    BY <1>4 DEF One
  <2>3. Fits(p, i, Cur(p))
    BY <1>1, <1>2, <1>5, <2>1, <2>2 DEF Fits
  <2> QED BY <1>1, <1>2, <1>3, <1>4, <1>5, <2>3, BudgetKeyed
<1>6. CASE \A k \in Keys : job'[k].kind = job[k].kind /\ job'[k].state = job[k].state
  BY <1>2, <1>4, <1>6, BudgetQuiet
<1>7. CASE Reserve(p)
  <2>1. CASE job[Cur(p)].state # "none"
    BY <1>6, <1>7, <2>1 DEF Reserve
  <2>2. CASE job[Cur(p)].state = "none"
    <3>1. OthersSame(p)
      BY <1>7, ReserveWrites
    <3>2. copies[Cur(p)] = 0 /\ One(Spends(i, Cur(p))) = 0 /\ Allow(job[Cur(p)]) = 0
      BY <1>1, <1>4, <2>2 DEF KeyInv, Exists, One, Allow, TypeInv, TypeOK
    <3>3. Allow(job'[Cur(p)]) \in {0, 1} /\ One(Spends(inv[p], Cur(p))) \in {0, 1}
      BY DEF Allow, One
    <3>4. Metered(job[Cur(p)])
      BY <2>2 DEF Metered, Exists
    <3>5. Fits(p, i, Cur(p))
      BY <1>1, <1>2, <3>2, <3>3, <3>4 DEF Fits
    <3> QED BY <1>1, <1>2, <1>3, <1>4, <3>1, <3>5, BudgetKeyed
  <2> QED BY <2>1, <2>2
<1>8. CASE Claim(p)
  <2>1. CASE Claimable(Cur(p), inv[p].age)
    BY <1>5, <1>8, <2>1, ClaimWrites DEF Claimable, Allow, Metered, Exists
  <2>2. CASE ~Claimable(Cur(p), inv[p].age)
    BY <1>6, <1>8, <2>2 DEF Claim
  <2> QED BY <2>1, <2>2
<1>9. CASE Commit(p) \/ Catch(p)
  <2>1. job[Cur(p)].state = "preparing"
    BY <1>1, <1>9 DEF Commit, Catch, At, SaveProc, Saver, SavingSteps
  <2> QED BY <1>5, <1>9, <2>1, SaveWrites DEF Allow, Metered, Exists
<1>10. CASE Link(p)
  BY <1>6, <1>10, SaveWrites DEF OthersSame, Same
<1>11. CASE Select(p) \/ Put(p) \/ FindRow(p) \/ InsertRow(p) \/ StoreFiles(p) \/ SaveFails(p)
  BY <1>6, <1>11 DEF Select, Put, FindRow, InsertRow, StoreFiles, SaveFails
<1> QED BY <1>7, <1>8, <1>9, <1>10, <1>11 DEF Saving

\* A report that the message was not saved takes the state's allowance and counts it.
LEMMA BudgetRecant ==
  ASSUME IInv, BudgetInv, CloudflareTiming, NEW p \in Procs, Turn(p), Recant(p)
  PROVE  BudgetInv'
<1> TypeInv
  BY DEF IInv
<1>1. /\ Cur(p) \in Keys /\ ProcInv(inv[p]) /\ Cur(p) = inv[p].cur
      /\ copies[Cur(p)] \in Nat /\ acks[Cur(p)] \in Nat /\ recanted[Cur(p)] \in Nat
  BY Standing DEF Recant, At, KeySteps, TypeInv, TypeOK
<1>2. PICK i : Off(p, i)
  BY SaveMoves
<1>3. /\ OthersSame(p) /\ job'[Cur(p)].state = "failed" /\ job'[Cur(p)].kind = job[Cur(p)].kind
      /\ UNCHANGED <<copies, acks>>
  BY SaveWrites DEF Recant, provider
<1>4. /\ copies' \in [Keys -> Nat] /\ acks' \in [Keys -> Nat] /\ recanted' \in [Keys -> Nat]
      /\ \A k \in Keys \ {Cur(p)} : recanted'[k] = recanted[k]
      /\ recanted'[Cur(p)] = IF job[Cur(p)].state \in {"sending", "uncertain", "accepted"}
                             THEN recanted[Cur(p)] + 1 ELSE recanted[Cur(p)]
  BY <1>1, <1>3 DEF Recant, TypeInv, TypeOK
<1>5. recanted'[Cur(p)] = recanted[Cur(p)] + Allow(job[Cur(p)]) /\ Allow(job'[Cur(p)]) = 0
  BY <1>1, <1>3, <1>4 DEF Allow
<1>6. Metered(job'[Cur(p)]) => Metered(job[Cur(p)])
  BY <1>3 DEF Metered
<1>7. /\ One(Spends(i, Cur(p))) = 0 /\ One(Spends(inv[p], Cur(p))) \in {0, 1}
      /\ Allow(job[Cur(p)]) \in {0, 1}
  BY <1>2, SpendsOff DEF One, Allow
<1>8. Fits(p, i, Cur(p))
  BY <1>1, <1>3, <1>5, <1>6, <1>7 DEF Fits
<1> QED BY <1>1, <1>2, <1>3, <1>4, <1>8, SpendsOff, BudgetKeyed

\* An attempt pays for its copy with the state it leaves behind.
LEMMA BudgetDelivering ==
  ASSUME IInv, AgentInv, BudgetInv, CloudflareTiming, NEW p \in Procs, Turn(p), Delivering(p)
  PROVE  BudgetInv'
<1> TypeInv
  BY DEF IInv
<1>0. inv[p].pc \in KeySteps /\ (~Read(p) => inv[p].pc \in DeliverSteps \ {"read"})
  BY DEF Delivering, Read, LeaseJob, Reread, Fetch, Begin, Send, SettleJob, Record, RepairSent,
         ErasePayload, NotePayloadErased, At, KeySteps, DeliverSteps
<1>1. /\ Cur(p) \in Keys /\ Cur(p) = inv[p].cur /\ ProcInv(inv[p]) /\ ProcAgent(inv[p])
      /\ copies[Cur(p)] \in Nat /\ acks[Cur(p)] \in Nat /\ recanted[Cur(p)] \in Nat
  BY <1>0, Standing DEF AgentInv, TypeInv, TypeOK
<1>2. /\ UNCHANGED <<acks, recanted>> /\ acks' \in [Keys -> Nat] /\ recanted' \in [Keys -> Nat]
      /\ copies \in [Keys -> Nat]
  BY DEF Delivering, Read, LeaseJob, Reread, Fetch, Begin, Send, SettleJob, Record, RepairSent,
         ErasePayload, NotePayloadErased, TypeInv, TypeOK
<1>3. ~Send(p) => UNCHANGED copies
  BY DEF Delivering, Read, LeaseJob, Reread, Fetch, Begin, SettleJob, Record, RepairSent,
         ErasePayload, NotePayloadErased, provider
<1>4. ASSUME \A k \in Keys : job'[k].kind = job[k].kind /\ job'[k].state = job[k].state,
             UNCHANGED copies,
             \/ \E i : Off(p, i)
             \/ \E step \in {"final", "lease", "record", "erase", "erased"} : \E i : On(p, i, step)
             \/ /\ inv[p].pc \in {"reread", "fetch", "begin", "send"}
                /\ \E step, i : On(p, i, step) /\ step # "refuse"
      PROVE  BudgetInv'
  <2>1. \E i : /\ Turns(p, i) /\ i.pc # "refuse"
               /\ \A k \in Keys : Spends(i, k) => Spends(inv[p], k)
    <3>1. CASE \E i : Off(p, i)
      BY <3>1, SpendsOff
    <3>2. CASE \E step \in {"final", "lease", "record", "erase", "erased"} : \E i : On(p, i, step)
      BY <3>2, SpendsOn DEF On
    <3>3. CASE /\ inv[p].pc \in {"reread", "fetch", "begin", "send"}
               /\ \E step, i : On(p, i, step) /\ step # "refuse"
      BY <3>3, SpendsOn DEF On
    <3> QED BY <1>4, <3>1, <3>2, <3>3
  <2> QED BY <1>2, <1>4, <2>1, BudgetQuiet
<1>5. \A b : One(b) \in {0, 1}
  BY DEF One
<1>6. CASE Read(p)
  <2>1. UNCHANGED <<job, copies>>
    BY <1>6 DEF Read, provider
  <2>2. CASE \E i : /\ On(p, i, "refuse") /\ Due(job[Cur(p)])
                    /\ job[Cur(p)].kind # inv[p].agent \/ Expired(job[Cur(p)])
    <3>1. PICK i : On(p, i, "refuse")
      BY <2>2
    <3>2. job[Cur(p)].state \in {"pending", "retry"}
      BY <2>2 DEF Due
    <3>3. /\ job[Cur(p)].kind \in Kinds /\ inv[p].agent \in Kinds
          /\ Kinds \subseteq {"resend", "cloudflare"}
      <4>1. job[Cur(p)].kind # None /\ inv[p].agent # None
        BY <1>1, <1>6, <3>2 DEF AgentInv, ProcAgent, Exists, Read, At
      <4> QED BY <1>1, <4>1, OutboxAssumption DEF TypeInv, TypeOK, JobRow, Invocation
    <3>4. "resend" \in Kinds
      BY <2>2, <3>3 DEF Expired
    <3>5. RefusedOpen(i)'
      BY <1>1, <2>1, <3>1, <3>2, <3>4 DEF RefusedOpen, On
    <3>6. \A k \in Keys : Fits(p, i, k)
      BY <1>2, <2>1, <3>1, SteadyFits, SpendsOn DEF Steady
    <3> QED BY <1>2, <2>1, <3>1, <3>5, <3>6, BudgetMoved DEF On
  <2> QED BY <1>4, <1>6, <2>1, <2>2, AttemptMoves
<1>7. CASE LeaseJob(p)
  <2>1. CASE ~Due(job[Cur(p)])
    <3>1. UNCHANGED <<job, copies>> /\ Leave(p)
      BY <1>7, <2>1 DEF LeaseJob, provider
    <3> QED BY <1>4, <3>1, Departs
  <2>2. CASE Due(job[Cur(p)])
    <3>1. Goto(p, "reread")
      BY <1>7, <2>2 DEF LeaseJob
    <3>2. PICK i : On(p, i, "reread")
      BY <3>1, GotoOn
    <3>3. /\ OthersSame(p) /\ job'[Cur(p)].state = "sending"
          /\ job'[Cur(p)].kind = job[Cur(p)].kind
      BY <1>7, <2>2, AttemptWrites
    <3>4. Allow(job[Cur(p)]) = 0 /\ Allow(job'[Cur(p)]) = 1
          /\ Metered(job'[Cur(p)]) = Metered(job[Cur(p)])
      BY <2>2, <3>3 DEF Due, Allow, Metered
    <3>5. UNCHANGED copies
      BY <1>7 DEF LeaseJob, provider
    <3>6. Fits(p, i, Cur(p))
      <4>1. One(Spends(i, Cur(p))) \in {0, 1} /\ One(Spends(inv[p], Cur(p))) \in {0, 1}
        BY <1>5
      <4> QED BY <1>1, <1>2, <3>4, <3>5, <4>1 DEF Fits
    <3> QED BY <1>1, <1>2, <3>2, <3>3, <3>5, <3>6, SpendsOn, BudgetKeyed DEF On
  <2> QED BY <2>1, <2>2
<1>8. CASE Reread(p) \/ Fetch(p) \/ Begin(p)
  <2>1. \A k \in Keys : job'[k].kind = job[k].kind /\ job'[k].state = job[k].state
    BY <1>8, AttemptWrites DEF Reread, Fetch, OthersSame, Same
  <2>2. UNCHANGED copies /\ inv[p].pc \in {"reread", "fetch", "begin", "send"}
    BY <1>8 DEF Reread, Fetch, Begin, provider, At
  <2>3. \E step \in {"fetch", "begin", "settle", "send"} : \E i : On(p, i, step)
    BY <1>8, AttemptMoves
  <2> QED BY <1>4, <2>1, <2>2, <2>3
<1>9. CASE Send(p)
  <2>1. UNCHANGED job /\ inv[p].pc = "send" /\ inv[p].agent = job[Cur(p)].kind
    BY <1>1, <1>9 DEF Send, At, ProcAgent, Attempting
  <2>2. CASE UNCHANGED provider
    <3>1. \E step \in {"record", "settle"} : \E i : On(p, i, step)
      BY <1>9, AttemptMoves
    <3> QED BY <1>4, <2>1, <2>2, <3>1 DEF provider
  <2>3. CASE Accept(p) /\ \E step \in {"record", "settle"} : \E i :
               On(p, i, step) /\ (step = "settle" /\ inv[p].agent # "resend" => i.verdict = "uncertain")
    <3>1. PICK step, i :
               /\ step \in {"record", "settle"} /\ On(p, i, step)
               /\ (step = "settle" /\ inv[p].agent # "resend" => i.verdict = "uncertain")
      BY <2>3
    <3>2. \/ UNCHANGED provider
          \/ copies' = [copies EXCEPT ![Cur(p)] = @ + 1]
      BY <2>3 DEF Accept
    <3>3. CASE copies' = [copies EXCEPT ![Cur(p)] = @ + 1]
      <4>1. /\ copies' \in [Keys -> Nat] /\ copies'[Cur(p)] = copies[Cur(p)] + 1
            /\ \A k \in Keys \ {Cur(p)} : copies'[k] = copies[k]
        BY <1>1, <1>2, <3>3
      <4>2. inv[p].agent # "resend" =>
              One(Spends(inv[p], Cur(p))) = 1 /\ One(Spends(i, Cur(p))) = 0
        BY <1>1, <2>1, <3>1 DEF One, Spends, On
      <4>3. inv[p].agent = "resend" => ~Metered(job[Cur(p)])
        BY <1>0, <1>1, <1>9, <2>1 DEF Metered, ProcInv, Exists, DeliverSteps
      <4>4. Allow(job[Cur(p)]) \in {0, 1}
        BY DEF Allow
      <4>5. Fits(p, i, Cur(p))
        BY <1>1, <1>2, <2>1, <4>1, <4>2, <4>3, <4>4 DEF Fits
      <4>6. OthersSame(p) /\ i.pc # "refuse" /\ Turns(p, i)
        BY <2>1, <3>1, Unwritten DEF OthersSame, On
      <4> QED BY <1>1, <1>2, <3>1, <4>1, <4>5, <4>6, SpendsOn, BudgetKeyed
    <3> QED BY <2>2, <3>2, <3>3
  <2>4. \/ UNCHANGED provider
        \/ Accept(p) /\ \E i : On(p, i, "record")
        \/ Accept(p) /\ \E i : On(p, i, "settle") /\ (inv[p].agent # "resend" => i.verdict = "uncertain")
    BY <1>9, AttemptMoves
  <2> QED BY <2>2, <2>3, <2>4
<1>10. CASE SettleJob(p)
  <2>1. PICK i : Off(p, i)
    BY <1>10, AttemptMoves
  <2>2. /\ SetState(Cur(p), Row(p), inv[p].verdict) /\ UNCHANGED copies
        /\ inv[p].pc \in {"refuse", "settle"}
    BY <1>10 DEF SettleJob, provider
  <2>3. inv[p].verdict \in Verdicts /\ Exists(Cur(p))
    BY <1>1, <2>2 DEF TypeInv, Located, ProcInv, DeliverSteps
  <2>4. /\ OthersSame(p) /\ job'[Cur(p)].kind = job[Cur(p)].kind
        /\ job'[Cur(p)].state = IF job[Cur(p)].state = "accepted" THEN "accepted"
                                ELSE inv[p].verdict
    BY <1>1, <2>2, SetStateWrites DEF OthersSame
  <2>5. Metered(job'[Cur(p)]) = Metered(job[Cur(p)])
    BY <2>3, <2>4 DEF Metered, Exists, Verdicts
  <2>6. One(Spends(i, Cur(p))) = 0
    BY <2>1, SpendsOff DEF One
  <2>7. Metered(job[Cur(p)]) =>
          Allow(job[Cur(p)]) <= One(Spends(inv[p], Cur(p))) + Allow(job'[Cur(p)])
    <3>1. CASE job[Cur(p)].state = "accepted" \/ inv[p].verdict = "uncertain"
      BY <2>4, <3>1 DEF Allow, One
    <3>2. CASE inv[p].verdict # "uncertain" /\ inv[p].pc = "settle"
      <4>1. One(Spends(inv[p], Cur(p))) = 1
        BY <1>1, <2>3, <3>2 DEF One, Spends, Verdicts
      <4> QED BY <4>1 DEF Allow
    <3>3. CASE inv[p].pc = "refuse"
      <4>1. Metered(job[Cur(p)]) => Allow(job[Cur(p)]) = 0
        BY <1>1, <2>3, <3>3 DEF BudgetInv, RefusedOpen, Metered, Exists, Allow
      <4> QED BY <4>1 DEF Allow, One
    <3> QED BY <2>2, <3>1, <3>2, <3>3
  <2>8. Fits(p, i, Cur(p))
    <3>1. /\ Allow(job[Cur(p)]) \in {0, 1} /\ Allow(job'[Cur(p)]) \in {0, 1}
          /\ One(Spends(inv[p], Cur(p))) \in {0, 1}
      BY <1>5 DEF Allow
    <3> QED BY <1>1, <1>2, <2>2, <2>5, <2>6, <2>7, <3>1 DEF Fits
  <2> QED BY <1>1, <1>2, <2>1, <2>2, <2>4, <2>8, SpendsOff, BudgetKeyed
<1>11. CASE Record(p)
  <2>1. PICK i : On(p, i, "final")
    BY <1>11, AttemptMoves
  <2>2. /\ OthersSame(p) /\ job'[Cur(p)].state = "accepted"
        /\ job'[Cur(p)].kind = job[Cur(p)].kind /\ UNCHANGED copies
    BY <1>11, AttemptWrites DEF Record, provider
  <2>3. Exists(Cur(p))
    BY <1>1, <1>11 DEF Record, At, ProcInv, DeliverSteps
  <2>4. /\ Metered(job'[Cur(p)]) = Metered(job[Cur(p)])
        /\ Allow(job'[Cur(p)]) = 1 /\ Allow(job[Cur(p)]) \in {0, 1}
        /\ One(Spends(i, Cur(p))) = 0
    BY <2>1, <2>2, <2>3, SpendsOn DEF Metered, Exists, Allow, One
  <2>5. Fits(p, i, Cur(p))
    <3>1. One(Spends(inv[p], Cur(p))) \in {0, 1}
      BY <1>5
    <3> QED BY <1>1, <1>2, <2>2, <2>4, <3>1 DEF Fits
  <2> QED BY <1>1, <1>2, <2>1, <2>2, <2>5, SpendsOn, BudgetKeyed DEF On
<1>12. CASE RepairSent(p) \/ ErasePayload(p) \/ NotePayloadErased(p)
  <2>1. \A k \in Keys : job'[k].kind = job[k].kind /\ job'[k].state = job[k].state
    BY <1>12, SaveWrites DEF RepairSent, ErasePayload, OthersSame, Same
  <2>2. UNCHANGED copies
    BY <1>12 DEF RepairSent, ErasePayload, NotePayloadErased, provider
  <2>3. (\E i : Off(p, i)) \/ \E step \in {"erase", "erased"} : \E i : On(p, i, step)
    BY <1>12, AttemptMoves
  <2> QED BY <1>4, <2>1, <2>2, <2>3
<1> QED BY <1>6, <1>7, <1>8, <1>9, <1>10, <1>11, <1>12 DEF Delivering

\* A retry of a risky job is granted another copy; the sweep keeps an interrupted attempt
\* uncertain.
LEMMA BudgetWorking ==
  ASSUME IInv, AgentInv, SaveInv, BudgetInv, CloudflareTiming, NEW p \in Procs, Turn(p),
         Retrying(p) \/ Flushing(p) \/ Abort(p)
  PROVE  BudgetInv'
<1> TypeInv
  BY DEF IInv
<1>1. /\ UNCHANGED <<copies, recanted>>
      /\ copies' \in [Keys -> Nat] /\ recanted' \in [Keys -> Nat]
  BY DEF Retrying, Recheck, Rearm, Flushing, Sweep, Expire, SelectDue, NextDue, PurgeEvents, Abort,
         provider, TypeInv, TypeOK
<1>2. ASSUME UNCHANGED <<job, acks>>,
             \E i : Turns(p, i) /\ i.pc # "refuse" /\ \A k : ~Spends(i, k)
      PROVE  BudgetInv'
  BY <1>1, <1>2, BudgetQuiet
<1>3. CASE Recheck(p)
  <2>1. UNCHANGED <<job, acks>>
    BY <1>3 DEF Recheck
  <2>2. (\E i : Off(p, i)) \/ \E i : On(p, i, "rearm")
    BY <1>3, RetryMoves
  <2> QED BY <1>2, <2>1, <2>2, SpendsOff, SpendsOn DEF On
<1>4. CASE Rearm(p)
  <2>1. PICK i : Off(p, i)
    BY <1>4, RetryMoves
  <2>2. CASE job[Cur(p)].state # Row(p).state
    <3>1. UNCHANGED <<job, acks>>
      BY <1>4, <2>2 DEF Rearm
    <3> QED BY <1>2, <2>1, <3>1, SpendsOff
  <2>3. CASE job[Cur(p)].state = Row(p).state
    <3>1. /\ Cur(p) \in Keys /\ OthersSame(p) /\ job'[Cur(p)].kind = job[Cur(p)].kind
          /\ job'[Cur(p)].state = "pending"
          /\ acks' = IF Row(p).state = "uncertain" \/ inv[p].flag
                     THEN [acks EXCEPT ![Cur(p)] = @ + 1] ELSE acks
      BY <1>4, <2>3, RearmWrites
    <3>2. job[Cur(p)].state \in Verdicts
      BY <1>4, <2>3 DEF Rearm, At, AgentInv, ProcAgent, Row, Cur
    <3>3. /\ acks' \in [Keys -> Nat] /\ \A k \in Keys \ {Cur(p)} : acks'[k] = acks[k]
          /\ acks[Cur(p)] \in Nat /\ copies[Cur(p)] \in Nat /\ recanted[Cur(p)] \in Nat
          /\ acks'[Cur(p)] = IF Row(p).state = "uncertain" \/ inv[p].flag
                             THEN acks[Cur(p)] + 1 ELSE acks[Cur(p)]
      BY <3>1 DEF TypeInv, TypeOK
    <3>4. /\ Metered(job'[Cur(p)]) = Metered(job[Cur(p)])
          /\ Allow(job'[Cur(p)]) = 0
          /\ Allow(job[Cur(p)]) = IF Row(p).state = "uncertain" THEN 1 ELSE 0
      BY <2>3, <3>1, <3>2 DEF Metered, Allow, Verdicts
    <3>5. Fits(p, i, Cur(p))
      <4>1. One(Spends(inv[p], Cur(p))) \in {0, 1} /\ One(Spends(i, Cur(p))) = 0
        BY <2>1, SpendsOff DEF One
      <4>2. acks[Cur(p)] + Allow(job[Cur(p)]) <= acks'[Cur(p)] + Allow(job'[Cur(p)])
        BY <3>3, <3>4
      <4>3. Allow(job[Cur(p)]) \in {0, 1} /\ acks'[Cur(p)] \in Nat
        BY <3>3, <3>4
      <4> QED BY <1>1, <3>3, <3>4, <4>1, <4>2, <4>3 DEF Fits
    <3> QED BY <1>1, <2>1, <3>1, <3>3, <3>5, SpendsOff, BudgetKeyed
  <2> QED BY <2>2, <2>3
<1>5. CASE Sweep(p)
  <2>1. UNCHANGED <<job, acks>>
    BY <1>5 DEF Sweep
  <2>2. \E i : Turns(p, i) /\ i.pc = "expire"
    BY <1>5, FlushMoves
  <2> QED BY <1>2, <2>1, <2>2 DEF Spends
<1>6. CASE Expire(p)
  <2>1. PICK k, i :
          /\ k \in Oldest(inv[p].todo)
          /\ SetState(k, inv[p].seen[k], SweepState(inv[p].seen[k]))
          /\ Turns(p, i) /\ i.pc = "expire"
    BY <1>6, FlushMoves
  <2>2. k \in inv[p].todo /\ k \in Keys
    BY <2>1 DEF Oldest, TypeInv, TypeOK, Invocation
  <2>3. inv[p].seen[k] = job[k] /\ job[k].state \in {"sending", "preparing"}
    BY <1>6, <2>2 DEF Expire, At, SaveInv, SaveProc
  <2>4. /\ \A j \in Keys \ {k} : Same(j)
        /\ job'[k].kind = job[k].kind /\ job'[k].state = SweepState(job[k])
    BY <2>1, <2>2, <2>3, SetStateWrites
  <2>5. Metered(job'[k]) =>
          Metered(job[k]) /\ Allow(job'[k]) = Allow(job[k]) /\ Allow(job[k]) \in {0, 1}
    <3>1. SweepState(job[k]) # "none"
      BY DEF SweepState
    <3>2. job[k].kind # "resend" =>
            SweepState(job[k]) = IF job[k].state = "preparing" THEN "failed" ELSE "uncertain"
      BY DEF SweepState
    <3> QED BY <2>3, <2>4, <3>1, <3>2 DEF Metered, Allow
  <2>6. \A j : ~Spends(i, j)
    BY <2>1 DEF Spends
  <2>7. UNCHANGED acks /\ acks' \in [Keys -> Nat]
    BY <1>6 DEF Expire, TypeInv, TypeOK
  <2>8. Fits(p, i, k)
    <3>1. One(Spends(inv[p], k)) \in {0, 1} /\ One(Spends(i, k)) = 0
      BY <2>6 DEF One
    <3>2. copies[k] \in Nat /\ acks[k] \in Nat /\ recanted[k] \in Nat
      BY <2>2 DEF TypeInv, TypeOK
    <3> QED BY <1>1, <2>5, <2>7, <3>1, <3>2 DEF Fits
  <2>9. ASSUME NEW j \in Keys PROVE Fits(p, i, j)
    <3>1. CASE j = k
      BY <2>8, <3>1
    <3>2. CASE j # k
      BY <1>1, <2>4, <2>6, <2>7, <3>2, SteadyFits DEF Steady, Same
    <3> QED BY <3>1, <3>2
  <2>10. RefusedOpen(i)'
    BY <2>1 DEF RefusedOpen
  <2> QED BY <1>1, <2>1, <2>7, <2>9, <2>10, BudgetMoved
<1>7. CASE SelectDue(p) \/ NextDue(p) \/ PurgeEvents(p)
  <2>1. UNCHANGED <<job, acks>>
    BY <1>7 DEF SelectDue, NextDue, PurgeEvents
  <2> QED BY <1>2, <1>7, <2>1, FlushMoves, SpendsOff
<1>8. CASE Abort(p)
  <2>1. UNCHANGED <<job, acks>>
    BY <1>8 DEF Abort
  <2> QED BY <1>2, <1>8, <2>1, AttemptMoves, SpendsOff
<1> QED BY <1>3, <1>4, <1>5, <1>6, <1>7, <1>8 DEF Retrying, Flushing

\* Every step keeps the budgets.
LEMMA BudgetStep ==
  ASSUME IInv, AgentInv, SaveInv, BudgetInv, CloudflareTiming, Next
  PROVE  BudgetInv'
<1> TypeInv
  BY DEF IInv
<1>1. ASSUME NEW p \in Procs, Turn(p), Step(p) \/ SaveFails(p) \/ Abort(p) PROVE BudgetInv'
  BY <1>1, BudgetSaving, BudgetRecant, BudgetDelivering, BudgetWorking DEF Step
<1>2. ASSUME NEW p \in Procs, Turn(p),
             \/ \E k \in Keys, c \in Contents : StartSend(p, k, c)
             \/ \E k \in Keys, confirm \in BOOLEAN : StartRetry(p, k, confirm)
             \/ StartFlush(p)
      PROVE  BudgetInv'
  <2>1. \E i : Turns(p, i) /\ i.pc \in {"reserve", "recheck", "sweep"}
    BY <1>2, Begins
  <2>2. UNCHANGED <<job, copies, acks, recanted>>
    BY <1>2, Begins DEF provider
  <2>3. \E i : Turns(p, i) /\ i.pc # "refuse" /\ \A k \in Keys : Spends(i, k) => Spends(inv[p], k)
    BY <2>1 DEF Spends
  <2> QED BY <1>2, <2>2, <2>3, BudgetQuiet
<1>3. ASSUME UNCHANGED <<copies, acks, recanted>>,
             \A k \in Keys : job'[k].kind = job[k].kind /\ job'[k].state = job[k].state,
             \A q \in Procs : /\ inv'[q].pc = inv[q].pc /\ inv'[q].cur = inv[q].cur
                              /\ inv'[q].verdict = inv[q].verdict
      PROVE  BudgetInv'
  <2>1. ASSUME NEW k \in Keys PROVE KeyBudget(k)'
    <3>1. Spending(k)' = Spending(k)
      BY <1>3 DEF Spending, Spends
    <3>2. PICK T : T = Spending(k)
      OBVIOUS
    <3>3. /\ IsFiniteSet(T)
          /\ Metered(job[k]) =>
               copies[k] + Cardinality(T) <= acks[k] + recanted[k] + Allow(job[k])
      BY <3>2 DEF BudgetInv, KeyBudget
    <3>4. T = Spending(k)'
      BY <3>1, <3>2
    <3>5. Metered(job'[k]) = Metered(job[k]) /\ Allow(job'[k]) = Allow(job[k])
      BY <1>3 DEF Metered, Allow
    <3> QED BY <1>3, <3>3, <3>4, <3>5 DEF KeyBudget
  <2>2. ASSUME NEW q \in Procs PROVE RefusedOpen(inv[q])'
    <3>1. inv[q].pc = "refuse" => inv[q].cur \in Keys
      BY DEF TypeInv, Located, KeySteps, DeliverSteps
    <3> QED BY <1>3, <3>1 DEF BudgetInv, RefusedOpen
  <2> QED BY <2>1, <2>2 DEF BudgetInv
<1>4. CASE Redeploy \/ \E k \in Keys, n \in 1..(1 + MaxAcks), s \in Events : Webhook(k, n, s)
  BY <1>3, <1>4 DEF Redeploy, Webhook, provider
<1>5. CASE Tick
  <2>1. UNCHANGED <<copies, acks, recanted>>
    BY <1>5 DEF Tick
  <2> QED BY <1>3, <1>5, <2>1, TickWrites
<1> QED BY <1>1, <1>2, <1>4, <1>5 DEF Next

-----------------------------------------------------------------------------
(* The guarantees *)

\* With both providers, each job is guarded by what its own provider needs.
DuplicateTiming ==
  /\ "resend" \in Kinds => ResendTiming
  /\ "cloudflare" \in Kinds => CloudflareTiming
PromiseTiming == SavesInTime /\ DuplicateTiming

\* In the beginning nobody works on anything.
LEMMA InitPromise == Init => AgentInv /\ ReceiptInv /\ SaveInv /\ BudgetInv
<1> SUFFICES ASSUME Init PROVE AgentInv /\ ReceiptInv /\ SaveInv /\ BudgetInv
  OBVIOUS
<1>1. /\ \A p \in Procs : inv[p].pc = "idle"
      /\ \A k \in Keys : /\ job[k].state = "none" /\ ~job[k].prepared /\ job[k].kind = None
                         /\ copies[k] = 0 /\ acks[k] = 0 /\ recanted[k] = 0
  BY DEF Init, Idle, Blank, NoJob
<1>2. "idle" \notin EnqueueSteps \cup SavingSteps \cup Attempting \cup Stages
  BY DEF EnqueueSteps, SavingSteps, Attempting, Stages
<1>3. AgentInv
  BY <1>1, <1>2 DEF AgentInv, ProcAgent, Exists
<1>4. ReceiptInv
  BY <1>1, <1>2 DEF ReceiptInv, KeyReceipt, ProcReceipt
<1>5. SaveInv
  BY <1>1, <1>2 DEF SaveInv, SaveKey, SaveProc, Alone, Saver
<1>6. BudgetInv
  <2>1. ASSUME NEW k \in Keys PROVE Spending(k) = {}
    BY <1>1 DEF Spending, Spends
  <2>2. IsFiniteSet({}) /\ Cardinality({}) = 0
    BY FS_EmptySet
  <2>3. ASSUME NEW k \in Keys PROVE KeyBudget(k)
    <3>1. Allow(job[k]) = 0
      BY <1>1 DEF Allow
    <3>2. acks[k] + recanted[k] + Allow(job[k]) = 0
      BY <1>1, <3>1
    <3>3. IsFiniteSet(Spending(k)) /\ copies[k] + Cardinality(Spending(k)) = 0
      BY <1>1, <2>1, <2>2
    <3> QED BY <3>2, <3>3 DEF KeyBudget
  <2> QED BY <1>1, <2>3 DEF BudgetInv, RefusedOpen
<1> QED BY <1>3, <1>4, <1>5, <1>6

\* Doing nothing changes nothing.
LEMMA StutterPromise ==
  UNCHANGED vars =>
    /\ AgentInv => AgentInv'
    /\ ReceiptInv => ReceiptInv'
    /\ SaveInv => SaveInv'
    /\ BudgetInv => BudgetInv'
<1> SUFFICES ASSUME UNCHANGED vars
             PROVE  /\ AgentInv => AgentInv'
                    /\ ReceiptInv => ReceiptInv'
                    /\ SaveInv => SaveInv'
                    /\ BudgetInv => BudgetInv'
  OBVIOUS
<1>1. UNCHANGED <<job, inv, payload, copies, receipt, acks, recanted>>
  BY DEF vars, provider
<1>2. AgentInv => AgentInv'
  BY <1>1 DEF AgentInv, ProcAgent, Exists
<1>3. ReceiptInv => ReceiptInv'
  BY <1>1 DEF ReceiptInv, KeyReceipt, ProcReceipt, Remembered
<1>4. SaveInv => SaveInv'
  BY <1>1 DEF SaveInv, SaveKey, SaveProc, Alone, Saver, Cur
<1>5. BudgetInv => BudgetInv'
  BY <1>1 DEF BudgetInv, KeyBudget, RefusedOpen, Spending, Spends
<1> QED BY <1>2, <1>3, <1>4, <1>5

\* An attempt runs with the provider its job was made for, and no invocation outlives its limit.
THEOREM AgentInvariant == Spec => []AgentInv
<1>1. Init => AgentInv
  BY InitPromise
<1>2. IInv /\ AgentInv /\ [Next]_vars => AgentInv'
  BY AgentStep, StutterPromise
<1> QED
  BY <1>1, <1>2, SentInvariant, PTL DEF Spec

\* Whenever a copy of a Resend message may have left, its key is remembered for as long as an
\* attempt may still use it.
THEOREM ReceiptInvariant == ResendTiming => (Spec => []ReceiptInv)
<1> SUFFICES ASSUME ResendTiming PROVE Spec => []ReceiptInv
  OBVIOUS
<1>1. Init => ReceiptInv
  BY InitPromise
<1>2. IInv /\ AgentInv /\ ReceiptInv /\ [Next]_vars => ReceiptInv'
  BY ReceiptStep, StutterPromise
<1> QED
  BY <1>1, <1>2, SentInvariant, AgentInvariant, PTL DEF Spec

\* Of one key only one invocation at a time stores the message, under a lease of its own; a
\* prepared job has its payload unless it is accepted or a begun send was reported as not saved.
THEOREM SaveInvariant == SavesInTime => (Spec => []SaveInv)
<1> SUFFICES ASSUME SavesInTime PROVE Spec => []SaveInv
  OBVIOUS
<1>1. Init => SaveInv
  BY InitPromise
<1>2. IInv /\ AgentInv /\ SaveInv /\ [Next]_vars => SaveInv'
  BY SaveStep, StutterPromise
<1> QED
  BY <1>1, <1>2, SentInvariant, AgentInvariant, PTL DEF Spec

\* Copies and running attempts of a Cloudflare message never exceed what was granted: the
\* acknowledged risks, the begun sends reported as not saved, and one more while the state
\* admits that a copy may have left.
THEOREM BudgetInvariant == CloudflareTiming => (Spec => []BudgetInv)
<1> SUFFICES ASSUME CloudflareTiming PROVE Spec => []BudgetInv
  OBVIOUS
<1>1. Init => BudgetInv
  BY InitPromise
<1>2. SavesInTime
  BY DEF CloudflareTiming
<1>3. IInv /\ AgentInv /\ SaveInv /\ BudgetInv /\ [Next]_vars => BudgetInv'
  BY BudgetStep, StutterPromise
<1>4. Spec => []SaveInv
  BY <1>2, SaveInvariant
<1> QED
  BY <1>1, <1>3, <1>4, SentInvariant, AgentInvariant, PTL DEF Spec

\* A job that may still be delivered has its payload: enqueueOutbound stores it before it
\* commits, no second saver works under the same lease, and finalizeAccepted erases the
\* payloads of accepted jobs only.  A job that the catch block reopened after its send had
\* begun is excepted: what was accepted meanwhile has no payload left.
THEOREM PayloadIsKept == SavesInTime => (Spec => []PayloadKept)
<1> SUFFICES ASSUME SavesInTime PROVE Spec => []PayloadKept
  OBVIOUS
<1>1. Spec => []SaveInv
  BY SaveInvariant
<1>2. SaveInv => PayloadKept
  BY DEF SaveInv, SaveKey, PayloadKept
<1> QED BY <1>1, <1>2, PTL

\* What a user or the cron re-sends without a warning hides no copy, but one for each begun
\* send that was reported as not saved.
THEOREM SilentRetryIsSound == CloudflareTiming => (Spec => []SilentRetryIsSafe)
<1> SUFFICES ASSUME CloudflareTiming PROVE Spec => []SilentRetryIsSafe
  OBVIOUS
<1>1. Spec => []BudgetInv
  BY BudgetInvariant
<1>2. TypeInv /\ BudgetInv => SilentRetryIsSafe
  <2> SUFFICES ASSUME TypeInv, BudgetInv, NEW k \in Keys, job[k].kind = "cloudflare",
                      job[k].state \in {"pending", "retry", "failed"}
               PROVE  copies[k] <= acks[k] + recanted[k]
    BY DEF SilentRetryIsSafe
  <2>1. /\ Cardinality(Spending(k)) \in Nat
        /\ copies[k] \in Nat /\ acks[k] \in Nat /\ recanted[k] \in Nat
    BY FS_CardinalityType DEF BudgetInv, KeyBudget, TypeInv, TypeOK
  <2>2. copies[k] + Cardinality(Spending(k)) <= acks[k] + recanted[k] + 0
    BY DEF BudgetInv, KeyBudget, Metered, Allow
  <2> QED BY <2>1, <2>2
<1> QED BY <1>1, <1>2, TypeInvariant, PTL

\* No copy leaves that the sender has not agreed to.
LEMMA WithinGrants ==
  ASSUME IInv, AgentInv, "resend" \in Kinds => ReceiptInv, "cloudflare" \in Kinds => BudgetInv
  PROVE  NoUnacknowledgedDuplicate
<1> SUFFICES ASSUME NEW k \in Keys
             PROVE  copies[k] <= 1 + acks[k]
                                   + (IF job[k].kind = "cloudflare" THEN recanted[k] ELSE 0)
  BY DEF NoUnacknowledgedDuplicate
<1>1. /\ copies[k] \in Nat /\ acks[k] \in Nat /\ recanted[k] \in Nat
      /\ job[k].kind \in Kinds \cup {None}
      /\ Kinds \subseteq {"resend", "cloudflare"} /\ KeyInv(k)
  BY OutboxAssumption DEF IInv, SentInv, TypeInv, TypeOK, JobRow
<1>2. CASE ~Exists(k)
  BY <1>1, <1>2 DEF KeyInv
<1>3. CASE Exists(k) /\ job[k].kind = "resend"
  <2>1. "resend" \in Kinds
    BY <1>1, <1>3 DEF AgentInv
  <2> QED BY <1>1, <1>3, <2>1 DEF ReceiptInv, KeyReceipt
<1>4. CASE Exists(k) /\ job[k].kind # "resend"
  <2>1. "cloudflare" \in Kinds
    BY <1>1, <1>4 DEF AgentInv
  <2>2. Cardinality(Spending(k)) \in Nat /\ Allow(job[k]) \in {0, 1}
    BY <2>1, FS_CardinalityType DEF BudgetInv, KeyBudget, Allow
  <2>3. copies[k] + Cardinality(Spending(k)) <= acks[k] + recanted[k] + Allow(job[k])
    BY <1>4, <2>1 DEF BudgetInv, KeyBudget, Metered
  <2>4. job[k].kind = "cloudflare"
    BY <1>1, <1>4 DEF AgentInv
  <2> QED BY <1>1, <2>2, <2>3, <2>4
<1> QED BY <1>2, <1>3, <1>4

\* At most one copy leaves for the first attempt and one more for every acknowledgement,
\* whatever crashes, zombies, retries and the cron do; on Cloudflare one more for every begun
\* send that was reported as not saved.
THEOREM NoDuplicate == DuplicateTiming => (Spec => []NoUnacknowledgedDuplicate)
<1> SUFFICES ASSUME DuplicateTiming PROVE Spec => []NoUnacknowledgedDuplicate
  OBVIOUS
<1>1. "resend" \in Kinds => (Spec => []ReceiptInv)
  BY ReceiptInvariant DEF DuplicateTiming
<1>2. "cloudflare" \in Kinds => (Spec => []BudgetInv)
  BY BudgetInvariant DEF DuplicateTiming
<1>3. IInv /\ AgentInv /\ ("resend" \in Kinds => ReceiptInv) /\ ("cloudflare" \in Kinds => BudgetInv)
        => NoUnacknowledgedDuplicate
  BY WithinGrants
<1>4. Spec => []("resend" \in Kinds => ReceiptInv)
  <2>1. CASE "resend" \in Kinds
    <3>1. Spec => []ReceiptInv
      BY <1>1, <2>1
    <3>2. ReceiptInv => ("resend" \in Kinds => ReceiptInv)
      OBVIOUS
    <3> QED BY <3>1, <3>2, PTL
  <2>2. CASE "resend" \notin Kinds
    <3>1. "resend" \in Kinds => ReceiptInv
      BY <2>2
    <3> QED BY <3>1, PTL
  <2> QED BY <2>1, <2>2
<1>5. Spec => []("cloudflare" \in Kinds => BudgetInv)
  <2>1. CASE "cloudflare" \in Kinds
    <3>1. Spec => []BudgetInv
      BY <1>2, <2>1
    <3>2. BudgetInv => ("cloudflare" \in Kinds => BudgetInv)
      OBVIOUS
    <3> QED BY <3>1, <3>2, PTL
  <2>2. CASE "cloudflare" \notin Kinds
    <3>1. "cloudflare" \in Kinds => BudgetInv
      BY <2>2
    <3> QED BY <3>1, PTL
  <2> QED BY <2>1, <2>2
<1> QED BY <1>3, <1>4, <1>5, SentInvariant, AgentInvariant, PTL

\* Only the recording of an answer closes a message.
LEMMA ClosedByRecord ==
  ASSUME IInv, NEW p \in Procs, Step(p) \/ SaveFails(p) \/ Abort(p), ~Record(p)
  PROVE  \A k \in Keys : job'[k].state = "accepted" => job[k].state = "accepted"
<1> TypeInv
  BY DEF IInv
<1>1. CASE Reserve(p)
  BY <1>1, ReserveWrites DEF OthersSame, Same
<1>2. CASE Claim(p)
  BY <1>2, ClaimWrites DEF OthersSame, Same
<1>3. CASE Link(p) \/ Commit(p) \/ Catch(p) \/ Recant(p) \/ NotePayloadErased(p)
  BY <1>3, SaveWrites DEF OthersSame, Same
<1>4. CASE LeaseJob(p) \/ Begin(p)
  BY <1>4, AttemptWrites DEF OthersSame, Same
<1>5. CASE SettleJob(p)
  <2>1. /\ SetState(Cur(p), Row(p), inv[p].verdict) /\ Cur(p) \in Keys
        /\ inv[p].verdict # "accepted"
    BY <1>5, Standing
       DEF SettleJob, TypeInv, Located, KeySteps, DeliverSteps, Verdicts
  <2> QED BY <2>1, SetStateWrites DEF Same
<1>6. CASE Rearm(p)
  BY <1>6, RearmWrites DEF OthersSame, Same
<1>7. CASE Expire(p)
  <2>1. PICK k \in Oldest(inv[p].todo) : SetState(k, inv[p].seen[k], SweepState(inv[p].seen[k]))
    BY <1>7 DEF Expire
  <2>2. k \in Keys /\ SweepState(inv[p].seen[k]) # "accepted"
    BY <2>1 DEF Oldest, SweepState, TypeInv, TypeOK, Invocation
  <2> QED BY <2>1, <2>2, SetStateWrites DEF Same
<1>8. CASE UNCHANGED job
  BY <1>8
<1> QED
  BY <1>1, <1>2, <1>3, <1>4, <1>5, <1>6, <1>7, <1>8
     DEF Step, Saving, Select, Put, FindRow, InsertRow, StoreFiles, SaveFails, Delivering, Read,
       Reread, Fetch, Send, RepairSent, ErasePayload, Retrying, Recheck, Flushing, Sweep,
       SelectDue, NextDue, PurgeEvents, Abort

\* What the sender was promised, read off the outbox's state.
Granted == [k \in Keys |-> 1 + acks[k] + recanted[k]]
Closed == [k \in Keys |-> job[k].state = "accepted"]
Promised == Promise!Next \/ UNCHANGED <<Granted, copies, Closed>>

\* A step that makes no copy, grants none and closes nothing is none of the promise's.
LEMMA PromiseRests ==
  ASSUME UNCHANGED <<copies, acks, recanted>>, StaysClosed,
         \A k \in Keys : job'[k].state = "accepted" => job[k].state = "accepted"
  PROVE  Promised
<1>1. Granted' = Granted
  BY DEF Granted
<1>2. \A k \in Keys : (job'[k].state = "accepted") = (job[k].state = "accepted")
  BY DEF StaysClosed
<1>3. Closed' = Closed
  BY <1>2 DEF Closed
<1> QED BY <1>1, <1>3 DEF Promised

\* A copy that leaves was granted.
LEMMA PromiseSend ==
  ASSUME TypeInv, NoUnacknowledgedDuplicate', NEW p \in Procs, Send(p)
  PROVE  Promised
<1>1. UNCHANGED <<job, acks, recanted>> /\ (UNCHANGED provider \/ Accept(p))
  BY DEF Send
<1>2. CASE UNCHANGED copies
  BY <1>1, <1>2, PromiseRests DEF StaysClosed
<1>3. CASE copies' = [copies EXCEPT ![Cur(p)] = @ + 1]
  <2>1. Cur(p) \in Keys
    BY AtHand DEF Send, At, KeySteps, DeliverSteps
  <2>2. /\ copies'[Cur(p)] = copies[Cur(p)] + 1 /\ copies[Cur(p)] \in Nat
        /\ acks[Cur(p)] \in Nat /\ recanted[Cur(p)] \in Nat
    BY <1>3, <2>1 DEF TypeInv, TypeOK
  <2>3. copies[Cur(p)] + 1 <= 1 + acks[Cur(p)] + recanted[Cur(p)]
    BY <1>1, <2>1, <2>2 DEF NoUnacknowledgedDuplicate
  <2>4. copies[Cur(p)] < Granted[Cur(p)]
    BY <2>1, <2>2, <2>3 DEF Granted
  <2>5. UNCHANGED <<Granted, Closed>>
    BY <1>1 DEF Granted, Closed
  <2>6. Promise!Transmit(Cur(p))
    BY <1>3, <2>4, <2>5 DEF Promise!Transmit, Granted, Closed
  <2> QED BY <2>1, <2>6 DEF Promised, Promise!Next
<1> QED BY <1>1, <1>2, <1>3 DEF Accept, provider

\* Only a message of which the provider has a copy is shown as accepted.
LEMMA PromiseRecord ==
  ASSUME TypeInv, TypeInv', JobsKnown', NEW p \in Procs, Record(p)
  PROVE  Promised
<1>1. /\ Cur(p) \in Keys /\ OthersSame(p) /\ job'[Cur(p)].state = "accepted"
      /\ UNCHANGED <<copies, acks, recanted>>
  BY AttemptWrites DEF Record, provider
<1>2. copies[Cur(p)] > 0
  <2>1. job'[Cur(p)].id \in 1..copies[Cur(p)] /\ copies[Cur(p)] \in Nat
    BY <1>1 DEF JobsKnown, Known, TypeInv, TypeOK
  <2> QED BY <2>1
<1>3. Closed' = [Closed EXCEPT ![Cur(p)] = TRUE]
  BY <1>1 DEF Closed, OthersSame, Same
<1>4. Granted' = Granted
  BY <1>1 DEF Granted
<1>5. PICK k \in Keys : k = Cur(p)
  BY <1>1
<1>6. Promise!Close(k)
  BY <1>1, <1>2, <1>3, <1>4, <1>5 DEF Promise!Close, Granted, Closed
<1> QED BY <1>5, <1>6 DEF Promised, Promise!Next

\* Re-arming a risky job is the sender's acknowledgement, of a message that is not closed.
LEMMA PromiseRearm ==
  ASSUME TypeInv, AgentInv, StaysClosed, NEW p \in Procs, Rearm(p)
  PROVE  Promised
<1>1. /\ Cur(p) \in Keys /\ OthersSame(p) /\ UNCHANGED <<copies, recanted>>
      /\ Row(p).state \in Verdicts
  BY RearmWrites DEF Rearm, provider, At, AgentInv, ProcAgent, Row, Cur
<1>2. \A k \in Keys : job'[k].state = "accepted" => job[k].state = "accepted"
  BY <1>1, RearmWrites DEF OthersSame, Same
<1>3. CASE UNCHANGED acks
  BY <1>1, <1>2, <1>3, PromiseRests
<1>4. CASE job[Cur(p)].state = Row(p).state /\ acks' = [acks EXCEPT ![Cur(p)] = @ + 1]
  <2>1. ~Closed[Cur(p)]
    BY <1>1, <1>4 DEF Closed, Verdicts
  <2>2. \A k \in Keys : (job'[k].state = "accepted") = (job[k].state = "accepted")
    BY <1>1, <1>2 DEF StaysClosed
  <2>3. Closed' = Closed
    BY <2>2 DEF Closed
  <2>4. PICK k \in Keys : k = Cur(p)
    BY <1>1
  <2>5. \A i \in Keys : acks[i] \in Nat /\ acks'[i] = IF i = k THEN acks[i] + 1 ELSE acks[i]
    BY <1>4, <2>4 DEF TypeInv, TypeOK
  <2>6. \A i \in Keys : 1 + acks'[i] + recanted[i]
                         = IF i = k THEN (1 + acks[i] + recanted[i]) + 1
                           ELSE 1 + acks[i] + recanted[i]
    BY <2>5 DEF TypeInv, TypeOK
  <2>7. Granted' = [Granted EXCEPT ![k] = @ + 1]
    BY <1>1, <2>6 DEF Granted
  <2>8. Promise!Acknowledge(k)
    BY <1>1, <2>1, <2>3, <2>4, <2>7 DEF Promise!Acknowledge, Granted, Closed
  <2> QED BY <2>4, <2>8 DEF Promised, Promise!Next
<1>5. \/ UNCHANGED acks
      \/ job[Cur(p)].state = Row(p).state /\ acks' = [acks EXCEPT ![Cur(p)] = @ + 1]
  BY RearmWrites
<1> QED BY <1>3, <1>4, <1>5

\* Reporting a begun send as not saved disclaims it: the message may be open again, and the
\* sender may send one copy more.
LEMMA PromiseRecant ==
  ASSUME TypeInv, StaysClosed, NEW p \in Procs, Recant(p)
  PROVE  Promised
<1>1. /\ Cur(p) \in Keys /\ OthersSame(p) /\ UNCHANGED <<copies, acks>>
      /\ job'[Cur(p)].state = "failed"
  BY SaveWrites DEF Recant, provider
<1>2. CASE UNCHANGED recanted
  <2>1. \A k \in Keys : job'[k].state = "accepted" => job[k].state = "accepted"
    BY <1>1 DEF OthersSame, Same
  <2> QED BY <1>1, <1>2, <2>1, PromiseRests
<1>3. CASE recanted' = [recanted EXCEPT ![Cur(p)] = @ + 1]
  <2>1. PICK k \in Keys : k = Cur(p)
    BY <1>1
  <2>2. Closed' = [Closed EXCEPT ![k] = FALSE]
    BY <1>1, <2>1 DEF Closed, OthersSame, Same
  <2>3. \A i \in Keys : /\ recanted[i] \in Nat /\ acks[i] \in Nat
                         /\ recanted'[i] = IF i = k THEN recanted[i] + 1 ELSE recanted[i]
    BY <1>3, <2>1 DEF TypeInv, TypeOK
  <2>4. \A i \in Keys : 1 + acks[i] + recanted'[i]
                         = IF i = k THEN (1 + acks[i] + recanted[i]) + 1
                           ELSE 1 + acks[i] + recanted[i]
    BY <2>3
  <2>5. Granted' = [Granted EXCEPT ![k] = @ + 1]
    BY <1>1, <2>4 DEF Granted
  <2>6. Promise!Disclaim(k)
    BY <1>1, <2>2, <2>5 DEF Promise!Disclaim, Granted, Closed
  <2> QED BY <2>6 DEF Promised, Promise!Next
<1> QED BY <1>2, <1>3 DEF Recant

\* Every step of the outbox is a step of the promise, or none.
LEMMA PromiseStep ==
  ASSUME IInv, IInv', AgentInv, JobsKnown', StaysClosed, NoUnacknowledgedDuplicate', Next
  PROVE  Promised
<1> TypeInv /\ TypeInv'
  BY DEF IInv
<1>1. ASSUME NEW p \in Procs, Step(p) \/ SaveFails(p) \/ Abort(p),
             ~Record(p), ~Send(p), ~Rearm(p), ~Recant(p)
      PROVE  Promised
  <2>1. UNCHANGED <<copies, acks, recanted>>
    BY <1>1
       DEF Step, Saving, Reserve, Select, Claim, Put, FindRow, InsertRow, Link, StoreFiles, Commit,
         Catch, SaveFails, Delivering, Read, LeaseJob, Reread, Fetch, Begin, SettleJob, RepairSent,
         ErasePayload, NotePayloadErased, Retrying, Recheck, Flushing, Sweep, Expire, SelectDue,
         NextDue, PurgeEvents, Abort, provider
  <2> QED BY <1>1, <2>1, ClosedByRecord, PromiseRests
<1>2. ASSUME NEW p \in Procs, Record(p) \/ Send(p) \/ Rearm(p) \/ Recant(p) PROVE Promised
  BY <1>2, PromiseRecord, PromiseSend, PromiseRearm, PromiseRecant
<1>3. ASSUME NEW p \in Procs,
             \/ \E k \in Keys, c \in Contents : StartSend(p, k, c)
             \/ \E k \in Keys, confirm \in BOOLEAN : StartRetry(p, k, confirm)
             \/ StartFlush(p)
      PROVE  Promised
  BY <1>3, Begins, PromiseRests DEF provider
<1>4. CASE Redeploy \/ \E k \in Keys, n \in 1..(1 + MaxAcks), s \in Events : Webhook(k, n, s)
  <2>1. UNCHANGED <<job, copies, acks, recanted>>
    BY <1>4 DEF Redeploy, Webhook, provider
  <2> QED BY <2>1, PromiseRests
<1>5. CASE Tick
  <2>1. UNCHANGED <<copies, acks, recanted>>
    BY <1>5 DEF Tick
  <2> QED BY <1>5, <2>1, TickWrites, PromiseRests
<1> QED BY <1>1, <1>2, <1>3, <1>4, <1>5 DEF Next

\* The outbox keeps its promise to the sender: SendPromise's initial states are reached by the
\* refinement mapping, and every step transmits a granted copy, acknowledges a risk, closes a
\* message of which a copy left, disclaims it, or changes nothing of the promise; in particular
\* no accepted job is reopened but by a report that the message was not saved.
THEOREM PromiseIsKept == PromiseTiming => (Spec => PromiseKept)
<1> SUFFICES ASSUME PromiseTiming PROVE Spec => PromiseKept
  OBVIOUS
<1> SavesInTime /\ DuplicateTiming
  BY DEF PromiseTiming
<1>1. Init => Promise!Init
  <2> SUFFICES ASSUME Init PROVE Promise!Init
    OBVIOUS
  <2>1. \A k \in Keys : 1 + acks[k] + recanted[k] = 1 /\ job[k].state # "accepted"
    BY DEF Init, Blank, NoJob
  <2>2. copies = [k \in Keys |-> 0]
    BY DEF Init, provider
  <2>3. [k \in Keys |-> 1 + acks[k] + recanted[k]] = [k \in Keys |-> 1]
    BY <2>1
  <2>4. [k \in Keys |-> job[k].state = "accepted"] = [k \in Keys |-> FALSE]
    BY <2>1
  <2> QED BY <2>2, <2>3, <2>4 DEF Promise!Init
<1>2. /\ IInv /\ AgentInv /\ SaveInv /\ ReportInv /\ NoUnacknowledgedDuplicate
      /\ IInv' /\ ReportInv' /\ NoUnacknowledgedDuplicate'
      /\ [Next]_vars
      => [Promise!Next]_<<[k \in Keys |-> 1 + acks[k] + recanted[k]], copies,
                          [k \in Keys |-> job[k].state = "accepted"]>>
  <2>1. CASE UNCHANGED vars
    BY <2>1 DEF vars, provider
  <2>2. CASE Next
    <3>1. ASSUME IInv, AgentInv, SaveInv PROVE StaysClosed
      BY <2>2, <3>1, SaveStep
    <3>2. ASSUME IInv, IInv', AgentInv, SaveInv, ReportInv', NoUnacknowledgedDuplicate'
          PROVE  Promised
      BY <2>2, <3>1, <3>2, PromiseStep DEF ReportInv
    <3> QED BY <3>2 DEF Promised, Granted, Closed
  <2> QED BY <2>1, <2>2
<1>3. Spec => []SaveInv
  BY SaveInvariant
<1>4. Spec => []NoUnacknowledgedDuplicate
  BY NoDuplicate
<1> QED
  BY <1>1, <1>2, <1>3, <1>4, SentInvariant, AgentInvariant, ReportInvariant, PTL
     DEF Spec, PromiseKept, Promise!Spec
=============================================================================
