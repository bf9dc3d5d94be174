---------------------------- MODULE OutboxProofs ----------------------------
(***************************************************************************)
(* Theorems about the durable outbox, for every value of its constants.    *)
(***************************************************************************)
EXTENDS Outbox, FiniteSetTheorems, TLAPS

\* Steps at which an invocation works on one key.
KeySteps == EnqueueSteps \cup DeliverSteps \cup {"recant", "recheck", "rearm"}
Verdicts == {"failed", "uncertain", "retry"}

\* What TypeOK rests on: an invocation that works on a key has one, and setState is
\* called with the states of a job that needs attention only.
Located(i) ==
  /\ i.pc \in KeySteps => i.cur \in Keys
  /\ i.pc \in {"refuse", "settle"} => i.verdict \in Verdicts

TypeInv == TypeOK /\ \A p \in Procs : Located(inv[p])

\* Before anything has run, every row, object and invocation is well typed.
THEOREM InitType == Init => TypeInv
BY OutboxAssumption
   DEF Init, TypeInv, TypeOK, Located, Idle, Invocation, Blank, NoJob, JobRow, NoEmail,
  EmailRow, States, Steps, EnqueueSteps, DeliverSteps, SavingSteps, KeySteps, Past

InvTyped == inv \in [Procs -> Invocation] /\ \A q \in Procs : Located(inv[q])

\* One invocation gets new locals.
LEMMA Moved ==
  ASSUME TypeInv, NEW p \in Procs, NEW i \in Invocation, Located(i),
         inv' = [inv EXCEPT ![p] = i]
  PROVE  InvTyped'
BY DEF TypeInv, TypeOK, Located, InvTyped

\* Moving an invocation on and setting its flag (reserved, expiredKey) keeps the locals typed.
LEMMA Flagged ==
  ASSUME NEW i \in Invocation, NEW pc \in Steps, NEW b \in BOOLEAN
  PROVE  [i EXCEPT !.pc = pc, !.flag = b] \in Invocation
BY DEF Invocation

\* What an invocation at a step of its own key has at hand.
LEMMA AtHand ==
  ASSUME TypeInv, NEW p \in Procs, inv[p].pc \in KeySteps
  PROVE  /\ Cur(p) \in Keys /\ inv[p] \in Invocation
         /\ job[Cur(p)] \in JobRow /\ email[Cur(p)] \in EmailRow /\ Row(p) \in JobRow
BY DEF TypeInv, TypeOK, Located, Cur, Row, Invocation

\* Moving to a step keeps the locals typed; a step that works on a job needs a current key.
LEMMA GotoTyped ==
  ASSUME TypeInv, NEW p \in Procs, NEW step \in Steps \ {"refuse", "settle"},
         inv[p].pc \in KeySteps \/ step \notin KeySteps, Goto(p, step)
  PROVE  InvTyped'
<1> DEFINE i == [inv[p] EXCEPT !.pc = step]
<1>1. inv[p] \in Invocation /\ Located(inv[p])
  BY DEF TypeInv, TypeOK
<1>2. i \in Invocation /\ Located(i)
  BY <1>1 DEF Invocation, Located
<1>3. inv' = [inv EXCEPT ![p] = i]
  BY DEF Goto
<1> HIDE DEF i
<1> QED BY <1>2, <1>3, Moved

\* The locals of an invocation that has not started are well typed.
LEMMA IdleTyped == Idle \in Invocation /\ Located(Idle)
BY OutboxAssumption DEF Located, Idle, Invocation, Blank, NoJob, JobRow, States, Steps,
  EnqueueSteps, DeliverSteps, SavingSteps, KeySteps, Past

\* An invocation that ends leaves well-typed locals behind.
LEMMA DoneTyped ==
  ASSUME TypeInv, NEW p \in Procs, Done(p)
  PROVE  InvTyped'
BY IdleTyped, Moved DEF Done

\* Calling deliverOutboxJob with a job's id keeps the locals typed.
LEMMA DeliverTyped ==
  ASSUME TypeInv, NEW p \in Procs, inv[p].pc \in KeySteps, Deliver(p)
  PROVE  InvTyped'
<1> DEFINE i == [Idle EXCEPT !.pc = "read", !.cur = Cur(p), !.age = inv[p].age,
                             !.agent = inv[p].agent]
<1>1. i \in Invocation
  BY IdleTyped, AtHand DEF Invocation, Steps, DeliverSteps
<1>2. Located(i)
  BY IdleTyped, AtHand DEF Located, Invocation
<1>3. inv' = [inv EXCEPT ![p] = i]
  BY DEF Deliver
<1> HIDE DEF i
<1> QED BY <1>1, <1>2, <1>3, Moved

\* Returning from deliverOutboxJob, to flushOutbox's loop or to the request, keeps them typed.
LEMMA LeaveTyped ==
  ASSUME TypeInv, NEW p \in Procs, Leave(p)
  PROVE  InvTyped'
<1> DEFINE i == [Idle EXCEPT !.pc = "next", !.flush = TRUE, !.age = inv[p].age,
                             !.agent = inv[p].agent, !.todo = inv[p].todo]
<1>1. inv[p] \in Invocation
  BY DEF TypeInv, TypeOK
<1>2. i \in Invocation
  BY IdleTyped, <1>1 DEF Invocation, Steps
<1>3. Located(i)
  BY IdleTyped, <1>1 DEF Located, Invocation, KeySteps, EnqueueSteps, SavingSteps, DeliverSteps
<1>4. inv' = [inv EXCEPT ![p] = i] \/ Done(p)
  BY DEF Leave
<1> HIDE DEF i
<1> QED BY <1>2, <1>3, <1>4, Moved, DoneTyped

\* An invocation about to call setState carries a job row and one of setState's states.
LEMMA ToStateTyped ==
  ASSUME TypeInv, NEW p \in Procs, inv[p].pc \in KeySteps, NEW step \in {"refuse", "settle"},
         NEW r \in JobRow, NEW state \in Verdicts, ToState(p, step, r, state)
  PROVE  InvTyped'
<1> DEFINE s == [inv[p].seen EXCEPT ![Cur(p)] = r]
           i == [inv[p] EXCEPT !.pc = step, !.want = None, !.verdict = state, !.seen = s]
<1>1. s \in [Keys -> JobRow]
  BY AtHand DEF Cur, Invocation
<1>2. i \in Invocation
  <2> HIDE DEF s
  <2>1. step \in Steps /\ state \in States
    BY DEF Steps, DeliverSteps, Verdicts, States
  <2> QED BY <1>1, <2>1, AtHand DEF Invocation
<1>3. Located(i)
  <2> HIDE DEF s
  <2>1. i.cur = Cur(p) /\ i.verdict = state
    BY AtHand DEF Cur, Invocation
  <2> HIDE DEF i
  <2> QED BY <2>1, AtHand DEF Located
<1>4. inv' = [inv EXCEPT ![p] = i]
  BY DEF ToState
<1> HIDE DEF i
<1> QED BY <1>2, <1>3, <1>4, Moved

\* setState writes well-typed job and Sent rows whatever row it was called with.
LEMMA SetStateTyped ==
  ASSUME TypeInv, NEW k \in Keys, NEW r \in JobRow, NEW state \in Verdicts,
         SetState(k, r, state)
  PROVE  job' \in [Keys -> JobRow] /\ email' \in [Keys -> EmailRow]
<1>1. job[k] \in JobRow /\ email[k] \in EmailRow
  BY DEF TypeInv, TypeOK
<1>2. Delay(r.attempts) \in Nat /\ Past \in Int
  BY OutboxAssumption DEF Delay, Past
<1>3. [job[k] EXCEPT !.state = state, !.lease = Past, !.wait = Delay(r.attempts)] \in JobRow
  BY <1>1, <1>2 DEF JobRow, Verdicts, States
<1>4. [email[k] EXCEPT !.status = IF state = "retry" THEN "pending" ELSE state] \in EmailRow
  BY <1>1 DEF EmailRow, Verdicts, Unsettled
<1> QED
  BY <1>3, <1>4 DEF SetState, TypeInv, TypeOK

\* The catch block of enqueueOutbound writes well-typed job and Sent rows.
LEMMA NotSavedTyped ==
  ASSUME TypeInv, NEW k \in Keys, WriteNotSaved(k)
  PROVE  job' \in [Keys -> JobRow] /\ email' \in [Keys -> EmailRow]
<1>1. job[k] \in JobRow /\ Past \in Int
  BY OutboxAssumption DEF TypeInv, TypeOK, Past
<1>2. [job[k] EXCEPT !.state = "failed", !.lease = Past] \in JobRow
  BY <1>1 DEF JobRow, States
<1>3. email' \in [Keys -> EmailRow]
  BY DEF WriteNotSaved, EmailRow, Unsettled, TypeInv, TypeOK
<1> QED
  BY <1>2, <1>3 DEF WriteNotSaved, TypeInv, TypeOK

\* The reservation of enqueueOutbound inserts a well-typed job; created_at ranks are numbers.
LEMMA ReserveType ==
  ASSUME TypeInv, NEW p \in Procs, Reserve(p)
  PROVE  TypeInv'
<1>1. Cur(p) \in Keys /\ inv[p] \in Invocation
  BY DEF TypeInv, TypeOK, Located, Reserve, At, Cur, KeySteps, EnqueueSteps
<1>2. NewJob(p) \in JobRow
  <2>1. Cardinality({k \in Keys : job[k].state # "none"}) \in Nat
    BY OutboxAssumption, FS_Subset, FS_CardinalityType
  <2>2. NoJob \in JobRow
    BY OutboxAssumption DEF NoJob, JobRow, States, Past
  <2>3. /\ inv[p].want \in Contents \cup {None} /\ inv[p].agent \in Kinds \cup {None}
        /\ Lease - inv[p].age \in Int
    BY <1>1, OutboxAssumption DEF Invocation
  <2> QED
    BY <2>1, <2>2, <2>3 DEF NewJob, JobRow, States
<1>3. job' \in [Keys -> JobRow]
  BY <1>1, <1>2 DEF Reserve, TypeInv, TypeOK
<1>4. InvTyped'
  <2> DEFINE b == job[Cur(p)].state = "none"
             i == [inv[p] EXCEPT !.pc = "select", !.flag = b]
  <2>0. b \in BOOLEAN
    OBVIOUS
  <2>1. i \in Invocation
    <3> HIDE DEF b
    <3> QED BY <1>1, <2>0, Flagged DEF Steps, EnqueueSteps
  <2>2. Located(i)
    BY <1>1, <2>1 DEF Located, Cur, Invocation
  <2>3. inv' = [inv EXCEPT ![p] = i]
    BY DEF TypeInv, TypeOK, Reserve
  <2> QED
    <3> HIDE DEF i
    <3> QED BY <2>1, <2>2, <2>3, Moved
<1> QED
  BY <1>3, <1>4 DEF Reserve, TypeInv, TypeOK, world, provider, InvTyped

\* The counters and limits the steps compare are numbers, NULL is not one of them.
LEMMA Numbers ==
  /\ Lease \in Nat /\ Window \in Nat /\ KeyTTL \in Nat /\ Retention \in Nat
  /\ Past \in Int
BY OutboxAssumption DEF Past

\* An invocation takes the row it has just read along.
LEMMA FinalTyped ==
  ASSUME TypeInv, NEW p \in Procs, inv[p].pc \in KeySteps,
         NEW step \in {"final", "fetch"}, NEW r \in JobRow,
         inv' = [inv EXCEPT ![p].pc = step, ![p].seen[Cur(p)] = r]
  PROVE  InvTyped'
<1> DEFINE s == [inv[p].seen EXCEPT ![Cur(p)] = r]
           i == [inv[p] EXCEPT !.pc = step, !.seen = s]
<1>1. s \in [Keys -> JobRow]
  BY AtHand DEF Invocation
<1>2. i \in Invocation /\ Located(i)
  <2> HIDE DEF s
  <2>1. step \in Steps
    BY DEF Steps, DeliverSteps
  <2> QED BY <1>1, <2>1, AtHand DEF Invocation, Located, Cur
<1>3. inv' = [inv EXCEPT ![p] = i]
  BY AtHand DEF TypeInv, TypeOK, Invocation
<1> HIDE DEF i
<1> QED BY <1>2, <1>3, Moved

\* The payload read back from R2 is a content or a missing object.
LEMMA FetchedTyped ==
  ASSUME TypeInv, NEW p \in Procs, inv[p].pc \in KeySteps, NEW c \in Contents \cup {None},
         inv' = [inv EXCEPT ![p].pc = "begin", ![p].want = c]
  PROVE  InvTyped'
<1> DEFINE i == [inv[p] EXCEPT !.pc = "begin", !.want = c]
<1>1. i \in Invocation /\ Located(i)
  BY ZenonT(40), AtHand DEF Invocation, Located, Cur, Steps, DeliverSteps
<1>2. inv' = [inv EXCEPT ![p] = i]
  BY AtHand DEF TypeInv, TypeOK, Invocation
<1> HIDE DEF i
<1> QED BY <1>1, <1>2, Moved

\* What the provider answered is recorded as a provider id, or nothing is.
LEMMA RecordTyped ==
  ASSUME TypeInv, NEW p \in Procs, inv[p].pc \in KeySteps, copies' \in [Keys -> Nat],
         inv' = [inv EXCEPT ![p].pc = "record", ![p].want = None,
                            ![p].seen[Cur(p)] = [Row(p) EXCEPT !.id = copies'[Cur(p)],
                                                               !.state = "accepted"]]
  PROVE  InvTyped'
<1> DEFINE r == [Row(p) EXCEPT !.id = copies'[Cur(p)], !.state = "accepted"]
           s == [inv[p].seen EXCEPT ![Cur(p)] = r]
           i == [inv[p] EXCEPT !.pc = "record", !.want = None, !.seen = s]
<1>1. r \in JobRow
  <2>1. Row(p) \in JobRow /\ copies'[Cur(p)] \in Nat
    BY AtHand
  <2> QED BY <2>1 DEF JobRow, States
<1>2. s \in [Keys -> JobRow]
  <2> HIDE DEF r
  <2> QED BY <1>1, AtHand DEF Invocation
<1>3. i \in Invocation /\ Located(i)
  <2> HIDE DEF s
  <2> QED BY ZenonT(40), <1>2, AtHand DEF Invocation, Located, Cur, Steps, DeliverSteps
<1>4. inv' = [inv EXCEPT ![p] = i]
  BY AtHand DEF TypeInv, TypeOK, Invocation
<1> HIDE DEF i
<1> QED BY <1>3, <1>4, Moved

\* A manual retry re-arms the row it read, with its attempts and clock reset.
LEMMA RearmTyped ==
  ASSUME TypeInv, NEW p \in Procs, inv[p].pc \in KeySteps,
         inv' = [inv EXCEPT ![p].pc = "rearm", ![p].seen[Cur(p)] = job[Cur(p)],
                            ![p].flag = Expired(job[Cur(p)])]
  PROVE  InvTyped'
<1> DEFINE b == Expired(job[Cur(p)])
           s == [inv[p].seen EXCEPT ![Cur(p)] = job[Cur(p)]]
           i == [inv[p] EXCEPT !.pc = "rearm", !.seen = s, !.flag = b]
<1>1. b \in BOOLEAN
  BY DEF Expired
<1>2. s \in [Keys -> JobRow]
  BY AtHand DEF Invocation
<1>3. i \in Invocation /\ Located(i)
  <2> HIDE DEF s, b
  <2> QED BY ZenonT(40), <1>1, <1>2, AtHand DEF Invocation, Located, Cur, Steps
<1>4. inv' = [inv EXCEPT ![p] = i]
  BY AtHand DEF TypeInv, TypeOK, Invocation
<1> HIDE DEF i
<1> QED BY <1>3, <1>4, Moved


\* Every step of every invocation and of the environment keeps the types.
THEOREM TypeStep == TypeInv /\ Next => TypeInv'
<1> SUFFICES ASSUME TypeInv, Next PROVE TypeInv'
  OBVIOUS
<1>1. ASSUME NEW p \in Procs, Reserve(p) PROVE TypeInv'
  BY <1>1, ReserveType
<1>2. ASSUME NEW p \in Procs, Select(p) PROVE TypeInv'
  <2>1. inv[p].pc \in KeySteps
    BY <1>2 DEF Select, At, KeySteps, EnqueueSteps, SavingSteps, DeliverSteps
  <2>2. InvTyped'
    BY <1>2, <2>1, GotoTyped, DeliverTyped, DoneTyped
       DEF Select, Steps, KeySteps, EnqueueSteps, SavingSteps, DeliverSteps, Enqueued
  <2> QED
    BY <1>2, <2>2 DEF Select, TypeInv, TypeOK, InvTyped, world, provider
<1>3. ASSUME NEW p \in Procs, Claim(p) PROVE TypeInv'
  <2>1. inv[p].pc \in KeySteps
    BY <1>3 DEF Claim, At, KeySteps, EnqueueSteps, SavingSteps, DeliverSteps
  <2>2. InvTyped'
    BY <1>3, <2>1, GotoTyped, DoneTyped
       DEF Claim, Steps, KeySteps, EnqueueSteps, SavingSteps, DeliverSteps
  <2>3. job' \in [Keys -> JobRow]
    <3>1. job[Cur(p)] \in JobRow /\ Lease - inv[p].age \in Int
      BY <2>1, AtHand, Numbers DEF Invocation
    <3>2. [job[Cur(p)] EXCEPT !.state = "preparing", !.lease = Lease - inv[p].age] \in JobRow
      BY <3>1 DEF JobRow, States
    <3> QED
      BY <1>3, <2>1, AtHand, <3>2 DEF Claim, TypeInv, TypeOK
  <2> QED
    BY <1>3, <2>2, <2>3 DEF Claim, TypeInv, TypeOK, InvTyped, world, provider
<1>4. ASSUME NEW p \in Procs, Put(p) PROVE TypeInv'
  <2>1. inv[p].pc \in KeySteps
    BY <1>4 DEF Put, At, KeySteps, EnqueueSteps, SavingSteps, DeliverSteps
  <2>2. InvTyped'
    BY <1>4, <2>1, GotoTyped DEF Put, Steps, KeySteps, EnqueueSteps, SavingSteps, DeliverSteps
  <2>3. payload' \in [Keys -> Contents \cup {None}]
    BY <1>4, <2>1, AtHand DEF Put, Invocation, TypeInv, TypeOK
  <2> QED
    BY <1>4, <2>2, <2>3 DEF Put, TypeInv, TypeOK, InvTyped, world, provider
<1>5. ASSUME NEW p \in Procs, FindRow(p) PROVE TypeInv'
  <2>1. inv[p].pc \in KeySteps
    BY <1>5 DEF FindRow, At, KeySteps, EnqueueSteps, SavingSteps, DeliverSteps
  <2>2. InvTyped'
    BY <1>5, <2>1, GotoTyped DEF FindRow, Steps, KeySteps, EnqueueSteps, SavingSteps, DeliverSteps
  <2> QED
    BY <1>5, <2>2 DEF FindRow, TypeInv, TypeOK, InvTyped, world, provider
<1>6. ASSUME NEW p \in Procs, InsertRow(p) PROVE TypeInv'
  <2>1. inv[p].pc \in KeySteps
    BY <1>6 DEF InsertRow, At, KeySteps, EnqueueSteps, SavingSteps, DeliverSteps
  <2>2. InvTyped'
    BY <1>6, <2>1, GotoTyped
       DEF InsertRow, Steps, KeySteps, EnqueueSteps, SavingSteps, DeliverSteps
  <2>3. email' \in [Keys -> EmailRow]
    <3>1. [NoEmail EXCEPT !.status = "pending", !.content = inv[p].want] \in EmailRow
      BY <2>1, AtHand DEF NoEmail, EmailRow, Unsettled, Invocation
    <3> QED
      BY <1>6, <2>1, AtHand, <3>1 DEF InsertRow, TypeInv, TypeOK
  <2> QED
    BY <1>6, <2>2, <2>3 DEF InsertRow, TypeInv, TypeOK, InvTyped, world, provider
<1>7. ASSUME NEW p \in Procs, Link(p) PROVE TypeInv'
  <2>1. inv[p].pc \in KeySteps
    BY <1>7 DEF Link, At, KeySteps, EnqueueSteps, SavingSteps, DeliverSteps
  <2>2. InvTyped'
    BY <1>7, <2>1, GotoTyped DEF Link, Steps, KeySteps, EnqueueSteps, SavingSteps, DeliverSteps
  <2>3. job' \in [Keys -> JobRow]
    <3>1. job[Cur(p)] \in JobRow
      BY <2>1, AtHand
    <3>2. [job[Cur(p)] EXCEPT !.linked = TRUE] \in JobRow
      BY <3>1 DEF JobRow, States
    <3> QED
      BY <1>7, <2>1, AtHand, <3>2 DEF Link, TypeInv, TypeOK
  <2> QED
    BY <1>7, <2>2, <2>3 DEF Link, TypeInv, TypeOK, InvTyped, world, provider
<1>8. ASSUME NEW p \in Procs, StoreFiles(p) PROVE TypeInv'
  <2>1. inv[p].pc \in KeySteps
    BY <1>8 DEF StoreFiles, At, KeySteps, EnqueueSteps, SavingSteps, DeliverSteps
  <2>2. InvTyped'
    BY <1>8, <2>1, GotoTyped
       DEF StoreFiles, Steps, KeySteps, EnqueueSteps, SavingSteps, DeliverSteps
  <2>3. files' \subseteq Keys
    BY <1>8, <2>1, AtHand DEF StoreFiles, TypeInv, TypeOK
  <2> QED
    BY <1>8, <2>2, <2>3 DEF StoreFiles, TypeInv, TypeOK, InvTyped, world, provider
<1>9. ASSUME NEW p \in Procs, Commit(p) PROVE TypeInv'
  <2>1. inv[p].pc \in KeySteps
    BY <1>9 DEF Commit, At, KeySteps, EnqueueSteps, SavingSteps, DeliverSteps
  <2>2. InvTyped'
    BY <1>9, <2>1, DeliverTyped, DoneTyped, GotoTyped DEF Commit, Enqueued, Steps
  <2>3. job' \in [Keys -> JobRow]
    <3>1. job[Cur(p)] \in JobRow /\ Past \in Int
      BY <2>1, AtHand, Numbers
    <3>2. [job[Cur(p)] EXCEPT !.state = "pending", !.prepared = TRUE,
                                  !.bytes = TRUE, !.lease = Past] \in JobRow
      BY <3>1 DEF JobRow, States
    <3> QED
      BY <1>9, <2>1, AtHand, <3>2 DEF Commit, TypeInv, TypeOK
  <2>4. email' \in [Keys -> EmailRow]
    BY <1>9, <2>1, AtHand DEF Commit, EmailRow, Unsettled, TypeInv, TypeOK
  <2> QED
    BY <1>9, <2>2, <2>3, <2>4 DEF Commit, TypeInv, TypeOK, InvTyped, world, provider
<1>10. ASSUME NEW p \in Procs, Catch(p) \/ Recant(p) PROVE TypeInv'
  <2>1. inv[p].pc \in KeySteps
    BY <1>10 DEF Catch, Recant, At, KeySteps, EnqueueSteps, SavingSteps, DeliverSteps
  <2>2. InvTyped'
    BY <1>10, <2>1, DoneTyped DEF Catch, Recant
  <2>3. WriteNotSaved(Cur(p))
    BY <1>10 DEF Catch, Recant
  <2>4. job' \in [Keys -> JobRow] /\ email' \in [Keys -> EmailRow]
    BY <2>1, <2>3, AtHand, NotSavedTyped
  <2>5. recanted' \in [Keys -> Nat]
    BY <1>10, <2>1, AtHand DEF Catch, Recant, TypeInv, TypeOK
  <2> QED
    BY <1>10, <2>2, <2>4, <2>5 DEF Catch, Recant, TypeInv, TypeOK, InvTyped, world, provider
<1>11. ASSUME NEW p \in Procs, SaveFails(p) PROVE TypeInv'
  <2>1. inv[p].pc \in KeySteps
    BY <1>11 DEF SaveFails, At, KeySteps, EnqueueSteps, SavingSteps, DeliverSteps
  <2>2. InvTyped'
    BY <1>11, <2>1, GotoTyped
       DEF SaveFails, Steps, KeySteps, EnqueueSteps, SavingSteps, DeliverSteps
  <2> QED
    BY <1>11, <2>2 DEF SaveFails, TypeInv, TypeOK, InvTyped, world, provider
<1>12. ASSUME NEW p \in Procs, Read(p) PROVE TypeInv'
  <2>1. inv[p].pc \in KeySteps
    BY <1>12 DEF Read, At, KeySteps, EnqueueSteps, SavingSteps, DeliverSteps
  <2>2. InvTyped'
    BY <1>12, <2>1, AtHand, LeaveTyped, GotoTyped, ToStateTyped, FinalTyped
       DEF Read, Verdicts, Steps, KeySteps, DeliverSteps
  <2> QED
    BY <1>12, <2>2 DEF Read, TypeInv, TypeOK, InvTyped, world, provider
<1>13. ASSUME NEW p \in Procs, LeaseJob(p) PROVE TypeInv'
  <2>1. inv[p].pc \in KeySteps
    BY <1>13 DEF LeaseJob, At, KeySteps, EnqueueSteps, SavingSteps, DeliverSteps
  <2>2. InvTyped'
    BY <1>13, <2>1, GotoTyped, LeaveTyped
       DEF LeaseJob, Steps, KeySteps, EnqueueSteps, SavingSteps, DeliverSteps
  <2>3. job' \in [Keys -> JobRow]
    <3>1. job[Cur(p)] \in JobRow /\ Lease \in Int /\ job[Cur(p)].attempts + 1 \in Nat
      BY <2>1, AtHand, Numbers DEF JobRow
    <3>2. [job[Cur(p)] EXCEPT !.state = "sending", !.lease = Lease,
                                  !.attempts = job[Cur(p)].attempts + 1] \in JobRow
      BY <3>1 DEF JobRow, States
    <3> QED
      BY <1>13, <2>1, AtHand, <3>2 DEF LeaseJob, TypeInv, TypeOK
  <2> QED
    BY <1>13, <2>2, <2>3 DEF LeaseJob, TypeInv, TypeOK, InvTyped, world, provider
<1>14. ASSUME NEW p \in Procs, Reread(p) PROVE TypeInv'
  <2>1. inv[p].pc \in KeySteps
    BY <1>14 DEF Reread, At, KeySteps, EnqueueSteps, SavingSteps, DeliverSteps
  <2>2. InvTyped'
    BY <1>14, <2>1, AtHand, FinalTyped DEF Reread
  <2> QED
    BY <1>14, <2>2 DEF Reread, TypeInv, TypeOK, InvTyped, world, provider
<1>15. ASSUME NEW p \in Procs, Fetch(p) PROVE TypeInv'
  <2>1. inv[p].pc \in KeySteps
    BY <1>15 DEF Fetch, At, KeySteps, EnqueueSteps, SavingSteps, DeliverSteps
  <2>2. InvTyped'
    <3>1. payload[Cur(p)] \in Contents \cup {None}
      BY <2>1, AtHand DEF TypeInv, TypeOK
    <3>2. CASE inv' = [inv EXCEPT ![p].pc = "begin", ![p].want = payload[Cur(p)]]
      BY <2>1, <3>1, <3>2, FetchedTyped
    <3>3. CASE Unreadable(p)
      BY <2>1, <3>3, AtHand, ToStateTyped DEF Unreadable, Verdicts
    <3> QED
      BY <1>15, <3>2, <3>3 DEF Fetch
  <2>3. faults' \in Nat
    BY <1>15 DEF Fetch, TypeInv, TypeOK
  <2> QED
    BY <1>15, <2>2, <2>3 DEF Fetch, TypeInv, TypeOK, InvTyped, world, provider
<1>16. ASSUME NEW p \in Procs, Begin(p) PROVE TypeInv'
  <2>1. inv[p].pc \in KeySteps
    BY <1>16 DEF Begin, At, KeySteps, EnqueueSteps, SavingSteps, DeliverSteps
  <2>2. InvTyped'
    BY <1>16, <2>1, GotoTyped DEF Begin, Steps, KeySteps, EnqueueSteps, SavingSteps, DeliverSteps
  <2>3. job' \in [Keys -> JobRow]
    <3>1. job[Cur(p)] \in JobRow
      BY <2>1, AtHand
    <3>2. [job[Cur(p)] EXCEPT !.age = IF job[Cur(p)].age = None THEN 0
                                      ELSE job[Cur(p)].age] \in JobRow
      BY <3>1 DEF JobRow, States
    <3> QED
      BY <1>16, <2>1, AtHand, <3>2 DEF Begin, TypeInv, TypeOK
  <2>4. email' \in [Keys -> EmailRow]
    BY <1>16, <2>1, AtHand DEF Begin, EmailRow, Unsettled, TypeInv, TypeOK
  <2> QED
    BY <1>16, <2>2, <2>3, <2>4 DEF Begin, TypeInv, TypeOK, InvTyped, world, provider
<1>17. ASSUME NEW p \in Procs, SettleJob(p) PROVE TypeInv'
  <2>1. inv[p].pc \in KeySteps
    BY <1>17 DEF SettleJob, At, KeySteps, EnqueueSteps, SavingSteps, DeliverSteps
  <2>2. InvTyped'
    BY <1>17, LeaveTyped DEF SettleJob
  <2>3. job' \in [Keys -> JobRow] /\ email' \in [Keys -> EmailRow]
    BY <1>17, <2>1, AtHand, SetStateTyped DEF SettleJob, TypeInv, Located
  <2> QED
    BY <1>17, <2>2, <2>3 DEF SettleJob, TypeInv, TypeOK, InvTyped, world, provider
<1>18. ASSUME NEW p \in Procs, Record(p) PROVE TypeInv'
  <2>1. inv[p].pc \in KeySteps
    BY <1>18 DEF Record, At, KeySteps, EnqueueSteps, SavingSteps, DeliverSteps
  <2>2. InvTyped'
    BY <1>18, <2>1, GotoTyped DEF Record, Steps, KeySteps, EnqueueSteps, SavingSteps, DeliverSteps
  <2>3. job' \in [Keys -> JobRow]
    <3>1. job[Cur(p)] \in JobRow /\ Past \in Int /\ Row(p) \in JobRow
      BY <2>1, AtHand, Numbers
    <3>2. [job[Cur(p)] EXCEPT !.state = "accepted", !.id = Row(p).id, !.lease = Past] \in JobRow
      BY <3>1 DEF JobRow, States
    <3> QED
      BY <1>18, <2>1, AtHand, <3>2 DEF Record, TypeInv, TypeOK
  <2> QED
    BY <1>18, <2>2, <2>3 DEF Record, TypeInv, TypeOK, InvTyped, world, provider
<1>19. ASSUME NEW p \in Procs, RepairSent(p) PROVE TypeInv'
  <2>1. inv[p].pc \in KeySteps
    BY <1>19 DEF RepairSent, At, KeySteps, EnqueueSteps, SavingSteps, DeliverSteps
  <2>2. InvTyped'
    BY <1>19, <2>1, GotoTyped, LeaveTyped
       DEF RepairSent, Steps, KeySteps, EnqueueSteps, SavingSteps, DeliverSteps
  <2>3. email' \in [Keys -> EmailRow]
    <3>1. Reported(Cur(p), Row(p).id) \in Unsettled \cup Delivered
      BY OutboxAssumption DEF Reported, EventRow, TypeInv, TypeOK, Unsettled, Delivered
    <3>2. Row(p).id \in Nat \cup {None}
      BY <2>1, AtHand DEF JobRow
    <3> QED
      BY SMTT(30), <1>19, <2>1, AtHand, <3>1, <3>2 DEF RepairSent, EmailRow, TypeInv, TypeOK
  <2> QED
    BY <1>19, <2>2, <2>3 DEF RepairSent, TypeInv, TypeOK, InvTyped, world, provider
<1>20. ASSUME NEW p \in Procs, ErasePayload(p) PROVE TypeInv'
  <2>1. inv[p].pc \in KeySteps
    BY <1>20 DEF ErasePayload, At, KeySteps, EnqueueSteps, SavingSteps, DeliverSteps
  <2>2. InvTyped'
    BY <1>20, <2>1, GotoTyped
       DEF ErasePayload, Steps, KeySteps, EnqueueSteps, SavingSteps, DeliverSteps
  <2>3. payload' \in [Keys -> Contents \cup {None}]
    BY <1>20, <2>1, AtHand DEF ErasePayload, TypeInv, TypeOK
  <2> QED
    BY <1>20, <2>2, <2>3 DEF ErasePayload, TypeInv, TypeOK, InvTyped, world, provider
<1>21. ASSUME NEW p \in Procs, NotePayloadErased(p) PROVE TypeInv'
  <2>1. inv[p].pc \in KeySteps
    BY <1>21 DEF NotePayloadErased, At, KeySteps, EnqueueSteps, SavingSteps, DeliverSteps
  <2>2. InvTyped'
    BY <1>21, LeaveTyped DEF NotePayloadErased
  <2>3. job' \in [Keys -> JobRow]
    <3>1. job[Cur(p)] \in JobRow
      BY <2>1, AtHand
    <3>2. [job[Cur(p)] EXCEPT !.bytes = FALSE] \in JobRow
      BY <3>1 DEF JobRow, States
    <3> QED
      BY <1>21, <2>1, AtHand, <3>2 DEF NotePayloadErased, TypeInv, TypeOK
  <2> QED
    BY <1>21, <2>2, <2>3 DEF NotePayloadErased, TypeInv, TypeOK, InvTyped, world, provider
<1>22. ASSUME NEW p \in Procs, Send(p) PROVE TypeInv'
  <2>1. inv[p].pc \in KeySteps
    BY <1>22 DEF Send, At, KeySteps, EnqueueSteps, SavingSteps, DeliverSteps
  <2>2. /\ copies' \in [Keys -> Nat]
        /\ receipt' \in [Keys -> Nat \cup {None}]
        /\ mailed' \in [Keys -> SUBSET (Contents \cup {None})]
    <3>1. Cur(p) \in Keys /\ inv[p].want \in Contents \cup {None}
      BY <2>1, AtHand DEF Invocation
    <3>2. CASE Accept(p)
      BY <3>1, <3>2 DEF Accept, provider, TypeInv, TypeOK
    <3>3. CASE UNCHANGED provider
      BY <3>3 DEF provider, TypeInv, TypeOK
    <3> QED
      BY <1>22, <3>2, <3>3 DEF Send
  <2>3. InvTyped'
    <3>1. CASE \E r \in {"rejected", "limited", "unknown"} :
                   ToState(p, "settle", Row(p), FailureState(inv[p].agent, r, Row(p).attempts))
      <4>1. \A r : FailureState(inv[p].agent, r, Row(p).attempts) \in Verdicts
        BY DEF FailureState, Verdicts
      <4> QED
        BY <2>1, <3>1, <4>1, AtHand, ToStateTyped
    <3>2. CASE /\ copies' \in [Keys -> Nat]
               /\ inv' = [inv EXCEPT ![p].pc = "record", ![p].want = None,
                                     ![p].seen[Cur(p)] = [Row(p) EXCEPT !.id = copies'[Cur(p)],
                                                                        !.state = "accepted"]]
      BY <2>1, <3>2, RecordTyped
    <3> QED
      BY <1>22, <2>2, <3>1, <3>2 DEF Send
  <2> QED
    BY <1>22, <2>2, <2>3 DEF Send, TypeInv, TypeOK, InvTyped, world, provider
<1>23. ASSUME NEW p \in Procs, Recheck(p) PROVE TypeInv'
  <2>1. inv[p].pc \in KeySteps
    BY <1>23 DEF Recheck, At, KeySteps, EnqueueSteps, SavingSteps, DeliverSteps
  <2>2. InvTyped'
    <3>1. CASE Done(p)
      BY <3>1, DoneTyped
    <3>2. CASE inv' = [inv EXCEPT ![p].pc = "rearm", ![p].seen[Cur(p)] = job[Cur(p)],
                                  ![p].flag = Expired(job[Cur(p)])]
      BY <2>1, <3>2, RearmTyped
    <3> QED
      BY <1>23, <3>1, <3>2 DEF Recheck
  <2> QED
    BY <1>23, <2>2 DEF Recheck, TypeInv, TypeOK, InvTyped, world, provider
<1>24. ASSUME NEW p \in Procs, Rearm(p) PROVE TypeInv'
  <2>1. inv[p].pc \in KeySteps
    BY <1>24 DEF Rearm, At, KeySteps, EnqueueSteps, SavingSteps, DeliverSteps
  <2>2. InvTyped'
    BY <1>24, <2>1, DeliverTyped DEF Rearm
  <2>3. job' \in [Keys -> JobRow]
    <3>1. job[Cur(p)] \in JobRow /\ Row(p).age \in Nat \cup {None}
      BY <2>1, AtHand DEF JobRow
    <3> DEFINE a == IF inv[p].flag THEN None ELSE Row(p).age
    <3>2. a \in Nat \cup {None}
      BY <3>1
    <3>3. [job[Cur(p)] EXCEPT !.state = "pending", !.attempts = 0, !.wait = 0, !.age = a] \in JobRow
      <4> HIDE DEF a
      <4> QED BY <3>1, <3>2 DEF JobRow, States
    <3> QED
      BY <1>24, <2>1, AtHand, <3>3 DEF Rearm, TypeInv, TypeOK
  <2>4. acks' \in [Keys -> Nat]
    BY <1>24, <2>1, AtHand DEF Rearm, TypeInv, TypeOK
  <2> QED
    BY <1>24, <2>2, <2>3, <2>4 DEF Rearm, TypeInv, TypeOK, InvTyped, world, provider
<1>25. ASSUME NEW p \in Procs, NEW k \in Keys, NEW c \in Contents, StartSend(p, k, c) PROVE TypeInv'
  <2> DEFINE i == [Idle EXCEPT !.pc = "reserve", !.cur = k, !.agent = configured, !.want = c]
  <2>1. i \in Invocation /\ Located(i)
    BY IdleTyped DEF Invocation, Located, Steps, EnqueueSteps, TypeInv, TypeOK
  <2>2. InvTyped'
    <3>1. inv' = [inv EXCEPT ![p] = i]
      BY <1>25 DEF StartSend, Start
    <3> HIDE DEF i
    <3> QED BY <2>1, <3>1, Moved
  <2> QED
    BY <1>25, <2>2 DEF StartSend, Start, TypeInv, TypeOK, InvTyped, world, provider
<1>26. ASSUME NEW p \in Procs, NEW k \in Keys, NEW confirm \in BOOLEAN, StartRetry(p, k, confirm)
       PROVE TypeInv'
  <2> DEFINE i == [Idle EXCEPT !.pc = "recheck", !.cur = k, !.agent = configured, !.flag = confirm]
  <2>1. i \in Invocation /\ Located(i)
    BY IdleTyped DEF Invocation, Located, Steps, TypeInv, TypeOK
  <2>2. InvTyped'
    <3>1. inv' = [inv EXCEPT ![p] = i]
      BY <1>26 DEF StartRetry, Start
    <3> HIDE DEF i
    <3> QED BY <2>1, <3>1, Moved
  <2> QED
    BY <1>26, <2>2 DEF StartRetry, Start, TypeInv, TypeOK, InvTyped, world, provider
<1>27. ASSUME NEW p \in Procs, StartFlush(p) PROVE TypeInv'
  <2> DEFINE i == [Idle EXCEPT !.pc = "sweep", !.flush = TRUE, !.agent = configured]
  <2>1. i \in Invocation /\ Located(i)
    BY ZenonT(40), IdleTyped DEF Invocation, Located, Steps, KeySteps, EnqueueSteps, SavingSteps,
      DeliverSteps, TypeInv, TypeOK
  <2>2. InvTyped'
    <3>1. inv' = [inv EXCEPT ![p] = i]
      BY <1>27 DEF StartFlush, Start
    <3> HIDE DEF i
    <3> QED BY <2>1, <3>1, Moved
  <2> QED
    BY <1>27, <2>2 DEF StartFlush, Start, TypeInv, TypeOK, InvTyped, world, provider
<1>28. ASSUME NEW p \in Procs, Sweep(p) PROVE TypeInv'
  <2> DEFINE due == {k \in Keys : job[k].state \in {"sending", "preparing"} /\ job[k].lease < 0}
             i == [inv[p] EXCEPT !.pc = "expire", !.seen = job, !.todo = due]
  <2>1. i \in Invocation /\ Located(i)
    <3>1. inv[p] \in Invocation /\ job \in [Keys -> JobRow] /\ due \in SUBSET Keys
      BY DEF TypeInv, TypeOK
    <3>2. "expire" \in Steps \ KeySteps
      BY DEF Steps, KeySteps, EnqueueSteps, SavingSteps, DeliverSteps
    <3> HIDE DEF due
    <3>3. i \in Invocation
      BY <3>1, <3>2 DEF Invocation
    <3>4. i.pc = "expire"
      BY <3>1 DEF Invocation
    <3> QED BY <3>2, <3>3, <3>4 DEF Located
  <2>2. InvTyped'
    <3>1. inv' = [inv EXCEPT ![p] = i]
      BY <1>28 DEF Sweep, TypeInv, TypeOK
    <3> HIDE DEF i
    <3> QED BY <2>1, <3>1, Moved
  <2> QED
    BY <1>28, <2>2 DEF Sweep, TypeInv, TypeOK, InvTyped, world, provider
<1>29. ASSUME NEW p \in Procs, Expire(p) PROVE TypeInv'
  <2>1. inv[p] \in Invocation
    BY DEF TypeInv, TypeOK
  <2>2. PICK k \in Oldest(inv[p].todo) :
          /\ SetState(k, inv[p].seen[k], SweepState(inv[p].seen[k]))
          /\ inv' = [inv EXCEPT ![p].todo = @ \ {k}]
    BY <1>29 DEF Expire
  <2>3. k \in Keys /\ inv[p].seen[k] \in JobRow
    BY <2>1 DEF Oldest, Invocation
  <2>4. SweepState(inv[p].seen[k]) \in Verdicts
    BY DEF SweepState, Verdicts
  <2>5. job' \in [Keys -> JobRow] /\ email' \in [Keys -> EmailRow]
    BY <2>2, <2>3, <2>4, SetStateTyped
  <2> DEFINE i == [inv[p] EXCEPT !.todo = @ \ {k}]
  <2>6. i \in Invocation /\ Located(i)
    BY <2>1 DEF Invocation, Located, TypeInv
  <2>7. InvTyped'
    <3>1. inv' = [inv EXCEPT ![p] = i]
      BY <2>2 DEF TypeInv, TypeOK
    <3> HIDE DEF i
    <3> QED BY <2>6, <3>1, Moved
  <2> QED
    BY <1>29, <2>5, <2>7 DEF Expire, TypeInv, TypeOK, InvTyped, world, provider
<1>30. ASSUME NEW p \in Procs, SelectDue(p) PROVE TypeInv'
  <2> DEFINE i == [inv[p] EXCEPT !.pc = "next", !.todo = FirstDue, !.seen = Blank]
  <2>1. FirstDue \in SUBSET Keys /\ Blank \in [Keys -> JobRow]
    BY IdleTyped DEF FirstDue, DueKeys, Idle, Invocation
  <2>2. i \in Invocation /\ Located(i)
    <3>1. inv[p] \in Invocation
      BY DEF TypeInv, TypeOK
    <3>2. "next" \in Steps \ KeySteps
      BY DEF Steps, KeySteps, EnqueueSteps, SavingSteps, DeliverSteps
    <3>3. i \in Invocation
      BY <2>1, <3>1, <3>2 DEF Invocation
    <3>4. i.pc = "next"
      BY <3>1 DEF Invocation
    <3> QED BY <3>2, <3>3, <3>4 DEF Located
  <2>3. InvTyped'
    <3>1. inv' = [inv EXCEPT ![p] = i]
      BY <1>30 DEF SelectDue, TypeInv, TypeOK
    <3> HIDE DEF i
    <3> QED BY <2>2, <3>1, Moved
  <2> QED
    BY <1>30, <2>3 DEF SelectDue, TypeInv, TypeOK, InvTyped, world, provider
<1>31. ASSUME NEW p \in Procs, NextDue(p) PROVE TypeInv'
  <2>1. inv[p] \in Invocation
    BY DEF TypeInv, TypeOK
  <2>2. PICK k \in Oldest(inv[p].todo) :
          inv' = [inv EXCEPT ![p].pc = "read", ![p].cur = k, ![p].todo = @ \ {k}]
    BY <1>31 DEF NextDue
  <2> DEFINE i == [inv[p] EXCEPT !.pc = "read", !.cur = k, !.todo = @ \ {k}]
  <2>3. i \in Invocation /\ Located(i)
    BY <2>1 DEF Oldest, Invocation, Located, Steps, DeliverSteps
  <2>4. InvTyped'
    <3>1. inv' = [inv EXCEPT ![p] = i]
      BY <2>2 DEF TypeInv, TypeOK
    <3> HIDE DEF i
    <3> QED BY <2>3, <3>1, Moved
  <2> QED
    BY <1>31, <2>4 DEF NextDue, TypeInv, TypeOK, InvTyped, world, provider
<1>32. ASSUME NEW p \in Procs, PurgeEvents(p) PROVE TypeInv'
  <2>1. InvTyped'
    BY <1>32, DoneTyped DEF PurgeEvents
  <2> QED
    BY <1>32, <2>1 DEF PurgeEvents, TypeInv, TypeOK, InvTyped, world, provider
<1>33. ASSUME NEW p \in Procs, Abort(p) PROVE TypeInv'
  <2>1. InvTyped'
    BY <1>33, DoneTyped, LeaveTyped DEF Abort
  <2> QED
    BY <1>33, <2>1 DEF Abort, TypeInv, TypeOK, InvTyped, world, provider
<1>34. ASSUME NEW k \in Keys, NEW n \in 1..(1 + MaxAcks), NEW s \in Events, Webhook(k, n, s)
       PROVE TypeInv'
  <2>1. s \in Unsettled \cup Delivered /\ n \in Nat
    BY OutboxAssumption DEF Unsettled, Delivered
  <2>2. [key |-> k, id |-> n, status |-> s, age |-> 0] \in EventRow
    BY <2>1 DEF EventRow
  <2>3. events' \subseteq EventRow
    BY <1>34, <2>2 DEF Webhook, TypeInv, TypeOK
  <2>4. email' \in [Keys -> EmailRow]
    <3>1. email[k] \in EmailRow /\ email \in [Keys -> EmailRow]
      BY DEF TypeInv, TypeOK
    <3>2. [email[k] EXCEPT !.status = s] \in EmailRow
      BY <2>1, <3>1 DEF EmailRow
    <3> QED BY <1>34, <3>1, <3>2 DEF Webhook
  <2> QED
    BY <1>34, <2>3, <2>4 DEF Webhook, TypeInv, TypeOK, world, provider
<1>35. ASSUME Redeploy PROVE TypeInv'
  BY <1>35 DEF Redeploy, TypeInv, TypeOK, provider
<1>36. ASSUME Tick PROVE TypeInv'
  <2>1. ASSUME NEW age \in Nat \cup {None}, NEW limit \in Nat
        PROVE  Older(age, limit) \in Nat \cup {None}
    BY OutboxAssumption DEF Older
  <2>2. ASSUME NEW r \in JobRow PROVE Aged(r) \in JobRow
    <3>1. Older(r.age, Window) \in Nat \cup {None}
      BY <2>1, Numbers DEF JobRow
    <3>2. (IF r.wait > 0 THEN r.wait - 1 ELSE 0) \in Nat
      BY DEF JobRow
    <3>3. (IF r.lease > Past THEN r.lease - 1 ELSE r.lease) \in Int
      BY Numbers DEF JobRow
    <3> QED
      BY <3>1, <3>2, <3>3 DEF Aged, JobRow
  <2>3. job' \in [Keys -> JobRow]
    BY <1>36, <2>2 DEF Tick, TypeInv, TypeOK
  <2>4. receipt' \in [Keys -> Nat \cup {None}]
    BY <1>36, <2>1, Numbers DEF Tick, TypeInv, TypeOK
  <2>5. events' \subseteq EventRow
    <3>1. ASSUME NEW e \in EventRow PROVE [e EXCEPT !.age = Older(@, Retention + 1)] \in EventRow
      <4>1. Older(e.age, Retention + 1) \in Nat
        BY OutboxAssumption DEF Older, EventRow
      <4> QED BY <4>1 DEF EventRow
    <3> QED
      BY <1>36, <3>1 DEF Tick, TypeInv, TypeOK
  <2>6. InvTyped'
    <3> DEFINE older(p) == IF At(p, "idle") THEN inv[p]
                           ELSE [inv[p] EXCEPT !.age = @ + 1,
                                               !.seen = [k \in Keys |-> Aged(inv[p].seen[k])]]
    <3>1. ASSUME NEW p \in Procs PROVE older(p) \in Invocation /\ Located(older(p))
      <4>1. inv[p] \in Invocation /\ Located(inv[p])
        BY DEF TypeInv, TypeOK
      <4> DEFINE s == [k \in Keys |-> Aged(inv[p].seen[k])]
      <4>2. s \in [Keys -> JobRow]
        BY <2>2, <4>1 DEF Invocation
      <4>3. older(p) = IF At(p, "idle") THEN inv[p] ELSE [inv[p] EXCEPT !.age = @ + 1, !.seen = s]
        OBVIOUS
      <4> HIDE DEF s, older
      <4>4. [inv[p] EXCEPT !.age = @ + 1, !.seen = s] \in Invocation
        <5>1. inv[p].age + 1 \in Nat
          BY <4>1 DEF Invocation
        <5> QED BY <4>1, <4>2, <5>1 DEF Invocation
      <4> QED BY <4>1, <4>2, <4>3, <4>4 DEF Invocation, Located
    <3>2. inv' = [p \in Procs |-> older(p)]
      BY <1>36 DEF Tick
    <3> HIDE DEF older
    <3> QED BY <3>1, <3>2 DEF InvTyped
  <2> QED
    BY <1>36, <2>3, <2>4, <2>5, <2>6 DEF Tick, TypeInv, TypeOK, InvTyped, world
<1> QED
  BY <1>1, <1>2, <1>3, <1>4, <1>5, <1>6, <1>7, <1>8, <1>9, <1>10, <1>11, <1>12, <1>13, <1>14,
     <1>15,
     <1>16, <1>17, <1>18, <1>19, <1>20, <1>21, <1>22, <1>23, <1>24, <1>25, <1>26, <1>27, <1>28,
     <1>29, <1>30, <1>31, <1>32, <1>33, <1>34, <1>35, <1>36
  DEF Next, Step, Saving, Delivering, Retrying, Flushing

\* The outbox never leaves its inductive type invariant.
THEOREM TypeInvariant == Spec => []TypeInv
<1>1. TypeInv /\ UNCHANGED vars => TypeInv'
  BY DEF TypeInv, TypeOK, vars, world, provider
<1> QED
  BY InitType, TypeStep, <1>1, PTL DEF Spec

\* Every variable keeps its type, and no invocation works without a key: the rows,
\* objects and locals of the outbox never take a value the schema does not have.
THEOREM TypeCorrect == Spec => []TypeOK
<1>1. TypeInv => TypeOK
  BY DEF TypeInv
<1> QED
  BY TypeInvariant, <1>1, PTL
=============================================================================
