------------------------------- MODULE Outbox -------------------------------
(***************************************************************************)
(* The durable outbox: src/lib/server/durable-outbox.ts, driven by         *)
(* sendAndStore (outbox.ts), the retry route and the one-minute cron.      *)
(*                                                                         *)
(* Every await of the code is one action: a D1 statement or batch, an R2   *)
(* call and the provider call are atomic, and whatever another invocation  *)
(* does between two of them is an interleaving here.  One job row exists   *)
(* per (user, request key); a member of Keys stands for that pair, for the *)
(* job's id and for the id of the Sent row, which the code makes equal.    *)
(*                                                                         *)
(* Time stamps are kept relative to the present, in coarse ticks: what the *)
(* code compares with Date.now() is an age or a remainder that Tick moves, *)
(* and that stops at the value past which no comparison can change.  Time  *)
(* is therefore unbounded and the state space still finite.                *)
(***************************************************************************)
EXTENDS Integers, FiniteSets

CONSTANTS
  Keys,             \* (user, Idempotency-Key) pairs
  Contents,         \* message contents, as fingerprint() tells them apart
  Users,            \* invocations that may serve an HTTP request or hand over a notice
  Crons,            \* invocations that may run the scheduled flushOutbox
  Kinds,            \* providers the deployment may be configured with
  Events,           \* delivery statuses Resend's webhooks report
  None,             \* SQL NULL, a missing object, no answer
  Lease,            \* LEASE_MS
  Window,           \* RETRY_WINDOW_MS
  KeyTTL,           \* how long Resend remembers an idempotency key
  Retention,        \* age at which a delivery event is purged
  FirstDelay,       \* setState's delay after the first attempt ...
  MaxDelay,         \* ... and its ceiling (the doubling between is left out)
  MaxAttempts,      \* MAX_ATTEMPTS
  DueLimit,         \* LIMIT of flushOutbox's due query
  InvocationLimit,  \* ticks an invocation may live
  PrepareLimit,     \* ticks enqueueOutbound may take
  CrashAt,          \* the steps at which an invocation may die
  Prompt,           \* the steps an invocation takes before anything else happens
  MaxFaults,        \* bound: crashes, storage failures and redeployments
  MaxAcks           \* bound: duplicate-risk acknowledgements per key

Procs == Users \cup Crons

\* What the columns of emails.status mean to the outbox.
Unsettled == {"pending", "sending", "failed", "uncertain"}
Delivered == {"accepted", "sent", "delivered", "bounced", "complained", "delayed"}
States == {"none", "preparing", "pending", "sending", "retry", "accepted", "failed",
           "uncertain"}

SavingSteps == {"put", "row", "insert", "link", "files", "commit", "catch"}
EnqueueSteps == {"reserve", "select", "claim"} \cup SavingSteps
DeliverSteps == {"read", "lease", "reread", "refuse", "fetch", "begin", "send", "settle", "record",
                 "final", "erase", "erased"}
Steps == {"idle", "recant", "recheck", "rearm", "sweep", "expire", "next"}
           \cup EnqueueSteps \cup DeliverSteps

ASSUME OutboxAssumption ==
  /\ IsFiniteSet(Keys)
  /\ Kinds \subseteq {"resend", "cloudflare"} /\ Kinds # {}
  /\ Events \subseteq (Delivered \ {"accepted"}) \cup {"failed"}
  /\ None \notin Nat \cup Contents \cup Events \cup Kinds
  /\ {Lease, Window, KeyTTL, Retention, FirstDelay, MaxDelay} \subseteq Nat
  /\ {MaxAttempts, DueLimit, InvocationLimit, PrepareLimit} \subseteq Nat
  /\ {MaxFaults, MaxAcks} \subseteq Nat
  /\ CrashAt \subseteq Steps /\ Prompt \subseteq Steps

\* A lease_until that passed longer ago than any running invocation started.
Past == -(InvocationLimit + 1)

\* lease: ticks to lease_until; wait: ticks to next_attempt_at; age: ticks since
\* first_attempt_at; bytes: payload_bytes > 0; rank: the order of created_at.
NoJob == [state |-> "none", content |-> None, kind |-> None, prepared |-> FALSE,
          linked |-> FALSE, bytes |-> FALSE, attempts |-> 0, age |-> None,
          wait |-> 0, lease |-> Past, id |-> None, rank |-> 0]
JobRow == [state : States, content : Contents \cup {None}, kind : Kinds \cup {None},
           prepared : BOOLEAN, linked : BOOLEAN, bytes : BOOLEAN, attempts : Nat,
           age : Nat \cup {None}, wait : Nat, lease : Int,
           id : Nat \cup {None}, rank : Nat]
NoEmail == [status |-> "none", content |-> None, id |-> None]
Blank == [k \in Keys |-> NoJob]
EmailRow == [status : {"none"} \cup Unsettled \cup Delivered,
             content : Contents \cup {None}, id : Nat \cup {None}]

EventRow == [key : Keys, id : Nat, status : Events, age : Nat]
\* Locals of an invocation: where it stands, whether it runs flushOutbox, the key it works
\* on, its age, the provider it was built with, the content it carries, a flag (reserved /
\* confirmDuplicateRisk / expiredKey), the state setState will write, the rows it last
\* selected and the keys its loop has left.
Idle == [pc |-> "idle", flush |-> FALSE, cur |-> None, age |-> 0, agent |-> None, want |-> None,
         flag |-> FALSE, verdict |-> "none", seen |-> Blank, todo |-> {}]
Invocation == [pc : Steps, flush : BOOLEAN, cur : Keys \cup {None}, age : Nat,
               agent : Kinds \cup {None}, want : Contents \cup {None}, flag : BOOLEAN,
               verdict : States, seen : [Keys -> JobRow], todo : SUBSET Keys]

VARIABLES
  faults, configured,
  job,        \* outbox_jobs rows (D1)
  email,      \* the Sent rows in emails (D1)
  events,     \* outbound_delivery_events (D1)
  payload,    \* outbox/<id>.json objects (R2)
  files,      \* keys whose attachments are stored (R2 and D1)
  copies,     \* provider: copies of the message it accepted; the last one's number is its id
  receipt,    \* provider: age of the idempotency key it remembers
  mailed,     \* provider: contents it accepted
  acks,       \* history: duplicate-risk acknowledgements that re-armed the job
  recanted,   \* history: sends reported as not saved after the provider may have been called
  inv         \* the running invocations

world == <<faults, configured>>
provider == <<copies, receipt, mailed>>
vars == <<world, job, email, events, payload, files, provider, acks, recanted, inv>>

TypeOK ==
  /\ faults \in Nat /\ configured \in Kinds
  /\ job \in [Keys -> JobRow]
  /\ email \in [Keys -> EmailRow]
  /\ events \subseteq EventRow
  /\ payload \in [Keys -> Contents \cup {None}]
  /\ files \subseteq Keys
  /\ copies \in [Keys -> Nat]
  /\ receipt \in [Keys -> Nat \cup {None}]
  /\ mailed \in [Keys -> SUBSET (Contents \cup {None})]
  /\ acks \in [Keys -> Nat] /\ recanted \in [Keys -> Nat]
  /\ inv \in [Procs -> Invocation]

Init ==
  /\ faults = 0 /\ configured \in Kinds
  /\ job = Blank
  /\ email = [k \in Keys |-> NoEmail]
  /\ events = {}
  /\ payload = [k \in Keys |-> None]
  /\ files = {}
  /\ copies = [k \in Keys |-> 0]
  /\ receipt = [k \in Keys |-> None]
  /\ mailed = [k \in Keys |-> {}]
  /\ acks = [k \in Keys |-> 0] /\ recanted = [k \in Keys |-> 0]
  /\ inv = [p \in Procs |-> Idle]

-----------------------------------------------------------------------------
(* Moving an invocation along. *)

At(p, step) == inv[p].pc = step
Cur(p) == inv[p].cur
Row(p) == inv[p].seen[Cur(p)]          \* the job object the code holds
Goto(p, step) == inv' = [inv EXCEPT ![p].pc = step]
Done(p) == inv' = [inv EXCEPT ![p] = Idle]
Start(p, r) ==
  /\ At(p, "idle")
  /\ inv' = [inv EXCEPT ![p] = r]
  /\ UNCHANGED <<world, job, email, events, payload, files, provider, acks, recanted>>

\* deliverOutboxJob is called: it takes only the job's id.
Deliver(p) ==
  inv' = [inv EXCEPT ![p] = [Idle EXCEPT !.pc = "read", !.cur = Cur(p), !.age = inv[p].age,
                                         !.agent = inv[p].agent]]

\* deliverOutboxJob returns: to flushOutbox's loop, or to the end of the request.
Leave(p) ==
  IF inv[p].flush
  THEN inv' = [inv EXCEPT ![p] = [Idle EXCEPT !.pc = "next", !.flush = TRUE, !.age = inv[p].age,
                                              !.agent = inv[p].agent, !.todo = inv[p].todo]]
  ELSE Done(p)

\* enqueueOutbound returns the job: sendAndStore delivers it, the calendar and vacation
\* callers leave it to the cron.
Enqueued(p) == \/ Deliver(p)
               \/ Done(p)

\* The await of setState(job, state) is the invocation's next step.
ToState(p, step, r, state) ==
  inv' = [inv EXCEPT ![p] = [@ EXCEPT !.pc = step, !.want = None, !.verdict = state,
                                      !.seen = [inv[p].seen EXCEPT ![Cur(p)] = r]]]

MayFail(p) == faults < MaxFaults /\ inv[p].pc \in CrashAt

-----------------------------------------------------------------------------
(* enqueueOutbound *)

StartSend(p, k, c) ==
  /\ p \in Users
  /\ Start(p, [Idle EXCEPT !.pc = "reserve", !.cur = k,
                           !.agent = configured, !.want = c])

NewJob(p) ==
  [NoJob EXCEPT !.state = "preparing", !.content = inv[p].want, !.kind = inv[p].agent,
                !.lease = Lease - inv[p].age,
                !.rank = Cardinality({k \in Keys : job[k].state # "none"})]

\* INSERT ... ON CONFLICT DO NOTHING
Reserve(p) ==
  LET k == Cur(p) IN
  /\ At(p, "reserve")
  /\ job' = IF job[k].state = "none" THEN [job EXCEPT ![k] = NewJob(p)] ELSE job
  /\ inv' = [inv EXCEPT ![p].pc = "select", ![p].flag = (job[k].state = "none")]
  /\ UNCHANGED <<world, email, events, payload, files, provider, acks, recanted>>

\* Wrong on purpose: the fingerprints are not compared.
SelectAnyContent(p) ==
  LET k == Cur(p) IN
  /\ At(p, "select")
  /\ \/ job[k].prepared /\ Enqueued(p)
     \/ ~job[k].prepared /\ Goto(p, IF inv[p].flag THEN "put" ELSE "claim")
  /\ UNCHANGED <<world, job, email, events, payload, files, provider, acks, recanted>>

Select(p) ==
  LET k == Cur(p) IN
  /\ At(p, "select")
  /\ \/ job[k].content # inv[p].want /\ Done(p)                 \* idempotency_conflict
     \/ job[k].content = inv[p].want /\ job[k].prepared /\ Enqueued(p)
     \/ /\ job[k].content = inv[p].want /\ ~job[k].prepared
        /\ Goto(p, IF inv[p].flag THEN "put" ELSE "claim")
  /\ UNCHANGED <<world, job, email, events, payload, files, provider, acks, recanted>>

\* lease_until < now, with the now of the invocation's start
Claimable(k, age) ==
  /\ ~job[k].prepared
  /\ \/ job[k].state = "failed"
     \/ job[k].state = "preparing" /\ job[k].lease + age < 0

Claim(p) ==
  LET k == Cur(p) IN
  /\ At(p, "claim")
  /\ IF Claimable(k, inv[p].age)
     THEN /\ job' = [job EXCEPT ![k].state = "preparing",
                                ![k].lease = Lease - inv[p].age]
          /\ Goto(p, "put")
     ELSE UNCHANGED job /\ Done(p)                              \* send_in_progress
  /\ UNCHANGED <<world, email, events, payload, files, provider, acks, recanted>>

Put(p) ==
  /\ At(p, "put")
  /\ payload' = [payload EXCEPT ![Cur(p)] = inv[p].want]
  /\ Goto(p, "row")
  /\ UNCHANGED <<world, job, email, events, files, provider, acks, recanted>>

FindRow(p) ==
  /\ At(p, "row")
  /\ Goto(p, IF email[Cur(p)].status = "none" THEN "insert" ELSE "link")
  /\ UNCHANGED <<world, job, email, events, payload, files, provider, acks, recanted>>

\* insertEmail: the primary key refuses a second row.
InsertRow(p) ==
  LET k == Cur(p) IN
  /\ At(p, "insert")
  /\ IF email[k].status = "none"
     THEN /\ email' = [email EXCEPT ![k] = [NoEmail EXCEPT !.status = "pending",
                                                           !.content = inv[p].want]]
          /\ Goto(p, "link")
     ELSE UNCHANGED email /\ Goto(p, "catch")
  /\ UNCHANGED <<world, job, events, payload, files, provider, acks, recanted>>

Link(p) ==
  /\ At(p, "link")
  /\ job' = [job EXCEPT ![Cur(p)].linked = TRUE]
  /\ Goto(p, "files")
  /\ UNCHANGED <<world, email, events, payload, files, provider, acks, recanted>>

StoreFiles(p) ==
  /\ At(p, "files")
  /\ files' = files \cup {Cur(p)}
  /\ Goto(p, "commit")
  /\ UNCHANGED <<world, job, email, events, payload, provider, acks, recanted>>

Commit(p) ==
  LET k == Cur(p) IN
  /\ At(p, "commit")
  /\ job' = [job EXCEPT ![k] = [@ EXCEPT !.state = "pending", !.prepared = TRUE,
                                         !.bytes = TRUE, !.lease = Past]]
  /\ email' = [email EXCEPT ![k].status = "pending"]
  /\ \/ Enqueued(p) /\ UNCHANGED faults
     \/ MayFail(p) /\ faults' = faults + 1 /\ Goto(p, "recant")   \* the answer is lost
  /\ UNCHANGED <<configured, events, payload, files, provider, acks, recanted>>

\* The batch of the catch block: the emails UPDATE matches nothing before the row is
\* inserted; neither statement looks at the state it overwrites.
WriteNotSaved(k) ==
  /\ job' = [job EXCEPT ![k] = [@ EXCEPT !.state = "failed", !.lease = Past]]
  /\ email' = IF email[k].status = "none" THEN email
              ELSE [email EXCEPT ![k].status = "failed"]

Catch(p) ==
  /\ At(p, "catch")
  /\ WriteNotSaved(Cur(p))
  /\ Done(p)
  /\ UNCHANGED <<world, events, payload, files, provider, acks, recanted>>

\* The same batch after a commit that took effect: the job may have been sent meanwhile.
Recant(p) ==
  LET k == Cur(p) IN
  /\ At(p, "recant")
  /\ WriteNotSaved(k)
  /\ recanted' = IF job[k].state \in {"sending", "uncertain", "accepted"}
                 THEN [recanted EXCEPT ![k] = @ + 1] ELSE recanted
  /\ Done(p)
  /\ UNCHANGED <<world, events, payload, files, provider, acks>>

\* A D1 or R2 call of the try block fails without effect.  Failing after its effect is the
\* call followed by the failure of the next one; the commit has no next one (Commit).
SaveFails(p) ==
  /\ inv[p].pc \in SavingSteps \ {"catch"} /\ MayFail(p)
  /\ faults' = faults + 1
  /\ Goto(p, "catch")
  /\ UNCHANGED <<configured, job, email, events, payload, files, provider, acks, recanted>>

-----------------------------------------------------------------------------
(* setState, finalizeAccepted *)

Delay(attempts) == IF attempts <= 1 THEN FirstDelay ELSE MaxDelay

\* Wrong on purpose: the guard on accepted jobs is missing.
SetAnyState(k, r, state) ==
  /\ job' = [job EXCEPT ![k] = [@ EXCEPT !.state = state, !.lease = Past,
                                         !.wait = Delay(r.attempts)]]
  /\ email' = IF r.linked /\ email[k].status \in Unsettled
              THEN [email EXCEPT ![k].status = IF state = "retry" THEN "pending" ELSE state]
              ELSE email

SetState(k, r, state) ==
  /\ job' = IF job[k].state = "accepted" THEN job
            ELSE [job EXCEPT ![k] = [@ EXCEPT !.state = state, !.lease = Past,
                                              !.wait = Delay(r.attempts)]]
  /\ email' = IF r.linked /\ email[k].status \in Unsettled
              THEN [email EXCEPT ![k].status = IF state = "retry" THEN "pending" ELSE state]
              ELSE email

\* Wrong on purpose: a report that came before the acceptance is ignored.
ReportedNothing(k, id) == "accepted"

\* outbound_delivery_events.status for a provider id, 'accepted' when there is none
Reported(k, id) ==
  LET rows == {e \in events : e.key = k /\ e.id = id}
  IN  IF rows = {} THEN "accepted" ELSE (CHOOSE e \in rows : TRUE).status

RepairSent(p) ==
  LET k == Cur(p) IN
  /\ At(p, "final")
  /\ email' = IF email[k].status = "none" THEN email
              ELSE [email EXCEPT ![k].id = Row(p).id,
                                 ![k].status = IF @ \in Unsettled
                                               THEN Reported(k, Row(p).id) ELSE @]
  /\ IF Row(p).bytes THEN Goto(p, "erase") ELSE Leave(p)
  /\ UNCHANGED <<world, job, events, payload, files, provider, acks, recanted>>

ErasePayload(p) ==
  /\ At(p, "erase")
  /\ payload' = [payload EXCEPT ![Cur(p)] = None]
  /\ Goto(p, "erased")
  /\ UNCHANGED <<world, job, email, events, files, provider, acks, recanted>>

NotePayloadErased(p) ==
  /\ At(p, "erased")
  /\ job' = [job EXCEPT ![Cur(p)].bytes = FALSE]
  /\ Leave(p)
  /\ UNCHANGED <<world, email, events, payload, files, provider, acks, recanted>>

-----------------------------------------------------------------------------
(* deliverOutboxJob *)

\* Wrong on purpose: off by one; jobs waiting for a retry are not due.
ExpiredLate(r) == r.kind = "resend" /\ r.age # None /\ r.age > Window
DuePending(r) == r.state = "pending" /\ r.wait = 0

Expired(r) == r.kind = "resend" /\ r.age # None /\ r.age >= Window
Due(r) == r.state \in {"pending", "retry"} /\ r.wait = 0

Read(p) ==
  LET r == job[Cur(p)] IN
  /\ At(p, "read")
  /\ \/ (~r.prepared \/ (r.state # "accepted" /\ ~Due(r))) /\ Leave(p)
     \/ /\ r.prepared /\ r.state = "accepted"
        /\ inv' = [inv EXCEPT ![p].pc = "final", ![p].seen[Cur(p)] = r]
     \/ r.prepared /\ Due(r) /\ r.kind # inv[p].agent /\ ToState(p, "refuse", r, "failed")
     \/ /\ r.prepared /\ Due(r) /\ r.kind = inv[p].agent /\ Expired(r)
        /\ ToState(p, "refuse", r, "uncertain")
     \/ r.prepared /\ Due(r) /\ r.kind = inv[p].agent /\ ~Expired(r) /\ Goto(p, "lease")
  /\ UNCHANGED <<world, job, email, events, payload, files, provider, acks, recanted>>

LeaseJob(p) ==
  LET k == Cur(p) IN
  /\ At(p, "lease")
  /\ IF Due(job[k])
     THEN /\ job' = [job EXCEPT ![k] = [@ EXCEPT !.state = "sending", !.lease = Lease,
                                                 !.attempts = job[k].attempts + 1]]
          /\ Goto(p, "reread")
     ELSE UNCHANGED job /\ Leave(p)
  /\ UNCHANGED <<world, email, events, payload, files, provider, acks, recanted>>

Reread(p) ==
  /\ At(p, "reread")
  /\ inv' = [inv EXCEPT ![p].pc = "fetch", ![p].seen[Cur(p)] = job[Cur(p)]]
  /\ UNCHANGED <<world, job, email, events, payload, files, provider, acks, recanted>>

Unreadable(p) ==
  ToState(p, "settle", Row(p), IF Row(p).attempts < MaxAttempts THEN "retry" ELSE "failed")

\* Wrong on purpose: the payload is erased as soon as it is read.
FetchOnce(p) ==
  LET k == Cur(p) IN
  /\ At(p, "fetch")
  /\ \/ /\ payload[k] # None
        /\ inv' = [inv EXCEPT ![p].pc = "begin", ![p].want = payload[k]]
        /\ payload' = [payload EXCEPT ![k] = None]
     \/ payload[k] = None /\ Unreadable(p) /\ UNCHANGED payload
  /\ UNCHANGED <<world, job, email, events, files, provider, acks, recanted>>

Fetch(p) ==
  LET k == Cur(p) IN
  /\ At(p, "fetch")
  /\ \/ /\ payload[k] # None
        /\ inv' = [inv EXCEPT ![p].pc = "begin", ![p].want = payload[k]]
        /\ UNCHANGED faults
     \/ payload[k] = None /\ Unreadable(p) /\ UNCHANGED faults
     \/ MayFail(p) /\ Unreadable(p) /\ faults' = faults + 1
  /\ UNCHANGED <<configured, job, email, events, payload, files, provider, acks, recanted>>

Begin(p) ==
  LET k == Cur(p) IN
  /\ At(p, "begin")
  /\ job' = [job EXCEPT ![k].age = IF @ = None THEN 0 ELSE @]
  /\ email' = IF email[k].status = "none" THEN email ELSE [email EXCEPT ![k].status = "sending"]
  /\ Goto(p, "send")
  /\ UNCHANGED <<world, events, payload, files, provider, acks, recanted>>

\* Wrong on purpose: an unknown outcome counts as a rejection; a status of the Sent row ends
\* up in the job.
FailureStateHopeful(kind, reply, attempts) ==
  IF reply = "limited" /\ attempts < MaxAttempts THEN "retry" ELSE "failed"
FailureStateMixedUp(kind, reply, attempts) ==
  IF reply = "limited" /\ attempts < MaxAttempts THEN "delayed" ELSE "failed"

FailureState(kind, reply, attempts) ==
  CASE reply = "rejected" -> "failed"
    [] reply = "limited" /\ attempts < MaxAttempts -> "retry"
    [] reply = "limited" /\ attempts >= MaxAttempts -> "failed"
    [] reply = "unknown" /\ kind = "resend" /\ attempts < MaxAttempts -> "retry"
    [] OTHER -> "uncertain"

\* What the provider does with a call: Resend answers a key it remembers with the first
\* message's id, Cloudflare has no keys.
Accept(p) ==
  LET k == Cur(p) IN
  IF inv[p].agent = "resend" /\ receipt[k] # None /\ receipt[k] < KeyTTL
  THEN UNCHANGED provider
  ELSE /\ copies' = [copies EXCEPT ![k] = @ + 1]
       /\ receipt' = IF inv[p].agent = "resend" THEN [receipt EXCEPT ![k] = 0] ELSE receipt
       /\ mailed' = [mailed EXCEPT ![k] = @ \cup {inv[p].want}]

Send(p) ==
  LET k == Cur(p)
      Fails(reply) == ToState(p, "settle", Row(p),
                              FailureState(inv[p].agent, reply, Row(p).attempts))
  IN
  /\ At(p, "send")
  /\ \/ /\ Accept(p)
        /\ \/ inv' = [inv EXCEPT ![p].pc = "record", ![p].want = None,
                                 ![p].seen[k] = [Row(p) EXCEPT !.id = copies'[k],
                                                               !.state = "accepted"]]
           \/ Fails("unknown")                                   \* the answer is lost
     \/ /\ \E reply \in {"rejected", "limited", "unknown"} : Fails(reply)
        /\ UNCHANGED provider
  /\ UNCHANGED <<world, job, email, events, payload, files, acks, recanted>>

SettleJob(p) ==
  /\ inv[p].pc \in {"refuse", "settle"}
  /\ SetState(Cur(p), Row(p), inv[p].verdict)
  /\ Leave(p)
  /\ UNCHANGED <<world, events, payload, files, provider, acks, recanted>>

Record(p) ==
  /\ At(p, "record")
  /\ job' = [job EXCEPT ![Cur(p)] = [@ EXCEPT !.state = "accepted", !.id = Row(p).id,
                                              !.lease = Past]]
  /\ Goto(p, "final")
  /\ UNCHANGED <<world, email, events, payload, files, provider, acks, recanted>>

-----------------------------------------------------------------------------
(* retryOutboxJob *)

StartRetry(p, k, confirm) ==
  /\ p \in Users
  /\ job[k].state # "none"
  /\ Start(p, [Idle EXCEPT !.pc = "recheck", !.cur = k,
                           !.agent = configured, !.flag = confirm])

Recheck(p) ==
  LET r == job[Cur(p)]
      risky == r.state = "uncertain" \/ Expired(r)
  IN
  /\ At(p, "recheck")
  /\ IF /\ r.prepared /\ r.kind = inv[p].agent
        /\ r.state \in {"failed", "uncertain", "retry"}
        /\ risky => inv[p].flag /\ acks[Cur(p)] < MaxAcks
     THEN inv' = [inv EXCEPT ![p].pc = "rearm", ![p].seen[Cur(p)] = r, ![p].flag = Expired(r)]
     ELSE Done(p)
  /\ UNCHANGED <<world, job, email, events, payload, files, provider, acks, recanted>>

\* The flag now is expiredKey.
Rearm(p) ==
  LET k == Cur(p) IN
  /\ At(p, "rearm")
  /\ IF job[k].state = Row(p).state
     THEN /\ job' = [job EXCEPT ![k] = [@ EXCEPT !.state = "pending", !.attempts = 0, !.wait = 0,
                                          !.age = IF inv[p].flag THEN None ELSE Row(p).age]]
          /\ acks' = IF Row(p).state = "uncertain" \/ inv[p].flag
                     THEN [acks EXCEPT ![k] = @ + 1] ELSE acks
     ELSE UNCHANGED <<job, acks>>
  /\ Deliver(p)
  /\ UNCHANGED <<world, email, events, payload, files, provider, recanted>>

-----------------------------------------------------------------------------
(* flushOutbox *)

Oldest(ks) == {k \in ks : \A j \in ks : job[k].rank <= job[j].rank}
\* Wrong on purpose: accepted jobs are never finished by the cron.
DueUnsent == {k \in Keys : Due(job[k])}
DueKeys ==
  {k \in Keys : \/ Due(job[k])
                \/ job[k].state = "accepted" /\ (job[k].bytes \/ email[k].status \in Unsettled)}
\* ORDER BY created_at LIMIT DueLimit
FirstDue == {k \in DueKeys : Cardinality({j \in DueKeys : job[j].rank < job[k].rank}) < DueLimit}

StartFlush(p) ==
  /\ p \in Crons
  /\ Start(p, [Idle EXCEPT !.pc = "sweep", !.flush = TRUE, !.agent = configured])

Sweep(p) ==
  /\ At(p, "sweep")
  /\ inv' = [inv EXCEPT ![p].pc = "expire", ![p].seen = job,
              ![p].todo = {k \in Keys : job[k].state \in {"sending", "preparing"}
                                        /\ job[k].lease < 0}]
  /\ UNCHANGED <<world, job, email, events, payload, files, provider, acks, recanted>>

\* Wrong on purpose: an interrupted send is retried whatever the provider.
SweepStateAnyKind(r) ==
  CASE r.state = "preparing" -> "failed"
    [] r.state = "sending" /\ ~Expired(r) /\ r.attempts < MaxAttempts -> "retry"
    [] OTHER -> "uncertain"

SweepState(r) ==
  CASE r.state = "preparing" -> "failed"
    [] /\ r.state = "sending" /\ r.kind = "resend" /\ r.age # None
       /\ ~Expired(r) /\ r.attempts < MaxAttempts -> "retry"
    [] OTHER -> "uncertain"

Expire(p) ==
  /\ At(p, "expire")
  /\ \E k \in Oldest(inv[p].todo) :
        /\ SetState(k, inv[p].seen[k], SweepState(inv[p].seen[k]))
        /\ inv' = [inv EXCEPT ![p].todo = @ \ {k}]
  /\ UNCHANGED <<world, events, payload, files, provider, acks, recanted>>

SelectDue(p) ==
  /\ At(p, "expire") /\ inv[p].todo = {}
  /\ inv' = [inv EXCEPT ![p].pc = "next", ![p].todo = FirstDue, ![p].seen = Blank]
  /\ UNCHANGED <<world, job, email, events, payload, files, provider, acks, recanted>>

NextDue(p) ==
  /\ At(p, "next")
  /\ \E k \in Oldest(inv[p].todo) :
        inv' = [inv EXCEPT ![p].pc = "read", ![p].cur = k, ![p].todo = @ \ {k}]
  /\ UNCHANGED <<world, job, email, events, payload, files, provider, acks, recanted>>

PurgeEvents(p) ==
  /\ At(p, "next") /\ inv[p].todo = {}
  /\ events' = {e \in events : e.age <= Retention}
  /\ Done(p)
  /\ UNCHANGED <<world, job, email, payload, files, provider, acks, recanted>>

-----------------------------------------------------------------------------
(* The environment *)

\* updateEmailStatusByProviderId: Resend reports on a message it accepted, in any order,
\* any number of times.
Webhook(k, n, status) ==
  /\ n \in 1..copies[k] /\ receipt[k] # None
  /\ events' = {e \in events : ~(e.key = k /\ e.id = n)}
                 \cup {[key |-> k, id |-> n, status |-> status, age |-> 0]}
  /\ email' = IF email[k].id = n THEN [email EXCEPT ![k].status = status] ELSE email
  /\ UNCHANGED <<world, job, payload, files, provider, acks, recanted, inv>>

\* The isolate dies or a D1 call outside a try fails; flushOutbox's loop catches the latter.
Abort(p) ==
  /\ ~At(p, "idle") /\ MayFail(p)
  /\ faults' = faults + 1
  /\ \/ Done(p)
     \/ inv[p].flush /\ inv[p].pc \in DeliverSteps /\ Leave(p)
  /\ UNCHANGED <<configured, job, email, events, payload, files, provider, acks, recanted>>

Redeploy ==
  /\ faults < MaxFaults
  /\ faults' = faults + 1
  /\ configured' \in Kinds \ {configured}
  /\ UNCHANGED <<job, email, events, payload, files, provider, acks, recanted, inv>>

OnTime(p) ==
  \/ At(p, "idle")
  \/ /\ inv[p].age < InvocationLimit
     /\ inv[p].pc \in EnqueueSteps => inv[p].age < PrepareLimit
     /\ inv[p].pc \notin Prompt

Older(age, limit) == IF age = None \/ age >= limit THEN age ELSE age + 1
Aged(r) == [r EXCEPT !.age = Older(@, Window),
                     !.wait = IF @ > 0 THEN @ - 1 ELSE 0,
                     !.lease = IF @ > Past THEN @ - 1 ELSE @]

Tick ==
  /\ \A p \in Procs : OnTime(p)
  /\ job' = [k \in Keys |-> Aged(job[k])]
  /\ receipt' = [k \in Keys |-> Older(receipt[k], KeyTTL)]
  /\ events' = {[e EXCEPT !.age = Older(@, Retention + 1)] : e \in events}
  /\ inv' = [p \in Procs |->
               IF At(p, "idle") THEN inv[p]
               ELSE [inv[p] EXCEPT !.age = @ + 1,
                                   !.seen = [k \in Keys |-> Aged(inv[p].seen[k])]]]
  /\ UNCHANGED <<world, email, payload, files, copies, mailed, acks, recanted>>

Saving(p) ==
  \/ Reserve(p) \/ Select(p) \/ Claim(p) \/ Put(p) \/ FindRow(p) \/ InsertRow(p)
  \/ Link(p) \/ StoreFiles(p) \/ Commit(p) \/ Catch(p) \/ Recant(p)
Delivering(p) ==
  \/ Read(p) \/ LeaseJob(p) \/ Reread(p) \/ Fetch(p) \/ Begin(p) \/ Send(p)
  \/ SettleJob(p) \/ Record(p) \/ RepairSent(p) \/ ErasePayload(p) \/ NotePayloadErased(p)
Retrying(p) == Recheck(p) \/ Rearm(p)
Flushing(p) == Sweep(p) \/ Expire(p) \/ SelectDue(p) \/ NextDue(p) \/ PurgeEvents(p)
Step(p) == Saving(p) \/ Delivering(p) \/ Retrying(p) \/ Flushing(p)

\* No invocation but p is at a step it takes at once.
Turn(p) == \A q \in Procs \ {p} : inv[q].pc \notin Prompt

Next ==
  \/ \E p \in Procs :
       /\ Turn(p)
       /\ \/ Step(p) \/ StartFlush(p) \/ SaveFails(p) \/ Abort(p)
          \/ \E k \in Keys : \/ \E c \in Contents : StartSend(p, k, c)
                             \/ \E confirm \in BOOLEAN : StartRetry(p, k, confirm)
  \/ \E k \in Keys, n \in 1..(1 + MaxAcks), s \in Events : Webhook(k, n, s)
  \/ Redeploy
  \/ Tick

Spec == Init /\ [][Next]_vars

\* An invocation that does not die runs on, the platform's clock advances and the cron
\* trigger comes again every minute.
Fairness ==
  /\ SF_vars(Tick)
  /\ \A p \in Procs : WF_vars(Step(p))
  /\ \A p \in Crons : WF_vars(StartFlush(p))
FairSpec == Spec /\ Fairness

-----------------------------------------------------------------------------
(* Properties *)

\* At most one copy leaves for the first attempt and one more for every acknowledgement of
\* the duplicate risk: crashes, zombies, retries and the cron never add one on their own.
\* Without a key (Cloudflare) one more may leave for a send that was reported as not saved
\* although its commit had taken effect.
NoUnacknowledgedDuplicate ==
  \A k \in Keys : copies[k] <= 1 + acks[k]
                               + (IF job[k].kind = "cloudflare" THEN recanted[k] ELSE 0)

\* What a recipient got is in the Sent folder: once the provider has a copy, the row and
\* its attachments are stored and show exactly the content that was sent.
SentFolderTellsTheTruth ==
  \A k \in Keys : copies[k] > 0 =>
    /\ email[k].status # "none" /\ k \in files
    /\ mailed[k] = {email[k].content}

\* A job that may still be delivered has its payload to deliver, unless it was sent and
\* then reported as not saved.
PayloadKept ==
  \A k \in Keys : job[k].prepared /\ job[k].state # "accepted" /\ recanted[k] = 0
                    => payload[k] = job[k].content

\* "failed" and "retry" are the states a user or the cron re-sends without a warning: for a
\* message sent without a key they hide a copy the provider has already made only when the
\* send was reported as not saved after it had begun, and then one for each such report.
SilentRetryIsSafe ==
  \A k \in Keys : /\ job[k].kind = "cloudflare"
                  /\ job[k].state \in {"pending", "retry", "failed"}
                  => copies[k] <= acks[k] + recanted[k]

\* The settled Sent row of a message sent once shows what Resend reported last, whether
\* the report came before or after the acceptance was recorded.
SentRowShowsReport ==
  \A e \in events : /\ copies[e.key] = 1 /\ email[e.key].id = e.id
                    /\ email[e.key].status \in Delivered
                    => email[e.key].status = e.status

\* Once Resend has reported that a message failed, the Sent row does not go back to
\* "accepted".
ReportedFailureStays ==
  [][\A k \in Keys : email[k].id # None /\ email[k].status = "failed"
                      => email'[k].status # "accepted"]_vars

\* The outbox implements the promise to the sender: a job is accepted only when the provider
\* has a copy, it stays accepted unless the send is reported as not saved, and every copy was
\* granted.
Promise == INSTANCE SendPromise
  WITH granted <- [k \in Keys |-> 1 + acks[k] + recanted[k]],
       closed <- [k \in Keys |-> job[k].state = "accepted"]
PromiseKept == Promise!Spec

\* A queued or interrupted job reaches a state that needs no recovery, even if its user
\* keeps re-arming it: the retry window closes.  (Cloudflare jobs have no window.)
Open(r) == r.kind = "resend" /\ r.state \in {"preparing", "pending", "retry", "sending"}
JobSettles ==
  \A k \in Keys : Open(job[k]) ~> job[k].state \in {"accepted", "failed", "uncertain"}

\* The Sent row of an accepted job is repaired and its payload erased, unless a report that
\* the message was not saved makes the job "failed" first.  Of a message that left twice the
\* row may keep the other copy's id.
AcceptedIsFinished ==
  \A k \in Keys : job[k].state = "accepted"
                    ~> \/ job[k].state = "failed" /\ recanted[k] > 0
                       \/ /\ email[k].status \in Delivered \cup {"failed"}
                          /\ copies[k] = 1 => email[k].id = job[k].id
                          /\ ~job[k].bytes /\ payload[k] = None

=============================================================================
