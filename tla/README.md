# Verification of QuickInbox

TLA+ models of the parts of QuickInbox whose correctness depends on what happens
*between* two awaits: the durable outbox, incoming mail, an account's credentials,
the mailbox, drafts, the calendar and the other queues, meetings, accounts,
follow-ups and chat. `*.tla` with `MC*.cfg` are checked by TLC, `*Proofs.tla` by
TLAPS. Paths below are relative to the repository's root; `server/` stands for
`src/lib/server/`.

* [The system](#the-system) and what can go wrong in it
* [What is modelled](#what-is-modelled), module by module
* [What TLC checks](#what-tlc-checks), with which bounds, fairness and assumptions
* [What TLAPS proves](#what-tlaps-proves), along which argument
* [What was found](#what-was-found)
* [What is not modelled](#what-is-not-modelled) and [the plan](#the-plan)

## The system

QuickInbox is one Cloudflare Worker (a SvelteKit application, `src/worker.ts`)
with a D1 database, an R2 bucket, a Durable Object for chat events, one mail
provider (Resend or Cloudflare Email), and a cron trigger every minute. A worker
has no memory of its own: every HTTP request, every incoming message and every
cron tick is an *invocation* that reads and writes D1 and R2 and calls the
provider, and any number of them run at the same time. D1 runs a statement, or a
batch of statements, atomically; nothing spans two awaits. An invocation may die
at any await (the isolate is evicted, a limit is hit), a call may fail, time out
or hang, and every client and provider repeats what was not answered.

So the hard behaviour is the same everywhere: a row is read, something slow
happens, and a row is written. What protects it is one of a few devices: a guard
in the UPDATE's WHERE clause, a unique index, a lease, a revision number, an
idempotency key, or a step that is safe to repeat. The properties here ask
whether the device the code chose is enough.

| Component (source) | State | Operations | What makes it correct |
|---|---|---|---|
| **Durable outbox** (`server/durable-outbox.ts`, `outbox.ts`, `routes/api/outbox/[id]`) | `outbox_jobs`, the Sent rows of `emails`, `outbox/<id>.json` in R2 | enqueue, deliver, retry, flush (cron) | never a second copy without the sender's consent; never a copy that is not in Sent; every job settles; what was accepted is finished |
| **Incoming mail** (`routes/api/webhooks/resend`, `server/inbound.ts`, `cloudflare-inbound.ts`) | `webhook_events`, `emails`, `unrouted_emails` | claim an event, route, store, announce | nothing is lost, nothing is stored or announced twice |
| Routing (`server/domains.ts`) | `domains`, `addresses`, `unrouted_emails` | resolve, sync, create and remove addresses, catch-all | a message that arrives during a change still goes somewhere |
| Mail store (`server/mail-store.ts`, `mailbox.ts`) | `emails`, `mailbox_epoch` | insert, flag, move, delete, status updates, paging | reports in any order; pages do not skip; delete removes the R2 objects |
| Attachments (`server/attachments.ts`) | `attachments`, R2 | insert, serve, prune | all or none of a message's files; no orphans |
| Classification (`server/classify.ts`, `typesafe-classify.ts`) | columns of `emails`, `sender_rules` | judge, persist, correct | the judge's answer never overwrites the user's choice |
| Conversations (`server/threads.ts`) | `thread_id` | resolve, merge | concurrent arrivals end up in one conversation |
| Drafts (`server/drafts.ts`) | `drafts`, `draft-body/…` in R2 | save, load, delete | a stale tab never replaces a newer text; the row never points at a deleted object |
| Cleanup, undo, snooze (`server/mail-cleanup.ts`) | revision of a move | apply, undo | undo restores only what nobody touched since |
| Calendar, reminders, notices (`server/calendar*.ts`) | `calendar_*`, leases | edit, remind, hand over to the outbox | a notice is handed over once, and eventually |
| Vacation replies (`server/vacation.ts`) | `vacation_*`, leases | queue, hand over | one reply per correspondent and period |
| Subscriptions (`server/calendar-subscriptions.ts`) | feed rows, leases | refresh | only the holder of the lease writes |
| Sessions, passwords, pairing (`server/auth.ts`, `accounts.ts`, `credential-authorization.ts`) | `sessions`, `users`, codes | log in, reset, pair, administer | a reset ends what it promises to end; a code is used once; one administrator remains |
| Two-factor (`server/mfa.ts`, `totp.ts`) | factors, challenges | enrol, prove, recover | a proof counts once and loses against a reset in flight |
| OAuth, API tokens, MCP (`server/oauth.ts`, `api-tokens.ts`, `mcp.ts`) | clients, codes, grants, token families | authorise, exchange, refresh, revoke | one live successor per refresh token; a replay revokes |
| Chat (`server/chat*.ts`, `lib/chat/ChatWorkspace.svelte`) | messages, read positions, the history a tab shows | post, read, load, fan out | idempotent by message id; a tab's history has no holes |
| Follow-ups (`server/tasks.ts`, triggers of `migrations/0031_productivity.sql`) | `mail_tasks` | save, delete, remind, dismiss | a reply clears the follow-ups of its conversation |
| Meetings (`server/meetings.ts`) | meetings, provider rooms | create, join, end | an ended meeting has no open room and releases no token |
| Notifications (`server/push-notifications.ts`, `telegram-notify.ts`) | subscriptions | send, prune | once per message |
| Import, export, contacts, labels, settings, maintenance, CLI, web client | rows of one user | edit, list | no behaviour beyond single statements |

How they interact: the composer, the REST API, MCP, vacation replies and
calendar notices all call `enqueueOutbound`; the first three deliver in the same
invocation, the others leave it to the cron. The provider's webhook writes
delivery reports into the same Sent rows that the outbox writes. Incoming mail
calls routing, conversations, the mail store, attachments and then, in the
background, classification and notifications; vacation replies start from there.
Credentials guard every entry. Deleting an account races the mail that arrives for
it; a reply that is stored clears follow-ups by a trigger of the same statement. `PROJECT.json` lists every component, the modules
that cover it, and every hazard with its line.

## What is modelled

| Module | What it is |
|---|---|
| `Outbox` | the durable outbox, statement by statement |
| `SendPromise` | what the outbox promises the sender, without saying how; `Outbox` implements it |
| `MCOutbox` | instance for TLC: model values, symmetry, crash points |
| `OutboxProofs` | type correctness of `Outbox`, for every value of the constants |
| `OutboxSentProofs` | the Sent folder tells the truth and its status is the last report, for every value of the constants |
| `OutboxPromiseProofs` | no copy too many, a silent retry is safe, payloads are kept, and `Outbox` implements `SendPromise`, under named timing hypotheses |
| `Inbound` | incoming mail on both providers, await by await |
| `MCInbound` | instance for TLC |
| `InboundProofs` | type correctness, the two conditions under which mail is duplicated or lost, and that no record is announced twice |
| `Credentials` | one account: sessions, passwords, pairing, the second factor, API tokens, OAuth codes and grants |
| `AccessPromise` | what an account promises its owner, without saying how; `Credentials` implements it |
| `MCCredentials`, `CredentialsProofs` | its instance, and a theorem for each of its properties |
| `Mailbox` | one conversation: arrival, classification, list actions, their retries and undos, snooze |
| `MCMailbox`, `MailboxProofs` | its instance, and its theorems |
| `Drafts` | one draft, its snapshots, the tabs that edit it and the requests that save it |
| `Calendar` | one event: edits, the notices they owe, the reminder |
| `Feeds` | one subscribed calendar and its lease |
| `Vacation` | replies to one correspondent |
| `Meetings` | one meeting and its room at the calling service |
| `Accounts` | the users of an instance, their administrators, and mail that arrives for a user who is deleted |
| `Tasks` | the follow-ups of one conversation |
| `Chat` | one conversation and a tab that loads it |
| `MCWorkspace` | the eight modules above side by side, for TLC |
| `WorkspaceProofs` | theorems about `Calendar`, `Feeds`, `Vacation`, `Meetings` and `Accounts`, and about `MCWorkspace` as a whole |
| `TabProofs` | theorems about `Drafts`, `Tasks` and `Chat` |

**An await is an action.** A handler is cut at its awaits and nowhere else: what
the code does between two of them, a statement or a batch included, is one step,
and other invocations act in between. `inv[p]` (in `Inbound`, `run[h]`) is one
running invocation: its program counter and the locals it carries over an await,
notably `seen`, the rows it read earlier and still believes.

### Outbox

A member of `Keys` stands for a (user, Idempotency-Key) pair and thereby for the
job's id and the id of its Sent row, which the code makes equal. Contents are what
`fingerprint()` tells apart.

| Code | Actions |
|---|---|
| `enqueueOutbound` (l. 47-110) | `Reserve`, `Select`, `Claim`, `Put`, `FindRow`, `InsertRow`, `Link`, `StoreFiles`, `Commit`; its catch block's batch is `WriteNotSaved`: `Catch`, reached by `SaveFails` or by the primary key, and `Recant`, reached by a `Commit` that took effect and whose answer was lost |
| `failureState` (l. 112-124) | `FailureState` |
| `setState` (l. 126-137) | `SetState`, called from `SettleJob` and `Expire` |
| `finalizeAccepted` (l. 139-150) | `RepairSent`, `ErasePayload`, `NotePayloadErased` |
| `deliverOutboxJob` (l. 153-202) | `Read`, `LeaseJob`, `Reread`, `Fetch`, `Begin`, `Send`, `SettleJob`, `Record` |
| `retryOutboxJob` (l. 204-218) | `StartRetry`, `Recheck`, `Rearm` |
| `flushOutbox` (l. 220-245) | `StartFlush`, `Sweep`, `Expire`, `SelectDue`, `NextDue`, `PurgeEvents` |
| the provider | `Accept` (within `Send`), `Webhook` |
| the platform | `Abort`, `Redeploy` (another `MAIL_PROVIDER`), `Tick` |

`recanted` is a history variable: how often `Recant` wrote `failed` over a job whose sending had begun.

Time is kept as ages and remainders that `Tick` moves and that stop where no
comparison of the code can change any more, so time is unbounded and the state
space finite. One tick is coarse: the instances only keep the *order* of the
code's limits (lease < retry window < Resend's memory of a key).

### Inbound

A delivery is what the provider repeats until it is answered with a success: the
webhook event of a message on Resend, one SMTP transaction per envelope recipient
on Cloudflare. `post` is the provider's view of it. `Claim` and `Release` are the
webhook route's use of `webhook_events`; `Exists`, `Fetch`, `ExactRoute`,
`CatchallRoute`, `RecordUnrouted`, `AnnounceUnrouted`, `Insert`, `Unarchive`,
`Attach`, `ClassifyThenNotify` are the awaits of `handleInboundEmail` and
`handleCloudflareInbound`; `Fails` is a call that throws, also the claim's, whose INSERT may take
effect all the same and which is outside the route's `try`, and `Dies` is an isolate that ends. Addresses and the catch-all owner change at any time (`ChangeAddresses`,
`SetCatchall`). `interrupted` and `overlapped` are history variables: no action
reads them.

### Credentials

A request first reads (the session, the password hash, the factor, a code or a grant)
and later runs one batch whose WHERE clauses repeat what it read; between the two
anything may happen to the account. Passwords, sessions, enrolments and recovery codes
are numbers in the order they were made, so *issued before* is a comparison. A TOTP code
is its time step, an OAuth family the sequence of its grants.

| Code | Actions |
|---|---|
| `login` (`auth.ts`) with `mfaProof` (`mfa.ts`) | `BeginLogin`, `LoginMfa`, then `IssueSession` or `ProveLogin` |
| `setUserPassword`, `completeFirstLogin` | `ResetPassword`; `ReadTemporary`, `CompleteSetup` |
| `hooks.server.ts`, `revokeSession` | `Authenticate`, `EndSession` |
| `startMfaEnrollment`, `enableMfa`, `changeMfa` | `ConfirmActor`, `StartEnrollment`, `ReadEnrollment`, `EnableMfa`, `ReadFactor`, `Disable`, `Regenerate` |
| pairing codes and API tokens | `MintTicket`, `RedeemPairing`, `DropTicket` |
| `oauth.ts` | `Approve`, `ReadCode`, `IssueGrant`, `ReadGrant`, `Rotate`, `ReadToken`, `RevokeFamily`, `Disconnect` |
| time | `ExpireCode`, `ExpireGrant`, `ExpireEnrollment` |

### Mailbox

`job[m]` is the invocation that receives a message: `Resolve` (it looks for its conversation),
`Insert` with the trigger of `migrations/0027_mail_workflows.sql`, `Unarchive`, then
`classifyStoredEmail` as `ReadRow`, `ReadContext`, `Judge` and `Persist`. `hand[h]` is a request
of the user: `AskCleanup`, `Lookup` and `Apply` are `cleanupMail` with its request id;
`AskUndo` and `Undo` are `undoCleanup`; `AskFlags`, `SetFlags` and `Remember` are the other
list actions; `AskEmpty` and `Destroy` are `emptyTrash`. `Wake` is the cron's `wakeSnoozedMail`.
`rev` is `cleanup_revision`.

### The workspace

* `Drafts`. A tab (`tab`) mints a save id per attempt and repeats it until it is answered (`Saving`,
  `Send`, `Lose`, `Answer`); `persistDraft` is `Read`, `Put`, `Commit`, `Recheck`, `Drop`, `Clean`;
  `readSavedDraft` is `OpenRow`, `OpenSnapshot`; deletion is `Discard`, `ReadKey`, `DeleteRow`,
  `DeleteObject` from the composer and `DeleteFromList`, `FindKey`, `PurgeSnapshot`,
  `RemoveRow` from a list.
* `Calendar`. `BeginEdit` and `Persist` are `saveCalendarEvent`: `Persist` is its batch, whose
  statements all depend on the version the edit read. `flushCalendarNotices` is `ReadNotice`,
  `ClaimNotice`, `Enqueue`, `Report`; `sendCalendarReminders` is `ReadReminder`,
  `ClaimReminder`; `actOnReminder` is `Dismiss`, `Snooze`.
* `Feeds`. `refreshSubscriptions` is `ListFeed`, `ClaimFeed`, `Fetch`, then `StoreFeed` or
  `FailFeed`. The remote calendar is the number of its state (`Publish`).
* `Vacation`. `processVacation` is `ListLetter`, `Decide` (one batch: the reply's row and the mark
  on the message), `ListReply`, `ClaimReply`, `EnqueueReply`, `ReportReply`. `Refile` moves a message to
  spam or the trash and back; `DeleteLetter` deletes it for good, and its reply's row with it (the foreign key cascades). Of
  such a row the window stays as history, and `again` marks a reply that was decided after one of its window went so.
* `Meetings`. `createMeeting` is `InsertMeeting`, `PostRoom`, `RecordRoom` and, when that fails,
  `Salvage`, `Deactivate`, `EndFailed`; `joinMeeting` is `Visit`, `Admit`, `Participant`,
  `RecheckJoin`, `AnswerJoin`; `endMeeting` and `closeExpiredMeetings` are `AskEnd`,
  `ListOver`, `EndMeeting`, `Patch`, `Kick`, `Clear`.
* `Accounts`. `bootstrapAdmin` is `AskSetup`, `Count`, `Bootstrap`; a new user is `AskCreate`,
  `Create`, `Address` or `Rollback`; `setUserAdmin` is `AskRole`, `Promote`, `Demote`; `deleteUser` is
  `AskDelete`, `DeleteUser`, `Purge`. A message for the user is `StoreMail`,
  `PutObject`, `Attach`. `stray` are the objects whose deletion was rejected and logged, `leaked` those that
  `WorkerDies` leaves: an invocation that ends before the answers are in logs nothing.
* `Tasks`. `saveTask` is `ReadTask`, `ReadMessage`, `ReadReplies`, `WriteTask`; the triggers that look
  at replies when a task is made and when a reply is stored are parts of `CreateTask` and
  `Reply`.
* `Chat`. `refreshRoom` is `AskNew` or `AskOlder`, `ServeLoad` (`listMessages` on the server), `TakeAnswer`
  with `Merge`; `readVisible` is part of it and of `Look`; `MarkRead` is the PATCH it sends. Selecting the
  conversation again (`Select`) makes what is under way stale.

In all of them an invocation can end at any await (`CallDies`, `CronDies`, ...), a lease can run out at any
time (`LeaseEnds`, ...), and a step that needs the outbox calls it under the key of its row: the sets
`jobs` and `handed` hold the keys the outbox knows, because `enqueueOutbound` makes one job per
key, which `Outbox` is about.

## What TLC checks

| Run | Expected | Question | Instance |
|---|---|---|---|
| `outbox_resend` | holds | is every copy licensed when idempotency keys and the 23-hour window do the work, even if saving outlives its lease? | 1 key, 1 sender, 1 cron, 1 fault, 1 acknowledgement |
| `outbox_cloudflare` | holds | the same without idempotency keys; does Sent show what was sent; is the payload kept while it may be needed; is a silent retry safe; does `Outbox` implement `SendPromise`? | 1 key, 2 contents, 2 invocations that may send, retry or flush, 1 fault, 1 acknowledgement |
| `outbox_live` | holds | does every Resend job settle and every accepted job get finished, through crashes and a change of provider, and does the Sent row show the last report? | both providers, 1 sender, 1 cron, 1 fault |
| `outbox_overrun` | violated | can a save that outlives its lease reopen a delivered job? | 2 senders |
| `outbox_stale_sweep` | violated | can the cron fail a job that has been taken over since it looked? | 2 users, 1 cron, 1 crash |
| `outbox_purged` | violated | does a reported failure stay? | 1 sender, 1 cron, reports |
| `inbound` | holds | what is lost or stored twice, and when; is everything announced once; does every message arrive? | 1 message, 2 recipients, 2 invocations, both providers, 2 faults |
| `credentials` | holds | does a reset, a disconnect, a replay or a change of the second factor end all it should, whatever is under way; does a proof count once; does `Credentials` implement `AccessPromise`? | 1 account, 2 requests, 1 client with 1 code, 1 password change, 3 sessions, 1 enrolment, 2 recovery codes, 3 rows a family (two rotations of it), 2 time steps |
| `mailbox` | holds | what can an undo touch; when is the user's choice of a category or a conversation lost? | 2 messages, 1 action that is retried or undone, 2 requests at a time, 2 in all |
| `workspace` | holds | one or two properties of each of its eight parts, see below | 2 tabs, requests or crons in each part, 3 users, 2 letters, 2 saves, 3 edits, 1 follow-up, 3 chat messages in pages of 1 |
| `inbound_loss` | violated | is every message kept that the provider was told is received? | 1 message, 2 invocations, Resend |
| `inbound_twice` | violated | is every message stored once? | 1 message, 2 recipients, 2 invocations, Cloudflare, no fault |

The properties, and what would break them:

* `NoUnacknowledgedDuplicate` relates the provider's copies to the sender's
  acknowledgements. It takes a crash after the acceptance, a lost answer, a zombie
  or an expired idempotency key, and then a retry, to violate it.
* `SentFolderTellsTheTruth`: once a copy left, row and attachments are there and
  show exactly the content that left, with two requests of different content under
  one key.
* `PayloadKept`, `SilentRetryIsSafe`: what may be re-sent can be re-sent, and what
  is re-sent without a warning has not left before.
* `PromiseKept`: refinement of `SendPromise`; also says that an accepted job is
  reopened only by a report that it was not saved.
* These four and the liveness of the outbox except a send that the catch block of `enqueueOutbound` reports as
  not saved although its commit took effect (`recanted`, see [below](#seen-while-modelling-and-kept-by-the-properties-as-exceptions)): on Cloudflare
  each such report licenses one more copy and no second one; Resend's key absorbs it.
* `SentRowShowsReport`: reports and acceptance are recorded in either order.
* `JobSettles`, `AcceptedIsFinished`: liveness, from any interruption.
* `LossNeedsInterruption`, `DuplicateNeedsOverlap`: the weakest that can be said of
  incoming mail after the two findings, and strong: a failing call loses mail only if it is the claim or
  its release and leaves the claim behind, and Resend never stores twice.
* `AnnouncedOnce`, `MailArrives`: per record at most one notification; and nothing
  stays undelivered for good.
* `ResetEndsAll`: after a change of the password no session, ticket, code or grant is live that was
  asked for under the old one, also when the request that makes it read the account before. `OneLiveGrant`: rotation and replay side by side leave one successor
  or none. `SecondFactorIsExclusive`: while it is on, no unverified session, no external credential,
  no enrolment. `ProofsCountOnce`: two logins with one code. `AccessKept`: refinement of `AccessPromise`, so also an account
  of every step: a session costs the present password and, with the second factor on, a fresh proof; the password and the factor
  change only together with the end of everything; a family of grants goes from `none` over `issued` and `live` to
  `over` and never back. A family that was revoked is `over` at once, so `EndedStaysEnded`, which is proved as well, follows from it.
* `UndoTakesBackOnlyItsOwn`: an action property over the history of moves; it takes a list action, a later move of
  the same message by somebody else that does not count its revision up, and an undo. `ChoiceLostOnlyInFlight` is the strongest that holds
  of the judge (see below), `SplitNeedsOverlap` of conversations.
* `NothingOverwrittenUnseen`, `RevisionNamesContent`, `DanglingNeedsDiscard`: two tabs, saves that are
  repeated after their answer was lost, and snapshots that are deleted after a newer row was written.
* `NoticesMatchEdits`: owed notices and accepted edits are the same set. `ReminderOnce`,
  `DismissedStaysQuiet`: overlapping crons, and the user between the list and the claim.
  `FeedNeverGoesBack`: a refresh that outlived its lease. `OneReplyPerWindow`: several messages, several
  crons, replies repeated after a crash, messages deleted between their reply and the next.
* `NoTokenAfterEnd`, `OpenRoomOnRecord`: ending against joining and against creating.
* `LastAdminKept`, `PurgeIsExact`: administrators who remove each other, and mail that arrives during a deletion
  whose objects are deleted, about to be, logged, or left by an invocation that ended.
* `WaitingHasNoReply`: a save that looked for replies too early is caught by the version or the trigger, unless
  it opens a task that was closed. `ShownWithoutHoles`: answers merged out of order.

### Bounds

All bounds are constants of the modules.

* *One key.* Jobs of different keys share only the `LIMIT`s of the cron's queries
  and the cron's loop; `JobSettles` for many keys (starvation behind old rows) is
  therefore not covered (hazard at l. 235). The theorems hold for any number of
  keys.
* *Two or three invocations.* The conflicts are pairwise (reader against writer of one
  row); the third is the user's retry.
* *One fault* (`MaxFaults`) in the outbox, two for incoming mail: a crash, and
  a failing call for its recovery.
* *`MaxAttempts = 2`* instead of 5: one automatic retry, and the attempt that
  exhausts them. `FirstDelay` and `MaxDelay` are 1; the doubling between is left out.
* *`Lease = 0`, `Window = 1`, `KeyTTL = 2`* ticks: a lease that lapses at the next tick,
  a window that closes later, and a key that is forgotten later still.
  `InvocationLimit = 1`: an invocation may see one tick, so leases lapse and windows close
  under running invocations. `PrepareLimit` bounds the time spent in
  `enqueueOutbound` apart.
* *The workspace, one part at a time.* The eight parts share no variable and no table that both write, so a
  property of one is a property of any interleaving of all; `part` in `MCWorkspace` lets one of them
  move in a behaviour. Invocations are interchangeable, hence the symmetry. Accounts are
  checked with three users, so that two administrators can remove each other and leave a third; chat with pages of one message
  and three messages, so that a newest page can leave a hole.
* *Two requests* in `Credentials` and `Mailbox`: each conflict is one that reads and one that
  changes what was read. Two recovery codes are enough for a replay and its successor; three rows of a family
  let two rotations of one row race.
* *Timers of the new modules* are free: a lease, an expiry or a reminder may come at any moment, which
  covers every setting of the limits.
* *`CrashAt`* (`CrashPoints`): an invocation dies at one step of each stretch in which a
  crash leaves the same rows and objects behind. A call that fails *after* taking
  effect is the call followed by a failure at the next step. Two calls have no such next step and say it themselves: the
  commit of `enqueueOutbound`, the last call of its `try` (`Commit`, second way), and the claim of a webhook event, which stands
  before the `try` (`Fails`).

### Assumptions about timing that the passing runs make

Two races in the outbox are real, are reported below or listed as hazards, and
would hide everything else; the passing runs exclude those.

* `Prompt` names steps that no other invocation comes before once an invocation has
  reached them. `outbox_cloudflare` has `"expire"`: the cron's sweep and its updates are
  not separated; `outbox_stale_sweep` is the same question without it, and fails. It also has `"sweep"`, which only joins
  the start of a cron run, which reads nothing, to its first query.
  `outbox_resend` has `{"rearm"}`: a manual retry's check and its UPDATE are not separated.
  Without it `NoUnacknowledgedDuplicate` fails after 68 steps: two manual
  retries, of which the first, with the acknowledgement, restarts the window, and
  the second writes back the start it read before (the UPDATE at l. 214 compares the
  state only). `outbox_live` has `"expire"`, `"sweep"`, `"rearm"` and, for its size, `"reread"`: a delivery's lease and the
  read after it are not separated there (they are in the other runs).
* `PrepareLimit = 0` in `outbox_cloudflare`: saving ends within its lease. `outbox_overrun` is
  the same question without it, and fails. On Resend it may take longer
  (`PrepareLimit = 1` in `outbox_resend`) and nothing breaks, because the
  idempotency key absorbs the second delivery.

### Fairness

* `Outbox`: weak fairness of every invocation's steps (one that does not die runs on; a
  death is `Abort`), strong fairness of `Tick` (`Tick` is disabled while an
  invocation exceeds its allowance, and invocations do not last), weak fairness of
  `StartFlush` (the cron trigger). Nothing is assumed of users: nobody needs to retry,
  and a user who retries for ever does not keep a Resend job from settling, because its
  window closes. Cloudflare jobs have no window, so `JobSettles` is about Resend jobs.
* `Inbound`: weak fairness of the steps, strong fairness of a delivery's next attempt (both
  providers repeat what was not answered; that they stop after days is beyond the
  model). Strong, because the model's two invocations may be busy with other
  deliveries; the worker has no such limit.
* The other modules state safety only, and no fairness. Their crons are the same `flush` loops as the outbox's, with
  attempts that end in `failed`; what must eventually happen there (a notice is handed over) the outbox's
  liveness covers from the hand-over on, and before it nothing but the cron's next tick is needed.
  Their runs set `CHECK_DEADLOCK FALSE`: a user who has used up the bounds may stop.

## What TLAPS proves

All theorems are for every value of the constants, under the modules' assumptions only
(`OutboxAssumption`: `Keys` finite, kinds and events of the known sorts, `None` outside the
data, bounds natural numbers; `InboundAssumption`: at least one handler and one delivery;
the others' say that bounds are natural numbers and that the sets they start from are not empty).
No theorem depends on `CrashAt` or a bound on faults: crashes are unlimited. Only those of `OutboxPromiseProofs`
depend on `Prompt` or a time limit, by hypotheses that they name (see below); all others hold with overruns and stale
sweeps too.

| Theorem | Statement | Also checked by |
|---|---|---|
| `OutboxProofs!TypeInvariant`, `TypeCorrect` | `Spec => []TypeInv`, `Spec => []TypeOK` | `outbox_cloudflare` |
| `OutboxSentProofs!SentInvariant`, `SentFolderIsTrue` | `Spec => []IInv`, `Spec => []SentFolderTellsTheTruth` | `outbox_cloudflare` |
| `OutboxSentProofs!SentRowIsCurrent` | `Spec => []SentRowShowsReport` | `outbox_live` |
| `OutboxPromiseProofs!NoDuplicate` | `DuplicateTiming => (Spec => []NoUnacknowledgedDuplicate)` | `outbox_resend`, `outbox_cloudflare` |
| `OutboxPromiseProofs!SilentRetryIsSound` | `CloudflareTiming => (Spec => []SilentRetryIsSafe)` | `outbox_cloudflare` |
| `OutboxPromiseProofs!PayloadIsKept` | `SavesInTime => (Spec => []PayloadKept)` | `outbox_cloudflare` |
| `OutboxPromiseProofs!PromiseIsKept` | `PromiseTiming => (Spec => PromiseKept)`: `Outbox` implements `SendPromise` | `outbox_cloudflare` |
| `InboundProofs!TypeCorrect` | `Spec => []TypeOK` | `inbound` |
| `InboundProofs!DuplicatesOverlap` | `Spec => []DuplicateNeedsOverlap` | `inbound` |
| `InboundProofs!OnlyInterruptionsLose` | `Spec => []LossNeedsInterruption` | `inbound` |
| `InboundProofs!AnnouncedOnceOnly` | `Spec => []AnnouncedOnce` | `inbound` |
| `CredentialsProofs!ResetIsComplete` | `Spec => []ResetEndsAll` | `credentials` |
| `CredentialsProofs!SecondFactorHolds` | `Spec => []SecondFactorIsExclusive` | `credentials` |
| `CredentialsProofs!RotationIsExclusive` | `Spec => []OneLiveGrant` | `credentials` |
| `CredentialsProofs!RevokedForGood` | `Spec => []EndedStaysEnded` | |
| `CredentialsProofs!AccessIsKept` | `Spec => AccessKept`: `Credentials` implements `AccessPromise` | `credentials` |
| `CredentialsProofs!EveryProofOnce` | `Spec => []ProofsCountOnce` | `credentials` |
| `MailboxProofs!UndoIsExact` | `MailSpec => UndoTakesBackOnlyItsOwn` | `mailbox` |
| `MailboxProofs!ChoicesHold`, `ConversationsHold` | `MailSpec => ChoiceLostOnlyInFlight`, `MailSpec => []SplitNeedsOverlap` | `mailbox` |
| `MailboxProofs!AppliesOnce` | `MailSpec => []AppliedOnce`: a list action that is sent again moves nothing | |
| `TabProofs!NothingIsLost` | `DraftSpec => NothingOverwrittenUnseen` | `workspace` |
| `TabProofs!RevisionsNameContent`, `SnapshotsOutliveRows` | `DraftSpec => []RevisionNamesContent`, `DraftSpec => []DanglingNeedsDiscard` | `workspace` |
| `TabProofs!RepliesClearFollowUps` | `TaskSpec => []WaitingHasNoReply` | `workspace` |
| `TabProofs!NoMessageIsSkipped` | `ChatSpec => []ShownWithoutHoles` | `workspace` |
| `WorkspaceProofs!PartsAreAlone`, `WorkspaceTypeCorrect` | `WorkspaceSpec => DraftSpec /\ ... /\ ChatSpec`, `WorkspaceSpec => []WorkspaceTypeOK` | `workspace` |
| `WorkspaceProofs!NoticesAreOwed` | `CalendarSpec => []NoticesMatchEdits` | `workspace` |
| `WorkspaceProofs!RemindersAreOnce`, `DismissalsHold` | `CalendarSpec => []ReminderOnce`, `CalendarSpec => DismissedStaysQuiet` | `workspace` |
| `WorkspaceProofs!FeedsGoForward`, `RepliesAreRare` | `FeedSpec => FeedNeverGoesBack`, `VacationSpec => []OneReplyPerWindow` | `workspace` |
| `WorkspaceProofs!EndIsFinal`, `RoomsAreClosed` | `MeetingSpec => []NoTokenAfterEnd`, `MeetingSpec => []OpenRoomOnRecord` | `workspace` |
| `WorkspaceProofs!AdministratorsRemain`, `PurgesAreExact` | `AccountSpec => []LastAdminKept`, `AccountSpec => []PurgeIsExact` | `workspace` |

Each of these modules also has a theorem `...TypeCorrect` for its type invariant.

**Types of the outbox.** `TypeOK` alone is not inductive: a step that works on a job needs its
invocation to have a current key, and `SettleJob` needs a verdict that `setState` is called
with. `TypeInv` adds both (`Located`). The proof has one step per action; lemmas say what each
way of moving an invocation (`Goto`, `Deliver`, `Leave`, `ToState`) keeps.

**The Sent folder.** That the stored row shows what the provider was given follows from facts
spread over the whole system: the content reserved for a key never changes, every later saver
passed the fingerprint check against it, the payload object holds nothing else, `prepared` is set
only after row and attachments exist, and nothing reaches the provider before `prepared`.
`KeyInv` says this of each key, `ProcInv` says what an invocation may rely on at each of its
steps, and `Kept` what no step takes back, so that an invocation's reliance survives the steps
of all others (lemma `Relied`). Then `IInv => SentFolderTellsTheTruth`.

**The Sent row's status.** `ReportInv`: an answer, whether an invocation still carries it (`AnswersKnown`), the job
records it (`JobsKnown`) or the row shows it (`RowsKnown`), has the id of a copy the provider made, a row shows a delivery only
with its id, and reports on one copy agree (`ReportsKnown`). So with one copy a report that misses the row names the only
id the row can get, and `finalizeAccepted`, which writes the id, reads it in the same statement. That an answer to a
remembered key has an id at all needs that the provider remembers no key without a copy (`KeysRemembered`).

**The promise to the sender.** It is not unconditional: `outbox_overrun` and `outbox_stale_sweep` show what breaks it. The
theorems therefore name what the code relies on and does not enforce:

| Hypothesis | Says | In the code |
|---|---|---|
| `SavesInTime` | `PrepareLimit <= Lease /\ "expire" \in Prompt` | `enqueueOutbound` ends within its five-minute lease (`LEASE_MS`), and the cron's update of a lapsed row follows the query that listed it (l. 222-229) |
| `ResendTiming` | `0 < Window /\ Window + InvocationLimit <= KeyTTL /\ "rearm" \in Prompt` | Resend remembers a key for 24 hours, an attempt starts within 23 (`RETRY_WINDOW_MS`) and a worker lives for minutes; `retryOutboxJob` writes back what it has just read (l. 208-214) |
| `CloudflareTiming` | `SavesInTime /\ ("refuse" \in Prompt \/ "resend" \notin Kinds)` | an attempt that finds its job made for another provider writes `failed` at once (l. 158-161) |

`DuplicateTiming` asks of each provider in `Kinds` what it needs, `PromiseTiming` adds `SavesInTime`. The instances satisfy
them: `outbox_cloudflare` has `Lease = PrepareLimit = 0` and only Cloudflare, `outbox_resend` has `Window = InvocationLimit = 1` and
`KeyTTL = 2`. `outbox_resend` has no `SavesInTime`, and `NoDuplicate` needs none there.

*Saving* (`SaveInv`): a saver's lease is what is left of the full lease since it reserved the job, so it has not run out, and nobody else
takes over, sweeps or commits its job; what it stored is the payload it carries. From this `PayloadKept`, and that an accepted
job stays accepted (`StaysClosed`), both as long as `recanted` is not counted up.
*Resend* (`ReceiptInv`): once every copy granted has left, the key is no older than the job's first attempt (`KeyReceipt`), and an
attempt that could make one more started while the key was known, so it finds it (`ProcReceipt`, `Remembered`).
*Cloudflare* (`BudgetInv`): a count. Copies made, and invocations that may still make one or are about to write that they made
none (`Spending`), are at most `acks`, `recanted`, and one more while the state admits that a copy may have left (`Allow`). `Recant` moves a job out
of such a state and counts `recanted` up by the one it takes away. An attempt
gets its share by the lease, which moves the state to `sending`; it gives it back when it writes `failed` or `retry`. Silent retry is safe because
`pending`, `retry` and `failed` allow nothing.
*Refinement*: a step that changes neither `copies` nor `acks` nor `recanted` nor closes a job is a stutter of `SendPromise` (`PromiseRests`), a
transmission is granted by `NoUnacknowledgedDuplicate` after the step (`PromiseSend`), recording an acceptance has a copy by
`ReportInv` (`PromiseRecord`), a re-armed job was not closed (`PromiseRearm`), and `Recant` is a stutter or `Disclaim`.

**The parts together.** `MCWorkspace` lets one part move and the others stutter, so each part's specification holds of the
whole (`PartsAreAlone`) and so does every theorem about it.

**Duplicates of incoming mail.** A message is *exclusive* if it is on Resend or its attempts never
overlapped. `AloneInv`: an exclusive message has one attempt at work (`Alone`; on Resend because the event
is one per message and the claim is held from `Claim` to the end: `OneEvent`, `HoldsClaim`), an attempt at
a step before its insert has found no row (`Fresh`), hence at most one row (`OnceIfExclusive`).

**Loss of incoming mail.** `LossInv`: the provider waits for exactly the attempts that are heard (`Waits`,
`Heeded`), a claim that is not followed by a kept message has an attempt that serves it, unless the
message was interrupted (`Serves`; a claim or a release that throws and leaves the claim counts), and an attempt past its store has kept the message (`Stage`). So an
acceptance without a kept message needs an interruption, and only the claim can turn a redelivery away.

**Announcements.** `AnnounceInv`: what was announced of a message and the attempts that still owe an announcement
together never exceed its records. An attempt owes one only after its own insert made the record, and
announcing or dying pays it off, so redeliveries and overlapping attempts add none. Attempts are counted by the
cardinality of the set of those that owe (`Owing`).

**Credentials.** `AccountInv` adds to `ResetEndsAll` and `SecondFactorIsExclusive` that a temporary password goes with no
enrolment (`TemporaryAlone`): the first login changes the password and leaves `mfa_enrollments` alone, and only
this says that nothing is there to leave. `FamilyInv`: a family's rows descend from an exchanged code, which is
never issued again, so what a request took for a family stays one (`FromCodes`). `ProofInv`: a proof that
counted is of an enrolment that is over, at or below `last_used_step`, or a recovery code that is gone.

*Refinement*: `Credentials` hides how a family is kept. `Family` reads it off the code and its rows: `issued` while the code waits,
`live` with a live row, `over` when the code is gone and no row lives. Requests under way, revision columns, recovery codes
and enrolments are not part of the promise, so every read is a stutter (lemmas `...Promises`). A batch is a step of the promise
for three reasons: what it gives out rests on the present password (`AccountInv`: also a pairing code's session, which takes the password
the code was made under); a proof that counts now is a new one (`ProofsCountOnce` of the next state); and a rotation leaves
its family live, an expiry of the one live row ends it (`FamilyInv`).

**Mailbox.** `MailInv` ties each item of an action to its row: equal revisions mean that the action moved it last,
from the place the item names, and that the row is as the action left it, but for the columns it writes (`Describes`, `Fits`). An undo
restores only those columns, so this is what makes it land where the action started. `Careful` says that a
judgement nobody has overtaken is about messages the user has not filed.

**Drafts.** `DraftInv`: copies of one save agree on the revision they were made for, whoever carries them (`Agreed`), and until the
draft is deleted a copy that still carries the row's revision was made over the row's save (`Was`,
`Undiscarded`). The snapshot of an older save is deleted only by who moved the row past it (`Attends`).

**Calendar, feeds, vacation.** The notices in any state but `none` are those of the saved edits, and an edit under way is not
saved yet and has a number of its own (`EditInv`); versions count the saved edits, so two of them cannot win over the same
version. A working refresh has a lease that no other has (`FeedInv`). Replies of one
window exclude each other from the moment they are rows, whatever becomes of them, but for those decided `again`
(`VacationInv`).

**Meetings and accounts.** Who was admitted after the end has the recheck before him (`MeetingInv`); a purge holds only keys of
attachments whose message is gone for good, so a late attachment cannot be taken for one of them (`Keys`, `Arrived`); somebody who is about
to be created was asked for by an administrator (`Administered`).

**Follow-ups.** `WaitingHasNoReply` rests on `Informed`: a request that read its task open finds it open or of a later
version, which its UPDATE refuses; and one that is to write without a reply is either right or overtaken. `Versioned` says
that a version is never met again after the row was deleted and made anew.

**Chat.** `ChatInv`: an answer is an interval next to a message that the tab shows (`Placed`), so merging it
keeps what is shown an interval. That a non-empty finite set of numbers has a maximum is proved by well-founded induction
over strict subsets (lemma `Extremes`), because `Max` of the library is a `CHOOSE`.

Every invariant and every action property that a passing run checks is stated by a theorem. **Only model-checked** are the liveness
properties. **Out of the
prover's reach:** liveness under fairness (`JobSettles`, `AcceptedIsFinished`, `MailArrives`), `ENABLED`, induction over
data, and `RECURSIVE` operators (the modules use none).

## What was found

1. **A slow save sends twice** (`outbox_overrun`, `durable-outbox.ts:90`). The last batch of `enqueueOutbound` does not
   check that the reservation is still its own. A save that outlives its lease puts a job that a second request has
   meanwhile delivered back to `pending`; on Cloudflare a second copy leaves.
2. **The cron fails a job that is being sent** (`outbox_stale_sweep`, `durable-outbox.ts:225`). The lapsed reservation is
   read by one statement and failed by another; in between, the composer's retry can take it over, commit it and
   start sending. The job then says "No delivery was attempted", and a retry needs no confirmation.
3. **A reported failure turns into "accepted"** (`outbox_purged`, `durable-outbox.ts:140`). `failed` counts as unsettled,
   so an accepted job whose message failed stays in the cron's query, and once the report is purged (30 days)
   there is nothing left to copy.
4. **A claim left behind loses a message on Resend** (`inbound_loss`, `webhooks/resend/+server.ts:49`). The event is claimed first and released
   in the catch block of a `try` that begins after the claim. A claim whose INSERT takes effect while its call throws (TLC's
   trace), an attempt that dies in between and a release that fails keep the claim; the redelivery is answered 200.
5. **Parallel deliveries store a message twice on Cloudflare** (`inbound_twice`, `cloudflare-inbound.ts:70`). The existence check and the
   insert are awaits apart, and no unique index backs them.

### Seen while modelling, and kept by the properties as exceptions

No run is devoted to these. The models have the steps, and the properties say exactly as much as
remains true.

* *A send that is denied* (`recanted`). The last batch of `enqueueOutbound` is in its `try`. When it takes effect and its answer
  is lost, the catch writes `failed` by id (`durable-outbox.ts:97`): "Message was not sent because it could not be fully saved." By then the job
  is the cron's, which may be sending it or have sent it. The job can be retried without a warning, on Cloudflare with a second
  copy; if it had been finished its payload is gone and the retry fails.
* *A reply twice in its days* (`OneReplyPerWindow`, `again`). The throttle looks for a row in `vacation_replies`
  (`vacation.ts:198`), and the row is deleted with the message it answers (`migrations/0031_productivity.sql:53`). A user who
  deletes an answered message for good lets its sender be answered again.
* *Objects nobody names* (`PurgeIsExact`, `leaked`). An account's objects are deleted after its rows (`auth.ts:668`), so
  an invocation that ends in between leaves them; only rejected deletions are logged.
* *A token at the last moment* (`NoTokenAfterEnd`). Who was admitted before the end and passed the recheck (`meetings.ts:271`) is given
  his token, though the meeting ends before the answer; the service is told to remove him.
* *The last administrator* (`LastAdminKept`, `undone`). `deletePendingUser` (`auth.ts:117`) takes back a new
  administrator whose mailbox could not be made, without asking whether another is left, while everybody else was
  removed meanwhile. The comment at `auth.ts:541` promises one always remains.
* *A draft that comes back* (`discarded`). A first save whose answer was lost and that is still under way when the
  draft is deleted makes the row anew; its revisions count from 1 again, and its snapshot may be gone
  (`drafts.ts:52`).
* *The judge against the user* (`ChoiceLostOnlyInFlight`, `during`). A category that the user chooses while a judgement
  is awaited is overwritten (`classify.ts:179`), the choice a new message inherits from its conversation included.
* *`failed` over `queued`*. A notice's or a reply's outcome is written by id alone (`calendar.ts:618`,
  `vacation.ts:242`), so a slow cron can mark as failed what another has handed over. The job is one all the
  same.
* *Emptying the trash* destroys a message that was restored after the list was read (`mail-store.ts:912`).
* *A snooze that is lost* (`DismissedStaysQuiet`, `crossed`). The claim of a reminder does not ask whether it was put off since it was
  listed (`calendar.ts:653`).
* *A refusal that comes too late* (`CloudflareTiming`). An attempt that read a due job of the other provider writes `failed` by id
  (`durable-outbox.ts:158`). If MAIL_PROVIDER was changed while an older invocation was about to take the same job, that one
  leases it and sends, the late `failed` overwrites `sending`, and if the sender then dies, a retry sends again without a
  warning once the provider is restored, as the error text asks. TLC finds it with both providers and two faults; the proof of `BudgetMoved` needs the hypothesis for exactly this step.
* *Two first setups at once* both become administrators (`auth.ts:129`).
* *A follow-up that keeps waiting* (`WaitingHasNoReply`, `reopened`). A closed follow-up that is opened again by a request that
  had looked for replies just before one came (`tasks.ts:76`). A reply does not raise the version of a task that
  is closed already.
* *A hole in a chat* (`ShownWithoutHoles`, `overlaid`). Two loads of the newest page that were both asked before anything was
  shown are merged; what lies between them is never asked for (`ChatWorkspace.svelte:131`).

## What is not modelled

In the outbox: deletion of accounts and of Sent mail, `mailbox_epoch`, operational events, error texts, the sweep's
`LIMIT 50`, request building and the providers' error codes beyond the three classes `failureState` tells apart.
In incoming mail: signatures and parsing, more than one catch-all domain. What
classification decides is a choice among its outcomes. In credentials: rate limits, scopes, PKCE, client registration and the
account switcher. In the mailbox: labels, read and starred flags, paging, search and the matching
of subjects and participants. In the calendar: recurrence, sharing, iCalendar and invitations. In chat: membership, and the sockets,
whose events are only hints to load. Contacts, the editing of labels and rules, import and export, settings and
maintenance are single statements or batch I/O of one client; the MCP tools call what is modelled. The rest of the web client, which is
most of the repository's lines, is presentation: its two parts with a protocol of their own, the draft saver and the
chat history, are modelled, and what the composer promises the outbox is `Outbox`'s `StartSend`. CLI and
setup scripts are deployment tooling. `PROJECT.json` says of every hazard that no property covers why that is so.

## The plan

1. Several delivery reports of one message in any order, and several keys in the cron's queries (starvation behind
   old rows, `durable-outbox.ts:235`).
2. Liveness of the hand-overs: with `SendPromise` in place of `jobs` and `handed`, every owed notice and reply settles.
3. Rate limits, invitations to meetings and chats, and the synchronisation of domains.

## Running

```
tlc -config MCOutboxCloudflare.cfg MCOutbox     # any MC*.cfg with its MC module
tlapm OutboxSentProofs.tla                      # any *Proofs.tla
```

`PROJECT.json` lists the runs, their properties and mutants (a plausible bug of the code for every property, which the
run must catch), the source lines of every definition, hazards, findings and theorems. Operators marked "Wrong on
purpose" are the mutants; no action uses them.
