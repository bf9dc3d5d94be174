------------------------------ MODULE Inbound ------------------------------
(***************************************************************************)
(* Incoming mail: the Resend webhook (routes/api/webhooks/resend,          *)
(* inbound.ts) and Cloudflare's email() handler (cloudflare-inbound.ts).   *)
(*                                                                         *)
(* A delivery is what the provider repeats until it is answered with a     *)
(* success: a webhook event of a message on Resend, one SMTP transaction   *)
(* per envelope recipient on Cloudflare.  Every await of the handlers is   *)
(* an action; a provider that loses patience may start the next attempt    *)
(* while the one before is still running.                                  *)
(***************************************************************************)
EXTENDS Naturals

CONSTANTS
  Mails,         \* messages, as their provider_id tells them apart
  Envelopes,     \* envelope recipients
  Handlers,      \* invocations of the worker
  Kinds,         \* providers the deployment may run on
  MaxFaults,     \* bound: storage and API failures, crashes and timeouts
  Deaths,        \* may invocations die?
  Impatience     \* may the provider give up on a running attempt?

Deliveries == Mails \X Envelopes
MailOf(d) == d[1]

ASSUME InboundAssumption ==
  /\ Kinds \subseteq {"resend", "cloudflare"} /\ Kinds # {}
  /\ Handlers # {} /\ Deliveries # {}
  /\ MaxFaults \in Nat /\ Deaths \in BOOLEAN /\ Impatience \in BOOLEAN

\* The steps from which an error reaches the handler's caller, and all that have not answered.
Fallible == {"exists", "fetch", "route", "catchall", "unrouted", "announce", "insert",
             "unarchive"}
Working == Fallible \cup {"attach", "release"}
\* Claiming, releasing and fetching are Resend's.
StepsOn(provider) ==
  ({"idle", "claim", "classify"} \cup Working)
    \ (IF provider = "resend" THEN {} ELSE {"claim", "release", "fetch"})

VARIABLES
  kind,         \* EMAIL_PROVIDER
  exact,        \* deliveries one of whose recipients is in addresses
  catchall,     \* does the domain have a catch-all owner?
  post,         \* the provider's view of each delivery
  claims,       \* webhook_events
  stored,       \* number of emails rows with the message's provider_id
  unrouted,     \* unrouted_emails, unique by provider_id
  announced,    \* number of notifications sent for a message
  run,          \* the invocations
  faults,
  interrupted,  \* history: messages an attempt at which died, was given up on, or ended
                \* with an error of the claim or of the release and left the claim behind
  overlapped    \* history: messages two attempts at which ran at the same time

routing == <<exact, catchall>>
tables == <<claims, stored, unrouted>>
history == <<faults, interrupted, overlapped>>
vars == <<kind, routing, post, tables, announced, run, history>>

\* heard: the provider still waits for this invocation's answer.
Idle(d) == [pc |-> "idle", of |-> d, heard |-> FALSE]

TypeOK ==
  /\ kind \in Kinds
  /\ exact \subseteq Deliveries /\ catchall \in BOOLEAN
  /\ post \in [Deliveries -> {"none", "due", "waiting", "accepted"}]
  /\ claims \subseteq Deliveries
  /\ stored \in [Mails -> Nat]
  /\ unrouted \subseteq Mails
  /\ announced \in [Mails -> Nat]
  /\ run \in [Handlers -> [pc : StepsOn(kind), of : Deliveries, heard : BOOLEAN]]
  /\ faults \in Nat
  /\ interrupted \subseteq Mails /\ overlapped \subseteq Mails

Init ==
  /\ kind \in Kinds
  /\ exact \in SUBSET Deliveries /\ catchall \in BOOLEAN
  /\ post = [d \in Deliveries |-> "none"]
  /\ claims = {} /\ stored = [m \in Mails |-> 0] /\ unrouted = {}
  /\ announced = [m \in Mails |-> 0]
  /\ \E d \in Deliveries : run = [h \in Handlers |-> Idle(d)]
  /\ faults = 0 /\ interrupted = {} /\ overlapped = {}

-----------------------------------------------------------------------------
(* Moving an attempt along. *)

At(h, step) == run[h].pc = step
Of(h) == run[h].of
Mail(h) == MailOf(run[h].of)
Goto(h, step) == run' = [run EXCEPT ![h].pc = step] /\ UNCHANGED post

\* The invocation answers the provider, which takes notice if it still waits.
Reply(h, view) == post' = IF run[h].heard THEN [post EXCEPT ![Of(h)] = view] ELSE post
Answer(h, view) ==
  /\ Reply(h, view)
  /\ run' = [run EXCEPT ![h].pc = "idle", ![h].heard = FALSE]

\* Another invocation is at work on the message.
Busy(m) == \E h \in Handlers : run[h].pc \in Working /\ Mail(h) = m

-----------------------------------------------------------------------------
(* The provider *)

\* Somebody sends a message.  On Resend a message is one event however many recipients it has.
Submit(d) ==
  /\ post[d] = "none"
  /\ kind = "resend" => \A e \in Deliveries : MailOf(e) = MailOf(d) => post[e] = "none"
  /\ post' = [post EXCEPT ![d] = "due"]
  /\ UNCHANGED <<kind, routing, tables, announced, run, history>>

Attempt(h, d) ==
  /\ post[d] = "due" /\ At(h, "idle")
  /\ post' = [post EXCEPT ![d] = "waiting"]
  /\ run' = [run EXCEPT ![h] = [pc |-> IF kind = "resend" THEN "claim" ELSE "exists",
                                of |-> d, heard |-> TRUE]]
  /\ overlapped' = IF Busy(MailOf(d)) THEN overlapped \cup {MailOf(d)} ELSE overlapped
  /\ UNCHANGED <<kind, routing, tables, announced, faults, interrupted>>

\* The answer is late, or lost on its way: the provider will try again.
GiveUp(h) ==
  /\ Impatience /\ faults < MaxFaults
  /\ run[h].heard
  /\ faults' = faults + 1
  /\ run' = [run EXCEPT ![h].heard = FALSE]
  /\ post' = [post EXCEPT ![Of(h)] = "due"]
  /\ interrupted' = interrupted \cup {Mail(h)}
  /\ UNCHANGED <<kind, routing, tables, announced, overlapped>>

-----------------------------------------------------------------------------
(* The webhook route *)

\* Wrong on purpose: claimWebhookEvent's result is ignored; a failure keeps the claim.
ClaimAnyway(h) ==
  /\ At(h, "claim")
  /\ claims' = claims \cup {Of(h)}
  /\ Goto(h, "exists")
  /\ UNCHANGED <<kind, routing, stored, unrouted, announced, history>>
ReleaseNothing(h) ==
  /\ At(h, "release")
  /\ Answer(h, "due")
  /\ UNCHANGED <<kind, routing, tables, announced, history>>

\* INSERT OR IGNORE; a claimed event is answered 200 without looking at it.
Claim(h) ==
  /\ At(h, "claim")
  /\ \/ Of(h) \in claims /\ Answer(h, "accepted") /\ UNCHANGED claims
     \/ Of(h) \notin claims /\ claims' = claims \cup {Of(h)} /\ Goto(h, "exists")
  /\ UNCHANGED <<kind, routing, stored, unrouted, announced, history>>

\* The catch block.
Release(h) ==
  /\ At(h, "release")
  /\ claims' = claims \ {Of(h)}
  /\ Answer(h, "due")
  /\ UNCHANGED <<kind, routing, stored, unrouted, announced, history>>

-----------------------------------------------------------------------------
(* handleInboundEmail, handleCloudflareInbound *)

\* Wrong on purpose: both providers take the webhook's way from here.
ExistsThenFetch(h) ==
  /\ At(h, "exists")
  /\ \/ stored[Mail(h)] > 0 /\ Answer(h, "accepted")
     \/ stored[Mail(h)] = 0 /\ Goto(h, "fetch")
  /\ UNCHANGED <<kind, routing, tables, announced, history>>

\* emailExistsByProviderId
Exists(h) ==
  /\ At(h, "exists")
  /\ \/ stored[Mail(h)] > 0 /\ Answer(h, "accepted")
     \/ stored[Mail(h)] = 0 /\ Goto(h, IF kind = "resend" THEN "fetch" ELSE "route")
  /\ UNCHANGED <<kind, routing, tables, announced, history>>

\* client.getReceivedEmail: the webhook carries metadata only.
Fetch(h) ==
  /\ At(h, "fetch")
  /\ Goto(h, "route")
  /\ UNCHANGED <<kind, routing, tables, announced, history>>

\* resolveInboundRoute: an exact match first, then the domain's catch-all owner.
ExactRoute(h) ==
  /\ At(h, "route")
  /\ Goto(h, IF Of(h) \in exact THEN "insert" ELSE "catchall")
  /\ UNCHANGED <<kind, routing, tables, announced, history>>
CatchallRoute(h) ==
  /\ At(h, "catchall")
  /\ Goto(h, IF catchall THEN "insert" ELSE "unrouted")
  /\ UNCHANGED <<kind, routing, tables, announced, history>>

\* Wrong on purpose: an ignored insert is announced as well; an unroutable message is refused.
RecordAndAnnounce(h) ==
  /\ At(h, "unrouted")
  /\ unrouted' = unrouted \cup {Mail(h)}
  /\ Goto(h, "announce")
  /\ UNCHANGED <<kind, routing, claims, stored, announced, history>>
RefuseUnrouted(h) ==
  /\ At(h, "unrouted")
  /\ IF kind = "resend" THEN Goto(h, "release") ELSE Answer(h, "due")
  /\ UNCHANGED <<kind, routing, tables, announced, history>>

RecordUnrouted(h) ==
  /\ At(h, "unrouted")
  /\ \/ Mail(h) \in unrouted /\ Answer(h, "accepted")
     \/ Mail(h) \notin unrouted /\ Goto(h, "announce")
  /\ unrouted' = unrouted \cup {Mail(h)}
  /\ UNCHANGED <<kind, routing, claims, stored, announced, history>>

AnnounceUnrouted(h) ==
  /\ At(h, "announce")
  /\ announced' = [announced EXCEPT ![Mail(h)] = @ + 1]
  /\ Answer(h, "accepted")
  /\ UNCHANGED <<kind, routing, tables, history>>

\* insertEmail: emails.provider_id is indexed, but not unique.
Insert(h) ==
  /\ At(h, "insert")
  /\ stored' = [stored EXCEPT ![Mail(h)] = @ + 1]
  /\ Goto(h, "unarchive")
  /\ UNCHANGED <<kind, routing, claims, unrouted, announced, history>>
Unarchive(h) ==
  /\ At(h, "unarchive")
  /\ Goto(h, "attach")
  /\ UNCHANGED <<kind, routing, tables, announced, history>>

\* storeInboundAttachments swallows its errors; scheduleInboundClassification goes on in the
\* background while the provider gets its answer.
Attach(h) ==
  /\ At(h, "attach")
  /\ Reply(h, "accepted")
  /\ run' = [run EXCEPT ![h].pc = "classify", ![h].heard = FALSE]
  /\ UNCHANGED <<kind, routing, tables, announced, history>>

\* classifyThenNotify: nothing is announced of spam and of quiet categories.
ClassifyThenNotify(h) ==
  /\ At(h, "classify")
  /\ \E notify \in BOOLEAN :
       announced' = IF notify THEN [announced EXCEPT ![Mail(h)] = @ + 1] ELSE announced
  /\ Answer(h, "accepted")
  /\ UNCHANGED <<kind, routing, tables, history>>

\* A D1, R2 or Resend call throws, before or after its effect: an insert whose answer is lost
\* is the insert followed by the failure of the next step.  On Resend the catch block releases
\* the claim, but not when it is the claim or the release itself that throws; Cloudflare gets
\* the exception.
Fails(h) ==
  /\ faults < MaxFaults
  /\ faults' = faults + 1
  /\ \/ /\ run[h].pc \in Fallible /\ kind = "resend" /\ Goto(h, "release")
        /\ UNCHANGED <<claims, interrupted>>
     \/ /\ run[h].pc \in Fallible \ {"fetch"} /\ kind = "cloudflare" /\ Answer(h, "due")
        /\ UNCHANGED <<claims, interrupted>>
     \/ At(h, "claim") /\ Answer(h, "due") /\ UNCHANGED <<claims, interrupted>>
     \/ /\ At(h, "claim") /\ Of(h) \notin claims /\ Answer(h, "due")
        /\ claims' = claims \cup {Of(h)} /\ interrupted' = interrupted \cup {Mail(h)}
     \/ /\ At(h, "release") /\ Answer(h, "due") /\ UNCHANGED claims
        /\ interrupted' = interrupted \cup {Mail(h)}
  /\ UNCHANGED <<kind, routing, stored, unrouted, announced, overlapped>>

\* The isolate dies; the provider sees the connection break.
Dies(h) ==
  /\ Deaths /\ faults < MaxFaults /\ ~At(h, "idle")
  /\ faults' = faults + 1
  /\ Answer(h, "due")
  /\ interrupted' = interrupted \cup {Mail(h)}
  /\ UNCHANGED <<kind, routing, tables, announced, overlapped>>

-----------------------------------------------------------------------------
(* Settings and Admin: addresses come and go, and so does the catch-all owner. *)

ChangeAddresses ==
  /\ \E d \in Deliveries : exact' = exact \cup {d} \/ exact' = exact \ {d}
  /\ UNCHANGED <<kind, catchall, post, tables, announced, run, history>>
SetCatchall ==
  /\ catchall' = ~catchall
  /\ UNCHANGED <<kind, exact, post, tables, announced, run, history>>

Step(h) ==
  \/ Claim(h) \/ Release(h) \/ Exists(h) \/ Fetch(h) \/ ExactRoute(h) \/ CatchallRoute(h)
  \/ RecordUnrouted(h) \/ AnnounceUnrouted(h)
  \/ Insert(h) \/ Unarchive(h) \/ Attach(h) \/ ClassifyThenNotify(h)

Next ==
  \/ \E d \in Deliveries : Submit(d) \/ \E h \in Handlers : Attempt(h, d)
  \/ \E h \in Handlers : Step(h) \/ GiveUp(h) \/ Fails(h) \/ Dies(h)
  \/ ChangeAddresses \/ SetCatchall

Spec == Init /\ [][Next]_vars

\* Invocations that do not die run on, and the provider repeats what it has not been
\* answered; how many invocations there are is a bound of the model, not of the worker.
Fairness ==
  /\ \A h \in Handlers : WF_vars(Step(h))
  /\ \A d \in Deliveries : SF_vars(\E h \in Handlers : Attempt(h, d))
FairSpec == Spec /\ Fairness

-----------------------------------------------------------------------------
(* Properties *)

Kept(m) == stored[m] > 0 \/ m \in unrouted

\* Once nobody works on it any more, what the provider was told is done is in a mailbox or
\* on the list of unrouted mail: "Kept so nothing is silently lost".  It is not, see the runs.
AcceptedIsKept ==
  \A d \in Deliveries : post[d] = "accepted" /\ ~Busy(MailOf(d)) => Kept(MailOf(d))

\* A message is lost only on Resend, and only when an attempt at it was cut off between
\* the claim and its release, was given up on while it ran, or left its claim behind because
\* the claim or the release threw: no other error loses one.
LossNeedsInterruption ==
  \A d \in Deliveries : post[d] = "accepted" /\ ~Kept(MailOf(d))
                          => kind = "resend" /\ MailOf(d) \in interrupted

\* Each message is stored once, however often the provider delivers it.
StoredOnce == \A m \in Mails : stored[m] <= 1

\* It is stored twice only on Cloudflare, and only when attempts at it ran side by side.
DuplicateNeedsOverlap ==
  \A m \in Mails : stored[m] > 1 => kind = "cloudflare" /\ m \in overlapped

\* Every record, in a mailbox or on the unrouted list, is announced at most once.
AnnouncedOnce ==
  \A m \in Mails : announced[m] <= stored[m] + (IF m \in unrouted THEN 1 ELSE 0)

\* A message sent to this deployment ends up where somebody can find it, with the exceptions
\* of LossNeedsInterruption.
MailArrives ==
  \A d \in Deliveries :
    post[d] # "none" ~> Kept(MailOf(d)) \/ (kind = "resend" /\ MailOf(d) \in interrupted)
=============================================================================
