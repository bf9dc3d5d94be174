--------------------------- MODULE InboundProofs ---------------------------
(***************************************************************************)
(* Theorems about incoming mail, for every set of messages, recipients,    *)
(* invocations and providers, and any number of faults.                    *)
(***************************************************************************)
EXTENDS Inbound, FiniteSetTheorems, TLAPS

\* A delivery belongs to one message.
LEMMA MailOfType == \A d \in Deliveries : MailOf(d) \in Mails
BY DEF Deliveries, MailOf

-----------------------------------------------------------------------------
(* Types *)

\* An invocation moved on, and its answer, keep the records well typed.
LEMMA GotoTyped ==
  ASSUME TypeOK, NEW h \in Handlers, NEW step \in StepsOn(kind), kind' = kind, Goto(h, step)
  PROVE  /\ run' \in [Handlers -> [pc : StepsOn(kind'), of : Deliveries, heard : BOOLEAN]]
         /\ post' \in [Deliveries -> {"none", "due", "waiting", "accepted"}]
BY DEF TypeOK, Goto

\* See GotoTyped.
LEMMA AnswerTyped ==
  ASSUME TypeOK, NEW h \in Handlers, NEW view \in {"due", "accepted"}, kind' = kind,
         Answer(h, view)
  PROVE  /\ run' \in [Handlers -> [pc : StepsOn(kind'), of : Deliveries, heard : BOOLEAN]]
         /\ post' \in [Deliveries -> {"none", "due", "waiting", "accepted"}]
<1>1. "idle" \in StepsOn(kind)
  BY DEF StepsOn
<1> QED BY <1>1 DEF TypeOK, Answer, Reply, Of

\* The message an invocation works on.
LEMMA MailTyped ==
  ASSUME TypeOK, NEW h \in Handlers
  PROVE  Of(h) \in Deliveries /\ Mail(h) \in Mails
BY MailOfType DEF TypeOK, Of, Mail

\* Every step, of the provider, of the handlers and of the administrators, keeps the types.
LEMMA TypeStep == TypeOK /\ [Next]_vars => TypeOK'
<1> SUFFICES ASSUME TypeOK, [Next]_vars PROVE TypeOK'
  OBVIOUS
<1> USE DEF At
<1> DEFINE Runs == run' \in [Handlers -> [pc : StepsOn(kind'), of : Deliveries, heard : BOOLEAN]]
           Posts == post' \in [Deliveries -> {"none", "due", "waiting", "accepted"}]
<1>1. \A step \in {"exists", "route", "catchall", "unrouted", "announce", "insert",
                   "unarchive", "attach", "classify", "idle"} : step \in StepsOn(kind)
  BY DEF StepsOn, Working, Fallible
<1>2. kind = "resend" => {"claim", "fetch", "release"} \subseteq StepsOn(kind)
  BY DEF StepsOn, Working, Fallible
<1>3. \A h \in Handlers : run[h].pc \in StepsOn(kind)
  BY DEF TypeOK
<1>4. kind # "resend" => {"claim", "fetch", "release"} \cap StepsOn(kind) = {}
  BY DEF StepsOn, Working, Fallible
<1>5. ASSUME NEW d \in Deliveries, Submit(d) PROVE TypeOK'
  BY <1>5 DEF Submit, TypeOK, routing, tables, history
<1>6. ASSUME NEW d \in Deliveries, NEW h \in Handlers, Attempt(h, d) PROVE TypeOK'
  BY <1>6, <1>1, <1>2, MailOfType DEF Attempt, TypeOK, routing, tables
<1>7. ASSUME NEW h \in Handlers, Step(h) PROVE TypeOK'
  <2> USE MailTyped
  <2>1. CASE Claim(h)
    <3>1. kind = "resend" /\ kind' = kind
      BY <2>1, <1>3, <1>4 DEF Claim
    <3>2. Runs /\ Posts
      BY <2>1, <3>1, <1>1, GotoTyped, AnswerTyped DEF Claim
    <3> QED BY <2>1, <3>2 DEF Claim, TypeOK, routing, history
  <2>2. CASE Release(h)
    <3>1. Runs /\ Posts
      BY <2>2, AnswerTyped DEF Release
    <3> QED BY <2>2, <3>1 DEF Release, TypeOK, routing, history
  <2>3. CASE Exists(h)
    <3>1. Runs /\ Posts
      BY <2>3, <1>1, <1>2, GotoTyped, AnswerTyped DEF Exists
    <3> QED BY <2>3, <3>1 DEF Exists, TypeOK, routing, tables, history
  <2>4. CASE Fetch(h)
    <3>1. Runs /\ Posts
      BY <2>4, <1>1, GotoTyped DEF Fetch
    <3> QED BY <2>4, <3>1 DEF Fetch, TypeOK, routing, tables, history
  <2>5. CASE ExactRoute(h) \/ CatchallRoute(h) \/ Unarchive(h)
    <3>1. Runs /\ Posts
      BY <2>5, <1>1, GotoTyped DEF ExactRoute, CatchallRoute, Unarchive
    <3> QED BY <2>5, <3>1
        DEF ExactRoute, CatchallRoute, Unarchive, TypeOK, routing, tables, history
  <2>6. CASE RecordUnrouted(h)
    <3>1. Runs /\ Posts
      BY <2>6, <1>1, GotoTyped, AnswerTyped DEF RecordUnrouted
    <3> QED BY <2>6, <3>1 DEF RecordUnrouted, TypeOK, routing, history
  <2>7. CASE AnnounceUnrouted(h)
    <3>1. Runs /\ Posts
      BY <2>7, AnswerTyped DEF AnnounceUnrouted
    <3> QED BY <2>7, <3>1 DEF AnnounceUnrouted, TypeOK, routing, tables, history
  <2>8. CASE Insert(h)
    <3>1. Runs /\ Posts
      BY <2>8, <1>1, GotoTyped DEF Insert
    <3> QED BY <2>8, <3>1 DEF Insert, TypeOK, routing, history
  <2>9. CASE Attach(h)
    <3>1. Runs /\ Posts
      BY <2>9, <1>1 DEF Attach, Reply, TypeOK
    <3> QED BY <2>9, <3>1 DEF Attach, TypeOK, routing, tables, history
  <2>10. CASE ClassifyThenNotify(h)
    <3>1. Runs /\ Posts
      BY <2>10, AnswerTyped DEF ClassifyThenNotify
    <3> QED BY <2>10, <3>1 DEF ClassifyThenNotify, TypeOK, routing, tables, history
  <2> QED BY <1>7, <2>1, <2>2, <2>3, <2>4, <2>5, <2>6, <2>7, <2>8, <2>9, <2>10 DEF Step
<1>8. ASSUME NEW h \in Handlers, GiveUp(h) PROVE TypeOK'
  <2>1. Of(h) \in Deliveries /\ Mail(h) \in Mails
    BY MailTyped
  <2>2. Runs /\ Posts
    BY <1>8, <2>1 DEF GiveUp, TypeOK
  <2> QED BY <1>8, <2>1, <2>2 DEF GiveUp, TypeOK, routing, tables
<1>9. ASSUME NEW h \in Handlers, Fails(h) PROVE TypeOK'
  <2>1. Runs /\ Posts
    BY <1>9, <1>2, GotoTyped, AnswerTyped DEF Fails
  <2>2. claims' \subseteq Deliveries /\ interrupted' \subseteq Mails
    BY <1>9, MailTyped DEF Fails, TypeOK
  <2> QED BY <1>9, <2>1, <2>2 DEF Fails, TypeOK, routing
<1>10. ASSUME NEW h \in Handlers, Dies(h) PROVE TypeOK'
  <2>1. Runs /\ Posts
    BY <1>10, AnswerTyped DEF Dies
  <2> QED BY <1>10, <2>1, MailTyped DEF Dies, TypeOK, routing, tables
<1>11. CASE ChangeAddresses \/ SetCatchall
  BY <1>11 DEF ChangeAddresses, SetCatchall, TypeOK, tables, history
<1>12. CASE UNCHANGED vars
  BY <1>12 DEF vars, routing, tables, history, TypeOK
<1> QED BY <1>5, <1>6, <1>7, <1>8, <1>9, <1>10, <1>11, <1>12 DEF Next

\* Every reachable state is well typed; Resend's steps are never taken on Cloudflare.
THEOREM TypeCorrect == Spec => []TypeOK
<1>1. Init => TypeOK
  BY InboundAssumption DEF Init, Idle, TypeOK, StepsOn
<1> QED BY <1>1, TypeStep, PTL DEF Spec

-----------------------------------------------------------------------------
(* Storing a message twice *)

\* Attempts at the message exclude each other: by their claim, or because none overlapped.
Exclusive(m) == kind = "resend" \/ m \notin overlapped
BeforeRow == {"fetch", "route", "catchall", "unrouted", "insert"}
Out(d) == post[d] # "none"

\* On Resend a message is one event, and who works on it holds the event's claim.  Hence
\* invocations that work on a message whose attempts exclude each other are one, no row is
\* there before that one inserts it, and there never is a second.
OneEvent ==
  kind = "resend" =>
    \A d, e \in Deliveries : Out(d) /\ Out(e) /\ MailOf(d) = MailOf(e) => d = e
Submitted == \A h \in Handlers : ~At(h, "idle") \/ run[h].heard => Out(Of(h))
HoldsClaim == kind = "resend" => \A h \in Handlers : run[h].pc \in Working => Of(h) \in claims
Alone ==
  \A h, k \in Handlers :
    /\ run[h].pc \in Working /\ run[k].pc \in Working
    /\ Mail(h) = Mail(k) /\ Exclusive(Mail(h))
    => h = k
Fresh ==
  \A h \in Handlers :
    run[h].pc \in BeforeRow /\ Exclusive(Mail(h)) => stored[Mail(h)] = 0
OnceIfExclusive == \A m \in Mails : Exclusive(m) => stored[m] <= 1
AloneInv == OneEvent /\ Submitted /\ HoldsClaim /\ Alone /\ Fresh /\ OnceIfExclusive

\* One invocation moved from where it was to a step; the others did nothing.
Turn(h, step) ==
  /\ run'[h].pc = step /\ run'[h].of = run[h].of
  /\ \A k \in Handlers \ {h} : run'[k] = run[k]
SameOut == \A d \in Deliveries : Out(d)' <=> Out(d)

\* What Goto does to the invocations and to the provider's view.
LEMMA GotoTurns ==
  ASSUME TypeOK, NEW h \in Handlers, NEW step, Goto(h, step)
  PROVE  Turn(h, step) /\ run'[h].heard = run[h].heard /\ post' = post
BY DEF TypeOK, Goto, Turn

\* What Reply does: only the delivery answered moves, and only when it was waited for.
LEMMA ReplyTurns ==
  ASSUME TypeOK, NEW h \in Handlers, NEW view, Reply(h, view)
  PROVE  \A d \in Deliveries :
           post'[d] = IF run[h].heard /\ d = Of(h) THEN view ELSE post[d]
BY MailTyped DEF TypeOK, Reply

\* What Answer does, see ReplyTurns.
LEMMA AnswerTurns ==
  ASSUME TypeOK, NEW h \in Handlers, NEW view, Answer(h, view)
  PROVE  Turn(h, "idle") /\ ~run'[h].heard /\ Reply(h, view)
BY DEF TypeOK, Answer, Turn, Of

\* An answer neither submits nor withdraws a delivery.
LEMMA ReplyKeepsOut ==
  ASSUME TypeOK, Submitted, NEW h \in Handlers, ~At(h, "idle"),
         NEW view \in {"due", "accepted"}, Reply(h, view)
  PROVE  SameOut
BY ReplyTurns DEF Submitted, SameOut, Out

\* An invocation that moves on inside its attempt, or out of it, disturbs nothing.
LEMMA AloneTurn ==
  ASSUME TypeOK, AloneInv, NEW h \in Handlers, NEW step, Turn(h, step), SameOut,
         UNCHANGED <<kind, overlapped, stored>>, claims \subseteq claims',
         ~At(h, "idle"),
         step \in Working => run[h].pc \in Working,
         step \in BeforeRow => run[h].pc \in BeforeRow \/ stored[Mail(h)] = 0
  PROVE  AloneInv'
<1>1. \A k \in Handlers : run'[k].of = run[k].of
  BY DEF Turn
<1>2. \A k \in Handlers : (Of(k))' = Of(k) /\ (Mail(k))' = Mail(k) /\ Of(k) \in Deliveries
  BY <1>1, MailTyped DEF Of, Mail
<1>3. \A m : Exclusive(m)' <=> Exclusive(m)
  BY DEF Exclusive
<1>4. \A k \in Handlers : run'[k].pc \in Working => run[k].pc \in Working
  BY DEF Turn
<1>5. OneEvent' /\ OnceIfExclusive'
  BY <1>3 DEF AloneInv, OneEvent, OnceIfExclusive, SameOut
<1>6. Submitted'
  BY <1>2 DEF AloneInv, Submitted, SameOut, Turn, At
<1>7. HoldsClaim' /\ Alone'
  BY <1>2, <1>3, <1>4 DEF AloneInv, HoldsClaim, Alone
<1>8. Fresh'
  BY <1>2, <1>3 DEF AloneInv, Fresh, Turn
<1> QED BY <1>5, <1>6, <1>7, <1>8 DEF AloneInv

\* Where an attempt stands, as far as the invariants care.
LEMMA Places ==
  /\ BeforeRow \subseteq Working
  /\ {"exists", "unarchive", "attach", "announce", "release"} \subseteq Working
  /\ {"idle", "claim", "classify"} \cap Working = {}
BY DEF BeforeRow, Working, Fallible

\* The provider submits a message or starts an attempt.
LEMMA AloneProvider ==
  ASSUME TypeOK, AloneInv, NEW d \in Deliveries,
         Submit(d) \/ \E h \in Handlers : Attempt(h, d)
  PROVE  AloneInv'
<1>1. CASE Submit(d)
  <2>1. OneEvent'
    BY <1>1 DEF Submit, AloneInv, OneEvent, Out, TypeOK
  <2>2. Submitted'
    BY <1>1, MailTyped DEF Submit, AloneInv, Submitted, Out, TypeOK, At, Of
  <2> QED BY <1>1, <2>1, <2>2
      DEF Submit, AloneInv, HoldsClaim, Alone, Fresh, OnceIfExclusive, Exclusive, tables, history,
          Of, Mail
<1>2. ASSUME NEW h \in Handlers, Attempt(h, d) PROVE AloneInv'
  <2> DEFINE first == IF kind = "resend" THEN "claim" ELSE "exists"
  <2>1. /\ run'[h].pc = first /\ run'[h].of = d
        /\ \A k \in Handlers \ {h} : run'[k] = run[k]
    BY <1>2 DEF Attempt, TypeOK
  <2>2. /\ \A e \in Deliveries : Out(e)' <=> Out(e)
        /\ Out(d)
    BY <1>2 DEF Attempt, TypeOK, Out
  <2>3. UNCHANGED <<kind, stored, claims>> /\ overlapped \subseteq overlapped'
    BY <1>2 DEF Attempt, tables
  <2>4. MailOf(d) \notin overlapped' => ~Busy(MailOf(d))
    BY <1>2 DEF Attempt
  <2>5. \A m : Exclusive(m)' => Exclusive(m)
    BY <2>3 DEF Exclusive
  <2>6. Mail(h)' = MailOf(d) /\ Of(h)' = d
    BY <2>1 DEF Mail, Of
  <2>7. \A k \in Handlers \ {h} :
          Mail(k)' = Mail(k) /\ Of(k)' = Of(k) /\ run'[k] = run[k]
    BY <2>1 DEF Mail, Of
  <2>8. OneEvent' /\ OnceIfExclusive'
    BY <2>2, <2>3, <2>5 DEF AloneInv, OneEvent, OnceIfExclusive
  <2>9. Submitted'
    BY <2>2, <2>6, <2>7, MailTyped DEF AloneInv, Submitted, At
  <2>10. HoldsClaim'
    BY <2>1, <2>3, <2>7, Places DEF AloneInv, HoldsClaim
  <2>11. Fresh'
    BY <2>1, <2>3, <2>5, <2>7 DEF AloneInv, Fresh, BeforeRow
  <2>12. Alone'
    <3> SUFFICES ASSUME NEW g \in Handlers, NEW k \in Handlers,
                        run'[g].pc \in Working, run'[k].pc \in Working,
                        Mail(g)' = Mail(k)', Exclusive(Mail(g))'
                 PROVE  g = k
      BY DEF Alone
    <3>1. CASE g # h /\ k # h
      BY <3>1, <2>5, <2>7 DEF AloneInv, Alone
    <3>2. CASE kind = "resend" /\ (g = h \/ k = h)
      BY <3>2, <2>1, Places
    <3>3. CASE kind # "resend" /\ (g = h \/ k = h)
      <4>1. MailOf(d) \notin overlapped'
        BY <3>3, <2>3, <2>6 DEF Exclusive
      <4> QED BY <3>3, <4>1, <2>4, <2>6, <2>7 DEF Busy
    <3> QED BY <3>1, <3>2, <3>3
  <2> QED BY <2>8, <2>9, <2>10, <2>11, <2>12 DEF AloneInv
<1> QED BY <1>1, <1>2

\* The claim is granted, given back, or the row is inserted: the steps that need the rest.
LEMMA AloneClaim ==
  ASSUME TypeOK, AloneInv, NEW h \in Handlers, Claim(h)
  PROVE  AloneInv'
<1>1. kind = "resend"
  BY DEF Claim, At, TypeOK, StepsOn
<1>2. ~At(h, "idle")
  BY DEF Claim, At
<1>3. CASE Of(h) \in claims
  <2>1. Answer(h, "accepted") /\ UNCHANGED <<kind, overlapped, stored, claims>>
    BY <1>3 DEF Claim, history
  <2>2. Turn(h, "idle") /\ SameOut
    BY <2>1, <1>2, AnswerTurns, ReplyKeepsOut DEF AloneInv
  <2> QED BY <1>2, <2>1, <2>2, AloneTurn, Places DEF BeforeRow
<1>4. CASE Of(h) \notin claims
  <2>1. Goto(h, "exists") /\ claims' = claims \cup {Of(h)}
    BY <1>4 DEF Claim
  <2>2. UNCHANGED <<kind, overlapped, stored, post>>
    BY <1>4 DEF Claim, history, Goto
  <2>3. Turn(h, "exists")
    BY <2>1, GotoTurns
  <2>4. \A k \in Handlers : Of(k)' = Of(k) /\ Mail(k)' = Mail(k) /\ Of(k) \in Deliveries
    BY <2>3, MailTyped DEF Turn, Of, Mail
  <2>5. \A k \in Handlers : run[k].pc \in Working => Mail(k) # Mail(h)
    <3> SUFFICES ASSUME NEW k \in Handlers, run[k].pc \in Working, Mail(k) = Mail(h)
                 PROVE  FALSE
      OBVIOUS
    <3>1. Out(Of(k)) /\ Out(Of(h))
      BY <1>2, Places DEF AloneInv, Submitted, At
    <3>2. Of(k) = Of(h)
      BY <3>1, <2>4, <1>1 DEF AloneInv, OneEvent, Mail, Of
    <3> QED BY <3>2, <1>1, <1>4 DEF AloneInv, HoldsClaim
  <2>6. OneEvent' /\ OnceIfExclusive' /\ Submitted'
    BY <2>2, <2>3, <2>4, <1>2
       DEF AloneInv, OneEvent, OnceIfExclusive, Submitted, Exclusive, Out, At, Turn
  <2>7. HoldsClaim' /\ Alone'
    BY <2>1, <2>2, <2>3, <2>4, <2>5 DEF AloneInv, HoldsClaim, Alone, Exclusive, Turn
  <2>8. Fresh'
    BY <2>2, <2>3, <2>4 DEF AloneInv, Fresh, BeforeRow, Exclusive, Turn
  <2> QED BY <2>6, <2>7, <2>8 DEF AloneInv
<1> QED BY <1>3, <1>4

\* See AloneClaim.
LEMMA AloneRelease ==
  ASSUME TypeOK, AloneInv, NEW h \in Handlers, Release(h)
  PROVE  AloneInv'
<1>1. kind = "resend" /\ run[h].pc \in Working /\ ~At(h, "idle")
  BY Places DEF Release, At, TypeOK, StepsOn
<1>2. UNCHANGED <<kind, overlapped, stored>> /\ claims' = claims \ {Of(h)}
  BY DEF Release, history
<1>3. Turn(h, "idle") /\ SameOut
  BY <1>1, AnswerTurns, ReplyKeepsOut DEF Release, AloneInv
<1>4. \A k \in Handlers : Of(k)' = Of(k) /\ Mail(k)' = Mail(k) /\ Of(k) \in Deliveries
  BY <1>3, MailTyped DEF Turn, Of, Mail
<1>5. OneEvent' /\ OnceIfExclusive' /\ Submitted'
  BY <1>1, <1>2, <1>3, <1>4
     DEF AloneInv, OneEvent, OnceIfExclusive, Submitted, Exclusive, SameOut, At, Turn
<1>6. HoldsClaim'
  <2> SUFFICES ASSUME NEW k \in Handlers, run'[k].pc \in Working PROVE Of(k) \in claims'
    BY <1>4 DEF HoldsClaim
  <2>1. k # h /\ run[k].pc \in Working
    BY <1>3, Places DEF Turn
  <2>2. Of(k) # Of(h)
    BY <2>1, <1>1 DEF AloneInv, Alone, Exclusive, Mail, Of
  <2> QED BY <1>1, <1>2, <2>1, <2>2 DEF AloneInv, HoldsClaim
<1>7. Alone' /\ Fresh'
  BY <1>2, <1>3, <1>4, Places DEF AloneInv, Alone, Fresh, BeforeRow, Exclusive, Turn
<1> QED BY <1>5, <1>6, <1>7 DEF AloneInv

\* See AloneClaim.
LEMMA AloneInsert ==
  ASSUME TypeOK, AloneInv, NEW h \in Handlers, Insert(h)
  PROVE  AloneInv'
<1>1. run[h].pc = "insert" /\ run[h].pc \in Working /\ run[h].pc \in BeforeRow
  BY Places DEF Insert, At, BeforeRow
<1>2. UNCHANGED <<kind, overlapped, claims, post>>
  BY DEF Insert, history, Goto
<1>3. Turn(h, "unarchive")
  BY GotoTurns DEF Insert
<1>4. \A k \in Handlers : Of(k)' = Of(k) /\ Mail(k)' = Mail(k) /\ Mail(k) \in Mails
  BY <1>3, MailTyped DEF Turn, Of, Mail
<1>5. \A m \in Mails : stored'[m] = IF m = Mail(h) THEN stored[m] + 1 ELSE stored[m]
  BY DEF Insert, TypeOK
<1>6. \A m : Exclusive(m)' <=> Exclusive(m)
  BY <1>2 DEF Exclusive
<1>7. OneEvent' /\ Submitted' /\ HoldsClaim' /\ Alone'
  BY <1>1, <1>2, <1>3, <1>4, <1>6
     DEF AloneInv, OneEvent, Submitted, HoldsClaim, Alone, Out, At, Turn
<1>8. Fresh'
  <2> SUFFICES ASSUME NEW k \in Handlers, run'[k].pc \in BeforeRow, Exclusive(Mail(k))
               PROVE  stored'[Mail(k)] = 0
    BY <1>4, <1>6 DEF Fresh
  <2>1. k # h /\ run[k].pc \in BeforeRow /\ run[k].pc \in Working
    BY <1>3, Places DEF Turn, BeforeRow
  <2>2. Mail(k) # Mail(h)
    BY <1>1, <2>1 DEF AloneInv, Alone
  <2> QED BY <1>4, <1>5, <2>1, <2>2 DEF AloneInv, Fresh
<1>9. OnceIfExclusive'
  <2> SUFFICES ASSUME NEW m \in Mails, Exclusive(m) PROVE stored'[m] <= 1
    BY <1>6 DEF OnceIfExclusive
  <2>1. CASE m = Mail(h)
    BY <1>1, <1>5, <2>1 DEF AloneInv, Fresh
  <2>2. CASE m # Mail(h)
    BY <1>5, <2>2 DEF AloneInv, OnceIfExclusive
  <2> QED BY <2>1, <2>2
<1> QED BY <1>7, <1>8, <1>9 DEF AloneInv

\* The other steps of a handler move inside the attempt or end it.
LEMMA AloneHandler ==
  ASSUME TypeOK, AloneInv, NEW h \in Handlers, Step(h)
  PROVE  AloneInv'
<1> DEFINE Plain == UNCHANGED <<kind, overlapped, stored, claims>>
<1> USE DEF At
<1>1. CASE Exists(h)
  <2>1. Plain /\ ~At(h, "idle") /\ run[h].pc \in Working
    BY <1>1, Places DEF Exists, tables, history
  <2>2. ASSUME Answer(h, "accepted") PROVE AloneInv'
    BY <2>1, <2>2, AnswerTurns, ReplyKeepsOut, AloneTurn, Places DEF AloneInv, BeforeRow
  <2>3. ASSUME NEW step \in {"fetch", "route"}, stored[Mail(h)] = 0, Goto(h, step)
        PROVE  AloneInv'
    <3>1. Turn(h, step) /\ SameOut
      BY <2>3, GotoTurns DEF SameOut, Out
    <3> QED BY <2>1, <2>3, <3>1, AloneTurn
  <2> QED BY <1>1, <2>2, <2>3 DEF Exists
<1>2. CASE Fetch(h) \/ ExactRoute(h) \/ CatchallRoute(h) \/ Unarchive(h)
  <2>1. PICK step \in {"route", "insert", "catchall", "unrouted", "attach"} :
          /\ Goto(h, step) /\ Plain /\ ~At(h, "idle") /\ run[h].pc \in Working
          /\ step \in BeforeRow => run[h].pc \in BeforeRow
    BY <1>2, Places
       DEF Fetch, ExactRoute, CatchallRoute, Unarchive, tables, history, BeforeRow
  <2>2. Turn(h, step) /\ SameOut
    BY <2>1, GotoTurns DEF SameOut, Out
  <2> QED BY <2>1, <2>2, AloneTurn
<1>3. CASE RecordUnrouted(h)
  <2>1. Plain /\ ~At(h, "idle") /\ run[h].pc \in Working
    BY <1>3, Places DEF RecordUnrouted, history, BeforeRow
  <2>2. ASSUME Answer(h, "accepted") PROVE AloneInv'
    BY <2>1, <2>2, AnswerTurns, ReplyKeepsOut, AloneTurn, Places DEF AloneInv, BeforeRow
  <2>3. ASSUME Goto(h, "announce") PROVE AloneInv'
    <3>1. Turn(h, "announce") /\ SameOut
      BY <2>3, GotoTurns DEF SameOut, Out
    <3> QED BY <2>1, <3>1, AloneTurn DEF BeforeRow
  <2> QED BY <1>3, <2>2, <2>3 DEF RecordUnrouted
<1>4. CASE AnnounceUnrouted(h) \/ ClassifyThenNotify(h)
  <2>1. Answer(h, "accepted") /\ Plain /\ ~At(h, "idle")
    BY <1>4 DEF AnnounceUnrouted, ClassifyThenNotify, tables, history
  <2> QED BY <2>1, AnswerTurns, ReplyKeepsOut, AloneTurn, Places DEF AloneInv, BeforeRow
<1>5. CASE Attach(h)
  <2>1. Plain /\ ~At(h, "idle") /\ Reply(h, "accepted")
    BY <1>5 DEF Attach, tables, history
  <2>2. Turn(h, "classify") /\ SameOut
    BY <1>5, <2>1, ReplyKeepsOut DEF Attach, TypeOK, Turn, AloneInv
  <2> QED BY <2>1, <2>2, AloneTurn, Places DEF BeforeRow
<1> QED BY <1>1, <1>2, <1>3, <1>4, <1>5, AloneClaim, AloneRelease, AloneInsert DEF Step

\* Faults, and administrators at work.
LEMMA AloneFault ==
  ASSUME TypeOK, AloneInv, NEW h \in Handlers, GiveUp(h) \/ Fails(h) \/ Dies(h)
  PROVE  AloneInv'
<1>1. CASE GiveUp(h)
  <2>1. UNCHANGED <<kind, overlapped, stored, claims>>
    BY <1>1 DEF GiveUp, tables
  <2>2. \A k \in Handlers :
          /\ run'[k].pc = run[k].pc /\ (run'[k].heard => run[k].heard)
          /\ Of(k)' = Of(k) /\ Mail(k)' = Mail(k) /\ Of(k) \in Deliveries
    BY <1>1, MailTyped DEF GiveUp, TypeOK, Of, Mail
  <2>3. Out(Of(h))
    BY <1>1 DEF GiveUp, AloneInv, Submitted
  <2>4. SameOut
    BY <1>1, <2>3 DEF GiveUp, TypeOK, Out, SameOut
  <2>5. OneEvent' /\ OnceIfExclusive'
    BY <2>1, <2>4 DEF AloneInv, OneEvent, OnceIfExclusive, Exclusive, SameOut
  <2>6. Submitted'
    BY <2>2, <2>4 DEF AloneInv, Submitted, SameOut, At
  <2>7. HoldsClaim' /\ Alone' /\ Fresh'
    BY <2>1, <2>2 DEF AloneInv, HoldsClaim, Alone, Fresh, Exclusive
  <2> QED BY <2>5, <2>6, <2>7 DEF AloneInv
<1>2. CASE Fails(h) \/ Dies(h)
  <2>1. UNCHANGED <<kind, overlapped, stored>> /\ claims \subseteq claims' /\ ~At(h, "idle")
    BY <1>2 DEF Fails, Dies, tables, Fallible, At
  <2>2. CASE Answer(h, "due")
    BY <2>1, <2>2, AnswerTurns, ReplyKeepsOut, AloneTurn, Places DEF AloneInv, BeforeRow
  <2>3. CASE Goto(h, "release") /\ run[h].pc \in Fallible
    <3>1. Turn(h, "release") /\ SameOut
      BY <2>3, GotoTurns DEF SameOut, Out
    <3> QED BY <2>1, <2>3, <3>1, AloneTurn DEF BeforeRow, Working
  <2> QED BY <1>2, <2>2, <2>3 DEF Fails, Dies
<1> QED BY <1>1, <1>2

\* Rows are stored once while attempts exclude each other, whatever the provider, the
\* handlers, the administrators and the faults do.
THEOREM AloneStep == TypeOK /\ AloneInv /\ [Next]_vars => AloneInv'
<1> SUFFICES ASSUME TypeOK, AloneInv, [Next]_vars PROVE AloneInv'
  OBVIOUS
<1>1. CASE ChangeAddresses \/ SetCatchall \/ UNCHANGED vars
  <2>1. UNCHANGED <<kind, overlapped, stored, claims, post, run>>
    BY <1>1 DEF ChangeAddresses, SetCatchall, vars, tables, history
  <2> QED BY <2>1
      DEF AloneInv, OneEvent, Submitted, HoldsClaim, Alone, Fresh, OnceIfExclusive, Exclusive,
          Out, At, Of, Mail
<1> QED BY <1>1, AloneProvider, AloneHandler, AloneFault DEF Next

\* A message is stored twice only on Cloudflare and only when attempts at it overlapped: the
\* claim of the webhook route serialises Resend's events, and emailExistsByProviderId is
\* enough for attempts that follow each other.
THEOREM DuplicatesOverlap == Spec => []DuplicateNeedsOverlap
<1>1. Init => TypeOK /\ AloneInv
  <2>1. Init => TypeOK
    BY InboundAssumption DEF Init, Idle, TypeOK, StepsOn
  <2>2. Init => AloneInv
    BY Places, MailOfType
       DEF Init, Idle, AloneInv, OneEvent, Submitted, HoldsClaim, Alone, Fresh, OnceIfExclusive,
           Out, At, BeforeRow
  <2> QED BY <2>1, <2>2
<1>2. TypeOK /\ AloneInv /\ [Next]_vars => (TypeOK /\ AloneInv)'
  BY TypeStep, AloneStep
<1>3. TypeOK /\ AloneInv => DuplicateNeedsOverlap
  <2> SUFFICES ASSUME TypeOK, AloneInv, NEW m \in Mails, stored[m] > 1
               PROVE  kind = "cloudflare" /\ m \in overlapped
    BY DEF DuplicateNeedsOverlap
  <2>1. ~Exclusive(m)
    BY DEF TypeOK, AloneInv, OnceIfExclusive
  <2>2. kind \in {"resend", "cloudflare"}
    BY InboundAssumption DEF TypeOK
  <2> QED BY <2>1, <2>2 DEF Exclusive
<1> QED BY <1>1, <1>2, <1>3, PTL DEF Spec

-----------------------------------------------------------------------------
(* Losing a message *)

\* The provider waits for one invocation per delivery, and that invocation is at work unless
\* something was interrupted; a claim is kept for who works on it or for what is kept.
Waits ==
  /\ \A h \in Handlers : run[h].heard => post[Of(h)] = "waiting"
  /\ \A h, k \in Handlers : run[h].heard /\ run[k].heard /\ Of(h) = Of(k) => h = k
Attending == Working \cup {"claim"}
Heeded ==
  \A h \in Handlers : run[h].pc \in Attending /\ Mail(h) \notin interrupted => run[h].heard
Serves ==
  kind = "resend" =>
    \A d \in claims :
      \/ Kept(MailOf(d)) \/ MailOf(d) \in interrupted
      \/ \E h \in Handlers : run[h].pc \in Working /\ Of(h) = d
Stage ==
  \A h \in Handlers :
    /\ run[h].pc \in {"unarchive", "attach"} => stored[Mail(h)] > 0
    /\ run[h].pc = "announce" => Mail(h) \in unrouted
    /\ run[h].pc = "classify" => ~run[h].heard
LossInv == Waits /\ Heeded /\ Serves /\ Stage /\ LossNeedsInterruption

\* What is kept stays kept.
Grows ==
  /\ \A m \in Mails : stored[m] <= stored'[m]
  /\ unrouted \subseteq unrouted' /\ interrupted \subseteq interrupted'

\* An invocation moves on; if the provider stops waiting for it, it is told the view.
Told(h, view) ==
  /\ run'[h].heard => run[h].heard
  /\ \A d \in Deliveries :
       post'[d] = IF run[h].heard /\ ~run'[h].heard /\ d = Of(h) THEN view ELSE post[d]

\* Moving on keeps the invariant, as long as nobody leaves a claim or takes an acceptance
\* for what is not kept.
LEMMA LossTurn ==
  ASSUME TypeOK, TypeOK', LossInv, NEW h \in Handlers, NEW step, NEW view \in {"due", "accepted"},
         Turn(h, step), Told(h, view), Grows, kind' = kind,
         claims' \subseteq claims \cup {Of(h)},
         Of(h) \in claims' \ claims => step \in Working \/ Mail(h) \in interrupted',
         kind = "resend" /\ run[h].pc \in Working /\ step \notin Working
           => Kept(Mail(h))' \/ Mail(h) \in interrupted' \/ Of(h) \notin claims',
         step \in Attending => run[h].pc \in Attending /\ run'[h].heard = run[h].heard,
         step \in {"unarchive", "attach"} => stored'[Mail(h)] > 0,
         step = "announce" => Mail(h) \in unrouted',
         step = "classify" => ~run'[h].heard,
         view = "accepted" /\ ~Kept(Mail(h))'
           => \/ kind = "resend" /\ Mail(h) \in interrupted'
              \/ ~run[h].heard \/ run'[h].heard
  PROVE  LossInv'
<1>1. \A k \in Handlers :
        Of(k)' = Of(k) /\ Mail(k)' = Mail(k) /\ Of(k) \in Deliveries /\ Mail(k) \in Mails
  BY MailTyped DEF Turn, Of, Mail
<1>2. \A k \in Handlers \ {h} : run'[k] = run[k]
  BY DEF Turn
<1>3. \A m \in Mails : Kept(m) => Kept(m)'
  BY DEF TypeOK, Grows, Kept
<1>4. \A d \in Deliveries : MailOf(d) \in Mails
  BY MailOfType
<1>5. Waits'
  BY <1>1, <1>2 DEF LossInv, Waits, Told
<1>6. Heeded'
  BY <1>1, <1>2, Places DEF LossInv, Heeded, Grows, Turn
<1>7. Serves'
  <2> SUFFICES ASSUME kind = "resend", NEW d \in claims',
                      ~Kept(MailOf(d))', MailOf(d) \notin interrupted'
               PROVE  \E k \in Handlers : run'[k].pc \in Working /\ Of(k)' = d
    BY DEF Serves
  <2>1. d \in Deliveries
    BY DEF TypeOK
  <2>2. CASE d \notin claims
    <3>1. d = Of(h) /\ Mail(h) = MailOf(d)
      BY <2>2 DEF Mail, Of
    <3>2. step \in Working
      BY <2>2, <3>1
    <3> QED BY <1>1, <3>1, <3>2 DEF Turn
  <2>3. CASE d \in claims
    <3>1. PICK k \in Handlers : run[k].pc \in Working /\ Of(k) = d
      BY <1>3, <1>4, <2>1, <2>3 DEF LossInv, Serves, Grows
    <3>2. CASE k # h
      BY <1>1, <1>2, <3>1, <3>2
    <3>3. CASE k = h
      <4>1. Mail(h) = MailOf(d)
        BY <3>1, <3>3 DEF Mail, Of
      <4>2. step \in Working
        BY <1>1, <3>1, <3>3, <4>1 DEF Kept
      <4> QED BY <1>1, <3>1, <3>3, <4>2 DEF Turn
    <3> QED BY <3>2, <3>3
  <2> QED BY <2>2, <2>3
<1>8. Stage'
  <2> SUFFICES ASSUME NEW k \in Handlers
               PROVE  /\ run'[k].pc \in {"unarchive", "attach"} => stored'[Mail(k)] > 0
                      /\ run'[k].pc = "announce" => Mail(k) \in unrouted'
                      /\ run'[k].pc = "classify" => ~run'[k].heard
    BY <1>1 DEF Stage
  <2>1. CASE k = h
    BY <2>1 DEF Turn
  <2>2. CASE k # h
    <3>1. run'[k] = run[k] /\ Mail(k) \in Mails
      BY <1>1, <1>2, <2>2
    <3>2. stored[Mail(k)] \in Nat /\ stored'[Mail(k)] \in Nat
          /\ stored[Mail(k)] <= stored'[Mail(k)]
      BY <3>1 DEF TypeOK, Grows
    <3> QED BY <3>1, <3>2 DEF LossInv, Stage, Grows
  <2> QED BY <2>1, <2>2
<1>9. LossNeedsInterruption'
  <2> SUFFICES ASSUME NEW d \in Deliveries, post'[d] = "accepted", ~Kept(MailOf(d))'
               PROVE  kind = "resend" /\ MailOf(d) \in interrupted'
    BY DEF LossNeedsInterruption
  <2>1. CASE post[d] = "accepted"
    BY <1>3, <1>4, <2>1 DEF LossInv, LossNeedsInterruption, Grows
  <2>2. CASE post[d] # "accepted"
    <3>1. run[h].heard /\ ~run'[h].heard /\ d = Of(h) /\ view = "accepted"
      BY <2>2 DEF Told
    <3>2. Mail(h) = MailOf(d)
      BY <3>1 DEF Mail, Of
    <3> QED BY <1>1, <3>1, <3>2 DEF Kept
  <2> QED BY <2>1, <2>2
<1> QED BY <1>5, <1>6, <1>7, <1>8, <1>9 DEF LossInv

\* Goto tells the provider nothing.
LEMMA GotoTold ==
  ASSUME TypeOK, NEW h \in Handlers, NEW step, Goto(h, step)
  PROVE  Turn(h, step) /\ run'[h].heard = run[h].heard /\ Told(h, "due")
BY GotoTurns DEF Told

\* Answer tells the provider the view, if it still waits.
LEMMA AnswerTold ==
  ASSUME TypeOK, NEW h \in Handlers, NEW view, Answer(h, view)
  PROVE  Turn(h, "idle") /\ ~run'[h].heard /\ Told(h, view)
BY AnswerTurns, ReplyTurns DEF Told

\* A claimed event is answered with success: either its message is kept, or somebody works
\* on it, whom the provider would have to listen to instead, or it was interrupted.
LEMMA LossClaim ==
  ASSUME TypeOK, TypeOK', LossInv, NEW h \in Handlers, Claim(h)
  PROVE  LossInv'
<1>1. kind = "resend" /\ kind' = kind /\ run[h].pc = "claim"
  BY DEF Claim, At, TypeOK, StepsOn
<1>2. Grows
  BY DEF Claim, history, Grows, TypeOK
<1>3. "idle" \notin Attending /\ "exists" \in Attending /\ run[h].pc \in Attending \ Working
  BY <1>1, Places DEF Attending
<1>4. CASE Of(h) \in claims
  <2>1. Turn(h, "idle") /\ ~run'[h].heard /\ Told(h, "accepted") /\ claims' = claims
    BY <1>4, AnswerTold DEF Claim
  <2>2. Kept(Mail(h)) \/ Mail(h) \in interrupted \/ ~run[h].heard
    <3> SUFFICES ASSUME ~Kept(Mail(h)), Mail(h) \notin interrupted, run[h].heard PROVE FALSE
      OBVIOUS
    <3>1. PICK k \in Handlers : run[k].pc \in Working /\ Of(k) = Of(h)
      BY <1>1, <1>4 DEF LossInv, Serves, Mail, Of
    <3>2. run[k].heard
      BY <3>1 DEF LossInv, Heeded, Attending, Mail, Of
    <3>3. k = h
      BY <3>1, <3>2 DEF LossInv, Waits
    <3> QED BY <1>3, <3>1, <3>3
  <2>3. Kept(Mail(h)) => Kept(Mail(h))'
    <3>1. Mail(h)' = Mail(h) /\ Mail(h) \in Mails
      BY <2>1, MailTyped DEF Turn, Mail, Of
    <3> QED BY <3>1 DEF Kept, Claim
  <2> QED BY <1>1, <1>2, <1>3, <2>1, <2>2, <2>3, LossTurn DEF Grows
<1>5. CASE Of(h) \notin claims
  <2>1. /\ Turn(h, "exists") /\ run'[h].heard = run[h].heard /\ Told(h, "due")
        /\ claims' = claims \cup {Of(h)}
    BY <1>5, GotoTold DEF Claim
  <2> QED BY <1>1, <1>2, <1>3, <2>1, LossTurn, Places
<1> QED BY <1>4, <1>5

\* Moves inside the attempt on which nothing is answered.
LEMMA LossGoto ==
  ASSUME TypeOK, TypeOK', LossInv, NEW h \in Handlers, NEW step \in Working, Goto(h, step),
         run[h].pc \in Working, Grows, UNCHANGED <<kind, claims>>,
         step \in {"unarchive", "attach"} => stored'[Mail(h)] > 0,
         step = "announce" => Mail(h) \in unrouted'
  PROVE  LossInv'
<1>1. Turn(h, step) /\ run'[h].heard = run[h].heard /\ Told(h, "due")
  BY GotoTold
<1> QED BY <1>1, LossTurn, Places DEF Attending

\* An attempt that ends with what is kept, or that gives its claim back, or is interrupted.
LEMMA LossAnswer ==
  ASSUME TypeOK, TypeOK', LossInv, NEW h \in Handlers, NEW view \in {"due", "accepted"},
         Answer(h, view), Grows, kind' = kind, claims' \subseteq claims \cup {Of(h)},
         Of(h) \in claims' \ claims => Mail(h) \in interrupted',
         view = "accepted" => Kept(Mail(h))' \/ ~run[h].heard,
         kind = "resend" /\ run[h].pc \in Working
           => Kept(Mail(h))' \/ Mail(h) \in interrupted' \/ Of(h) \notin claims'
  PROVE  LossInv'
<1>1. Turn(h, "idle") /\ ~run'[h].heard /\ Told(h, view)
  BY AnswerTold
<1> QED BY <1>1, LossTurn, Places DEF Attending

\* The steps of a handler.
LEMMA LossHandler ==
  ASSUME TypeOK, TypeOK', LossInv, NEW h \in Handlers, Step(h)
  PROVE  LossInv'
<1> USE DEF At
<1>1. Mail(h) \in Mails /\ stored[Mail(h)] \in Nat
  BY MailTyped DEF TypeOK
<1>2. \A view : Answer(h, view) => Mail(h)' = Mail(h)
  BY AnswerTurns DEF Turn, Mail, Of
<1>3. CASE Release(h)
  <2>1. Grows /\ Answer(h, "due") /\ kind' = kind /\ claims' = claims \ {Of(h)}
    BY <1>3 DEF Release, Grows, TypeOK, history
  <2> QED BY <2>1, LossAnswer
<1>4. CASE Exists(h)
  <2>1. Grows /\ UNCHANGED <<kind, claims, stored>> /\ run[h].pc \in Working
    BY <1>4, Places DEF Exists, Grows, TypeOK, tables, history
  <2>2. CASE Answer(h, "accepted") /\ stored[Mail(h)] > 0
    BY <1>2, <2>1, <2>2, LossAnswer DEF Kept
  <2>3. CASE Goto(h, "fetch") \/ Goto(h, "route")
    BY <2>1, <2>3, LossGoto DEF Working, Fallible
  <2> QED BY <1>4, <2>2, <2>3 DEF Exists
<1>5. CASE Fetch(h) \/ ExactRoute(h) \/ CatchallRoute(h)
  <2>1. Grows /\ UNCHANGED <<kind, claims>> /\ run[h].pc \in Working
    BY <1>5 DEF Fetch, ExactRoute, CatchallRoute, Grows, TypeOK, tables, history,
                Working, Fallible
  <2>2. PICK step \in {"route", "insert", "catchall", "unrouted"} : Goto(h, step)
    BY <1>5 DEF Fetch, ExactRoute, CatchallRoute
  <2> QED BY <2>1, <2>2, LossGoto DEF Working, Fallible
<1>6. CASE RecordUnrouted(h)
  <2>1. Grows /\ UNCHANGED <<kind, claims>> /\ run[h].pc \in Working /\ Mail(h) \in unrouted'
    BY <1>6 DEF RecordUnrouted, Grows, TypeOK, history, Working, Fallible
  <2>2. CASE Answer(h, "accepted")
    BY <1>2, <2>1, <2>2, LossAnswer DEF Kept
  <2>3. CASE Goto(h, "announce")
    BY <2>1, <2>3, LossGoto, Places
  <2> QED BY <1>6, <2>2, <2>3 DEF RecordUnrouted
<1>7. CASE AnnounceUnrouted(h)
  <2>1. /\ Grows /\ UNCHANGED <<kind, claims>> /\ Mail(h) \in unrouted'
        /\ Answer(h, "accepted")
    BY <1>7 DEF AnnounceUnrouted, Grows, TypeOK, tables, history, LossInv, Stage
  <2> QED BY <1>2, <2>1, LossAnswer DEF Kept
<1>8. CASE Insert(h)
  <2>1. /\ UNCHANGED <<kind, claims, unrouted, interrupted>> /\ run[h].pc \in Working
        /\ Goto(h, "unarchive")
    BY <1>8 DEF Insert, history, Working, Fallible
  <2>2. Grows /\ stored'[Mail(h)] > 0
    BY <1>1, <1>8, <2>1 DEF Insert, Grows, TypeOK
  <2> QED BY <2>1, <2>2, LossGoto, Places
<1>9. CASE Unarchive(h)
  <2>1. /\ Grows /\ UNCHANGED <<kind, claims>> /\ run[h].pc \in Working
        /\ Goto(h, "attach") /\ stored'[Mail(h)] > 0
    BY <1>9, Places DEF Unarchive, Grows, TypeOK, tables, history, LossInv, Stage
  <2> QED BY <2>1, LossGoto, Places
<1>10. CASE Attach(h)
  <2>1. /\ Grows /\ UNCHANGED <<kind, claims, stored>> /\ Reply(h, "accepted")
        /\ stored[Mail(h)] > 0
    BY <1>10 DEF Attach, Grows, TypeOK, tables, history, LossInv, Stage
  <2>2. Turn(h, "classify") /\ ~run'[h].heard
    BY <1>10 DEF Attach, TypeOK, Turn
  <2>3. Told(h, "accepted")
    BY <2>1, <2>2, ReplyTurns DEF Told
  <2>4. Kept(Mail(h))'
    BY <2>1, <2>2 DEF Kept, Turn, Mail, Of
  <2> QED BY <2>1, <2>2, <2>3, <2>4, LossTurn, Places DEF Attending
<1>11. CASE ClassifyThenNotify(h)
  <2>1. /\ Grows /\ UNCHANGED <<kind, claims>> /\ ~run[h].heard /\ run[h].pc \notin Working
        /\ Answer(h, "accepted")
    BY <1>11, Places
       DEF ClassifyThenNotify, Grows, TypeOK, tables, history, LossInv, Stage
  <2> QED BY <2>1, LossAnswer
<1> QED BY <1>3, <1>4, <1>5, <1>6, <1>7, <1>8, <1>9, <1>10, <1>11, LossClaim DEF Step

\* Failing calls and deaths: an error leads to the release or comes before the claim, everything
\* else is an interruption.
LEMMA LossFault ==
  ASSUME TypeOK, TypeOK', LossInv, NEW h \in Handlers, Fails(h) \/ Dies(h)
  PROVE  LossInv'
<1>1. Grows /\ UNCHANGED <<kind, stored, unrouted>> /\ claims' \subseteq claims \cup {Of(h)}
  BY DEF Fails, Dies, Grows, TypeOK, tables
<1>2. CASE Goto(h, "release") /\ run[h].pc \in Fallible /\ claims' = claims
  BY <1>1, <1>2, LossGoto, Places DEF Working
<1>3. CASE Answer(h, "due") /\ Mail(h) \in interrupted'
  BY <1>1, <1>3, LossAnswer
<1>4. CASE Answer(h, "due") /\ At(h, "claim") /\ claims' = claims
  BY <1>1, <1>4, LossAnswer, Places DEF At
<1>5. CASE Answer(h, "due") /\ kind = "cloudflare" /\ claims' = claims
  BY <1>1, <1>5, LossAnswer
<1>6. CASE Fails(h)
  BY <1>2, <1>3, <1>4, <1>5, <1>6 DEF Fails
<1>7. CASE Dies(h)
  BY <1>3, <1>7 DEF Dies
<1> QED BY <1>6, <1>7

\* The provider submits, starts an attempt or gives one up: nobody who is at work stops.
LEMMA LossProvider ==
  ASSUME TypeOK, LossInv, NEW h \in Handlers, NEW d \in Deliveries,
         Submit(d) \/ Attempt(h, d) \/ GiveUp(h)
  PROVE  LossInv'
<1>1. UNCHANGED <<kind, claims, stored, unrouted>> /\ interrupted \subseteq interrupted'
  BY DEF Submit, Attempt, GiveUp, tables, history
<1>2. \A m : Kept(m)' <=> Kept(m)
  BY <1>1 DEF Kept
<1>3. \A e \in Deliveries : MailOf(e) \in Mails
  BY MailOfType
<1>4. CASE Submit(d)
  <2>1. UNCHANGED <<run, interrupted>>
    BY <1>4 DEF Submit, history
  <2>2. \A k \in Handlers : Of(k)' = Of(k) /\ Mail(k)' = Mail(k) /\ Of(k) \in Deliveries
    BY <2>1, MailTyped DEF Of, Mail
  <2>3. \A e \in Deliveries : post'[e] = IF e = d THEN "due" ELSE post[e]
    BY <1>4 DEF Submit, TypeOK
  <2>4. post[d] = "none"
    BY <1>4 DEF Submit
  <2>5. Waits'
    BY <2>1, <2>2, <2>3, <2>4 DEF LossInv, Waits
  <2>6. Heeded' /\ Serves' /\ Stage'
    BY <1>1, <1>2, <2>1, <2>2 DEF LossInv, Heeded, Serves, Stage
  <2>7. LossNeedsInterruption'
    BY <1>1, <1>2, <2>1, <2>3 DEF LossInv, LossNeedsInterruption
  <2> QED BY <2>5, <2>6, <2>7 DEF LossInv
<1>5. CASE Attempt(h, d)
  <2>1. /\ run'[h].pc \in {"claim", "exists"} /\ run'[h].of = d /\ run'[h].heard
        /\ \A k \in Handlers \ {h} : run'[k] = run[k]
    BY <1>5 DEF Attempt, TypeOK
  <2>2. /\ post[d] = "due" /\ run[h].pc = "idle" /\ interrupted' = interrupted
        /\ \A e \in Deliveries : post'[e] = IF e = d THEN "waiting" ELSE post[e]
    BY <1>5 DEF Attempt, TypeOK, At
  <2>3. Of(h)' = d
    BY <2>1 DEF Of
  <2>4. \A k \in Handlers \ {h} : Of(k)' = Of(k) /\ Mail(k)' = Mail(k) /\ Of(k) \in Deliveries
    BY <2>1, MailTyped DEF Of, Mail
  <2>5. Waits'
    BY <2>1, <2>2, <2>3, <2>4 DEF LossInv, Waits
  <2>6. Heeded' /\ Stage'
    BY <1>1, <2>1, <2>2, <2>4 DEF LossInv, Heeded, Stage
  <2>7. Serves'
    <3> SUFFICES ASSUME kind = "resend", NEW e \in claims, ~Kept(MailOf(e)),
                        MailOf(e) \notin interrupted
                 PROVE  \E k \in Handlers : run'[k].pc \in Working /\ Of(k)' = e
      BY <1>1, <1>2, <2>2 DEF Serves
    <3>1. PICK k \in Handlers : run[k].pc \in Working /\ Of(k) = e
      BY DEF LossInv, Serves
    <3>2. k # h
      BY <2>2, <3>1, Places
    <3> QED BY <2>1, <2>4, <3>1, <3>2
  <2>8. LossNeedsInterruption'
    BY <1>1, <1>2, <2>2 DEF LossInv, LossNeedsInterruption
  <2> QED BY <2>5, <2>6, <2>7, <2>8 DEF LossInv
<1>6. CASE GiveUp(h)
  <2>1. \A k \in Handlers :
          /\ run'[k].pc = run[k].pc /\ Of(k)' = Of(k) /\ Mail(k)' = Mail(k)
          /\ run'[k].heard => run[k].heard /\ k # h
          /\ k # h => run'[k].heard = run[k].heard
          /\ Of(k) \in Deliveries
    <3>1. run' = [run EXCEPT ![h].heard = FALSE]
      BY <1>6 DEF GiveUp
    <3>2. \A k \in Handlers : run'[k] = IF k = h THEN [run[k] EXCEPT !.heard = FALSE] ELSE run[k]
      BY <3>1 DEF TypeOK
    <3>3. \A k \in Handlers :
            /\ run'[k].pc = run[k].pc /\ run'[k].of = run[k].of
            /\ run'[k].heard => run[k].heard /\ k # h
            /\ k # h => run'[k].heard = run[k].heard
      BY <3>2 DEF TypeOK
    <3> QED BY <3>3, MailTyped DEF Of, Mail
  <2>2. run[h].heard /\ Mail(h) \in interrupted'
    BY <1>6 DEF GiveUp
  <2>3. \A e \in Deliveries : post'[e] = IF e = Of(h) THEN "due" ELSE post[e]
    BY <1>6, <2>1 DEF GiveUp, TypeOK
  <2>4. Waits'
    BY <2>1, <2>2, <2>3 DEF LossInv, Waits
  <2>5. Heeded' /\ Stage'
    BY <1>1, <2>1, <2>2 DEF LossInv, Heeded, Stage
  <2>6. Serves'
    BY <1>1, <1>2, <2>1 DEF LossInv, Serves
  <2>7. LossNeedsInterruption'
    BY <1>1, <1>2, <2>3 DEF LossInv, LossNeedsInterruption
  <2> QED BY <2>4, <2>5, <2>6, <2>7 DEF LossInv
<1> QED BY <1>4, <1>5, <1>6

\* What the provider was told is done is kept, unless a Resend attempt was interrupted.
THEOREM LossStep == TypeOK /\ LossInv /\ [Next]_vars => LossInv'
<1> SUFFICES ASSUME TypeOK, LossInv, [Next]_vars PROVE LossInv'
  OBVIOUS
<1>1. TypeOK'
  BY TypeStep
<1>2. CASE ChangeAddresses \/ SetCatchall \/ UNCHANGED vars
  <2>1. UNCHANGED <<kind, interrupted, stored, unrouted, claims, post, run>>
    BY <1>2 DEF ChangeAddresses, SetCatchall, vars, tables, history
  <2> QED BY <2>1
      DEF LossInv, Waits, Heeded, Serves, Stage, LossNeedsInterruption, Kept, Of, Mail
<1>3. \E h \in Handlers : TRUE
  BY InboundAssumption
<1>4. \E d \in Deliveries : TRUE
  BY InboundAssumption
<1> QED BY <1>1, <1>2, <1>3, <1>4, LossProvider, LossHandler, LossFault DEF Next

\* A message the provider was told is done is in a mailbox or on the unrouted list, except on
\* Resend when an attempt at it died, was given up on, or left its claim behind because the
\* call that makes or releases the claim threw.
THEOREM OnlyInterruptionsLose == Spec => []LossNeedsInterruption
<1>1. Init => TypeOK
  BY InboundAssumption DEF Init, Idle, TypeOK, StepsOn
<1>2. Init => LossInv
  BY Places DEF Init, Idle, LossInv, Waits, Heeded, Serves, Stage, Attending,
                LossNeedsInterruption
<1>3. LossInv => LossNeedsInterruption
  BY DEF LossInv
<1> QED BY <1>1, <1>2, <1>3, TypeStep, LossStep, PTL DEF Spec

-----------------------------------------------------------------------------
(* Announcing a message twice *)

\* Attempts that have recorded the message and may yet announce it.
Pending == {"announce", "unarchive", "attach", "classify"}
Owing(m) == {h \in Handlers : run[h].pc \in Pending /\ Mail(h) = m}
Records(m) == stored[m] + (IF m \in unrouted THEN 1 ELSE 0)

\* Every record is announced, owed by the attempt that made it, or will never be announced.
AnnounceInv ==
  \A m \in Mails :
    IsFiniteSet(Owing(m)) /\ announced[m] + Cardinality(Owing(m)) <= Records(m)

\* The counts are numbers.
LEMMA Counts ==
  ASSUME TypeOK, NEW m \in Mails
  PROVE  announced[m] \in Nat /\ stored[m] \in Nat /\ Records(m) \in Nat
BY DEF TypeOK, Records

\* The attempts that owe an announcement of a message after one of them moved on.
LEMMA OwingTurn ==
  ASSUME TypeOK, NEW h \in Handlers, NEW step, Turn(h, step), NEW m \in Mails
  PROVE  Owing(m)' = IF step \in Pending /\ Mail(h) = m
                     THEN Owing(m) \cup {h} ELSE Owing(m) \ {h}
<1>1. \A k \in Handlers : Mail(k)' = Mail(k)
  BY DEF Turn, Mail
<1>2. \A k \in Handlers : k # h => run'[k].pc = run[k].pc
  BY DEF Turn
<1>3. run'[h].pc = step
  BY DEF Turn
<1> QED BY <1>1, <1>2, <1>3 DEF Owing

\* An attempt moves on without a record: it owes nothing that it did not owe before, and what
\* it announces it owes no more.
LEMMA AnnounceTurn ==
  ASSUME TypeOK, TypeOK', AnnounceInv, NEW h \in Handlers, NEW step, Turn(h, step),
         UNCHANGED <<stored, unrouted>>,
         step \in Pending => run[h].pc \in Pending,
         \/ announced' = announced
         \/ /\ announced' = [announced EXCEPT ![Mail(h)] = @ + 1]
            /\ run[h].pc \in Pending /\ step \notin Pending
  PROVE  AnnounceInv'
<1> SUFFICES ASSUME NEW m \in Mails
             PROVE  IsFiniteSet(Owing(m)') /\ announced'[m] + Cardinality(Owing(m)') <= Records(m)'
  BY DEF AnnounceInv
<1>1. /\ IsFiniteSet(Owing(m)) /\ announced[m] + Cardinality(Owing(m)) <= Records(m)
      /\ Records(m)' = Records(m)
  BY DEF AnnounceInv, Records
<1>2. /\ announced[m] \in Nat /\ Records(m) \in Nat /\ Cardinality(Owing(m)) \in Nat
      /\ announced'[m] \in Nat
  BY <1>1, Counts, FS_CardinalityType DEF TypeOK
<1>3. h \in Owing(m) <=> run[h].pc \in Pending /\ Mail(h) = m
  BY DEF Owing
<1>4. CASE step \in Pending /\ Mail(h) = m
  <2>1. Owing(m)' = Owing(m)
    BY <1>3, <1>4, OwingTurn
  <2> QED BY <1>1, <1>4, <2>1
<1>5. CASE ~(step \in Pending /\ Mail(h) = m)
  <2>1. Owing(m)' = Owing(m) \ {h}
    BY <1>5, OwingTurn
  <2>2. /\ IsFiniteSet(Owing(m)')
        /\ Cardinality(Owing(m)') = IF h \in Owing(m) THEN Cardinality(Owing(m)) - 1
                                    ELSE Cardinality(Owing(m))
    BY <1>1, <2>1, FS_RemoveElement
  <2>3. CASE announced' = announced
    BY <1>1, <1>2, <2>2, <2>3
  <2>4. CASE /\ announced' = [announced EXCEPT ![Mail(h)] = @ + 1]
             /\ run[h].pc \in Pending
    <3>1. announced'[m] = IF m = Mail(h) THEN announced[m] + 1 ELSE announced[m]
      BY <2>4 DEF TypeOK
    <3>2. m = Mail(h) => h \in Owing(m)
      BY <1>3, <2>4
    <3> HIDE DEF Owing, Records
    <3> QED BY <1>1, <1>2, <2>2, <3>1, <3>2
  <2> QED BY <2>3, <2>4
<1> QED BY <1>4, <1>5

\* An attempt makes a record, and owes its announcement from then on.
LEMMA AnnounceRecord ==
  ASSUME TypeOK, TypeOK', AnnounceInv, NEW h \in Handlers, NEW step \in Pending, Turn(h, step),
         announced' = announced,
         \A m \in Mails : Records(m)' = IF m = Mail(h) THEN Records(m) + 1 ELSE Records(m)
  PROVE  AnnounceInv'
<1> SUFFICES ASSUME NEW m \in Mails
             PROVE  IsFiniteSet(Owing(m)') /\ announced'[m] + Cardinality(Owing(m)') <= Records(m)'
  BY DEF AnnounceInv
<1>1. IsFiniteSet(Owing(m)) /\ announced[m] + Cardinality(Owing(m)) <= Records(m)
  BY DEF AnnounceInv
<1>2. announced[m] \in Nat /\ Records(m) \in Nat /\ Cardinality(Owing(m)) \in Nat
  BY <1>1, Counts, FS_CardinalityType
<1>3. CASE m = Mail(h)
  <2>1. Owing(m)' = Owing(m) \cup {h}
    BY <1>3, OwingTurn
  <2>2. /\ IsFiniteSet(Owing(m) \cup {h})
        /\ Cardinality(Owing(m) \cup {h}) \in {Cardinality(Owing(m)), Cardinality(Owing(m)) + 1}
    BY <1>1, FS_AddElement
  <2>3. Records(m)' = Records(m) + 1
    BY <1>3
  <2> QED BY <1>1, <1>2, <2>1, <2>2, <2>3
<1>4. CASE m # Mail(h)
  <2>1. Owing(m)' = Owing(m) \ {h}
    BY <1>4, OwingTurn
  <2>2. h \notin Owing(m)
    BY <1>4 DEF Owing
  <2>3. Owing(m)' = Owing(m)
    BY <2>1, <2>2
  <2>4. Records(m)' = Records(m)
    BY <1>4
  <2> QED BY <1>1, <2>3, <2>4
<1> QED BY <1>3, <1>4

\* The handlers' own steps: a record is made where one announcement of it begins.
LEMMA AnnounceHandler ==
  ASSUME TypeOK, TypeOK', AnnounceInv, NEW h \in Handlers, Step(h)
  PROVE  AnnounceInv'
<1> USE DEF At
<1>1. {"idle", "exists", "fetch", "route", "catchall", "unrouted", "insert"} \cap Pending = {}
  BY DEF Pending
<1>2. Mail(h) \in Mails
  BY MailTyped
<1>3. CASE Claim(h) \/ Release(h) \/ Exists(h) \/ Fetch(h) \/ ExactRoute(h) \/ CatchallRoute(h)
  <2>1. UNCHANGED <<stored, unrouted, announced>>
    BY <1>3 DEF Claim, Release, Exists, Fetch, ExactRoute, CatchallRoute, tables
  <2>2. PICK step \in {"idle", "exists", "fetch", "route", "catchall", "unrouted", "insert"} :
          Turn(h, step)
    BY <1>3, GotoTurns, AnswerTurns
       DEF Claim, Release, Exists, Fetch, ExactRoute, CatchallRoute
  <2> QED BY <1>1, <2>1, <2>2, AnnounceTurn
<1>4. CASE RecordUnrouted(h)
  <2>1. UNCHANGED <<stored, announced>> /\ unrouted' = unrouted \cup {Mail(h)}
    BY <1>4 DEF RecordUnrouted
  <2>2. CASE Mail(h) \in unrouted /\ Answer(h, "accepted")
    <3>1. Turn(h, "idle") /\ unrouted' = unrouted
      BY <2>1, <2>2, AnswerTurns
    <3> QED BY <1>1, <2>1, <3>1, AnnounceTurn
  <2>3. CASE Mail(h) \notin unrouted /\ Goto(h, "announce")
    <3>1. Turn(h, "announce") /\ "announce" \in Pending
      BY <2>3, GotoTurns DEF Pending
    <3>2. \A m \in Mails : Records(m)' = IF m = Mail(h) THEN Records(m) + 1 ELSE Records(m)
      BY <2>1, <2>3, Counts DEF Records, TypeOK
    <3> QED BY <2>1, <3>1, <3>2, AnnounceRecord
  <2> QED BY <1>4, <2>2, <2>3 DEF RecordUnrouted
<1>5. CASE Insert(h)
  <2>1. UNCHANGED <<unrouted, announced>> /\ stored' = [stored EXCEPT ![Mail(h)] = @ + 1]
    BY <1>5 DEF Insert
  <2>2. Turn(h, "unarchive") /\ "unarchive" \in Pending
    BY <1>5, GotoTurns DEF Insert, Pending
  <2>3. \A m \in Mails : stored'[m] = IF m = Mail(h) THEN stored[m] + 1 ELSE stored[m]
    BY <2>1 DEF TypeOK
  <2>4. \A m \in Mails : Records(m)' = IF m = Mail(h) THEN Records(m) + 1 ELSE Records(m)
    BY <2>1, <2>3, Counts DEF Records
  <2> QED BY <2>1, <2>2, <2>4, AnnounceRecord
<1>6. CASE AnnounceUnrouted(h) \/ ClassifyThenNotify(h)
  <2>1. UNCHANGED <<stored, unrouted>> /\ Turn(h, "idle") /\ run[h].pc \in Pending
    BY <1>6, AnswerTurns DEF AnnounceUnrouted, ClassifyThenNotify, tables, Pending
  <2>2. announced' = announced \/ announced' = [announced EXCEPT ![Mail(h)] = @ + 1]
    BY <1>6 DEF AnnounceUnrouted, ClassifyThenNotify
  <2> QED BY <1>1, <2>1, <2>2, AnnounceTurn
<1>7. CASE Unarchive(h) \/ Attach(h)
  <2>1. UNCHANGED <<stored, unrouted, announced>> /\ run[h].pc \in Pending
    BY <1>7 DEF Unarchive, Attach, tables, Pending
  <2>2. CASE Unarchive(h)
    BY <2>1, <2>2, GotoTurns, AnnounceTurn DEF Unarchive
  <2>3. CASE Attach(h)
    <3>1. Turn(h, "classify")
      BY <2>3 DEF Attach, TypeOK, Turn
    <3> QED BY <2>1, <3>1, AnnounceTurn
  <2> QED BY <1>7, <2>2, <2>3
<1> QED BY <1>3, <1>4, <1>5, <1>6, <1>7 DEF Step

\* Whatever happens keeps the announcements within the records.
LEMMA AnnounceStep == TypeOK /\ AnnounceInv /\ [Next]_vars => AnnounceInv'
<1> SUFFICES ASSUME TypeOK, AnnounceInv, [Next]_vars PROVE AnnounceInv'
  OBVIOUS
<1>1. TypeOK'
  BY TypeStep
<1>2. ASSUME UNCHANGED <<stored, unrouted, announced>>, \A m \in Mails : Owing(m)' = Owing(m)
      PROVE  AnnounceInv'
  BY <1>2 DEF AnnounceInv, Records
<1>3. CASE ChangeAddresses \/ SetCatchall \/ UNCHANGED vars \/ \E d \in Deliveries : Submit(d)
  <2>1. UNCHANGED <<stored, unrouted, announced, run>>
    BY <1>3 DEF ChangeAddresses, SetCatchall, Submit, vars, tables
  <2> QED BY <1>2, <2>1 DEF Owing, Mail
<1>4. ASSUME NEW h \in Handlers, NEW d \in Deliveries, Attempt(h, d) PROVE AnnounceInv'
  <2>1. UNCHANGED <<stored, unrouted, announced>>
    BY <1>4 DEF Attempt, tables
  <2>2. /\ run[h].pc \notin Pending /\ run'[h].pc \notin Pending
        /\ \A k \in Handlers \ {h} : run'[k] = run[k]
    BY <1>4 DEF Attempt, TypeOK, At, Pending
  <2> QED BY <1>2, <2>1, <2>2 DEF Owing, Mail
<1>5. ASSUME NEW h \in Handlers, GiveUp(h) PROVE AnnounceInv'
  <2>1. UNCHANGED <<stored, unrouted, announced>>
    BY <1>5 DEF GiveUp, tables
  <2>2. \A k \in Handlers : run'[k].pc = run[k].pc /\ run'[k].of = run[k].of
    BY <1>5 DEF GiveUp, TypeOK
  <2> QED BY <1>2, <2>1, <2>2 DEF Owing, Mail
<1>6. ASSUME NEW h \in Handlers, Fails(h) \/ Dies(h) PROVE AnnounceInv'
  <2>1. UNCHANGED <<stored, unrouted, announced>>
    BY <1>6 DEF Fails, Dies, tables
  <2>2. PICK step \in {"idle", "release"} : Turn(h, step)
    BY <1>6, GotoTurns, AnswerTurns DEF Fails, Dies
  <2> QED BY <1>1, <2>1, <2>2, AnnounceTurn DEF Pending
<1> QED BY <1>1, <1>3, <1>4, <1>5, <1>6, AnnounceHandler DEF Next

\* No record of a message, in a mailbox or on the unrouted list, is announced twice, for any
\* number of redeliveries, overlapping attempts, failing calls and deaths.
THEOREM AnnouncedOnceOnly == Spec => []AnnouncedOnce
<1>1. Init => TypeOK
  BY InboundAssumption DEF Init, Idle, TypeOK, StepsOn
<1>2. Init => AnnounceInv
  <2> SUFFICES ASSUME Init, NEW m \in Mails
               PROVE  IsFiniteSet(Owing(m)) /\ announced[m] + Cardinality(Owing(m)) <= Records(m)
    BY DEF AnnounceInv
  <2>1. Owing(m) = {}
    BY DEF Init, Idle, Owing, Pending
  <2>2. announced[m] = 0 /\ Records(m) = 0
    BY DEF Init, Records
  <2> QED BY <2>1, <2>2, FS_EmptySet
<1>3. TypeOK /\ AnnounceInv => AnnouncedOnce
  <2> SUFFICES ASSUME TypeOK, AnnounceInv, NEW m \in Mails PROVE announced[m] <= Records(m)
    BY DEF AnnouncedOnce, Records
  <2>1. /\ Cardinality(Owing(m)) \in Nat /\ announced[m] \in Nat /\ Records(m) \in Nat
        /\ announced[m] + Cardinality(Owing(m)) <= Records(m)
    BY Counts, FS_CardinalityType DEF AnnounceInv
  <2> QED BY <2>1
<1> QED BY <1>1, <1>2, <1>3, TypeStep, AnnounceStep, PTL DEF Spec
=============================================================================
