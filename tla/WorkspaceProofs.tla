-------------------------- MODULE WorkspaceProofs --------------------------
(***************************************************************************)
(* Theorems about the parts of the workspace that share no state: what the *)
(* scheduled worker does under leases (refreshing calendars, handing       *)
(* notices and automatic replies to the outbox, announcing reminders),     *)
(* what begins and ends (meetings with their rooms, accounts with their    *)
(* administrators and attachments), and that the workspace as a whole      *)
(* behaves, in each part, as that part does alone.  They hold for every    *)
(* number of overlapping invocations, visitors, users and messages.        *)
(***************************************************************************)
EXTENDS MCWorkspace, TabProofs

-----------------------------------------------------------------------------
(* Subscribed calendars *)

\* A claim is held by one fetcher; who holds the lease has fetched a state of the feed no older
\* than the one that the events show, because nobody else has stored since it claimed.
Working == {"fetch", "store", "fail"}
FeedInv ==
  /\ FeedTypeOK
  /\ \A f \in Fetchers : fetcher[f].pc \in Working => fetcher[f].lease > 0
  /\ \A f, g \in Fetchers :
       /\ fetcher[f].pc \in Working /\ fetcher[g].pc \in Working
       /\ fetcher[f].lease = fetcher[g].lease
       => f = g
  /\ stored <= published
  /\ ~subscribed => stored = 0
  /\ \A f \in Fetchers : fetcher[f].pc = "store" =>
       /\ fetcher[f].got <= published
       /\ Holds(f) => stored <= fetcher[f].got

\* Every step keeps the invariant and never takes the events back.
LEMMA FeedStep ==
  FeedInv /\ [FeedNext]_feedVars
    => FeedInv' /\ (IF subscribed' THEN stored' >= stored ELSE stored' = 0)
<1> SUFFICES ASSUME FeedInv, [FeedNext]_feedVars
             PROVE  FeedInv' /\ (IF subscribed' THEN stored' >= stored ELSE stored' = 0)
  OBVIOUS
<1> USE FeedsAssumption DEF FeedInv, FeedTypeOK, Working, Holds
<1>1. ASSUME NEW f \in Fetchers, ListFeed(f) PROVE FeedInv' /\ UNCHANGED <<subscribed, stored>>
  BY <1>1 DEF ListFeed
<1>2. ASSUME NEW f \in Fetchers, ClaimFeed(f) PROVE FeedInv' /\ UNCHANGED <<subscribed, stored>>
  <2>1. CASE Free
    BY <1>2, <2>1 DEF ClaimFeed
  <2>2. CASE ~Free
    BY <1>2, <2>2 DEF ClaimFeed, Unused
  <2> QED BY <2>1, <2>2
<1>3. ASSUME NEW f \in Fetchers, Fetch(f) PROVE FeedInv' /\ UNCHANGED <<subscribed, stored>>
  BY <1>3 DEF Fetch
<1>4. ASSUME NEW f \in Fetchers, StoreFeed(f)
      PROVE  FeedInv' /\ (IF subscribed' THEN stored' >= stored ELSE stored' = 0)
  BY <1>4 DEF StoreFeed, Unused
<1>5. ASSUME NEW f \in Fetchers, FailFeed(f) \/ FetcherDies(f)
      PROVE  FeedInv' /\ UNCHANGED <<subscribed, stored>>
  BY <1>5 DEF FailFeed, FetcherDies, Unused
<1>6. CASE LeaseRunsOut
  <2>1. lapsed' \in BOOLEAN
    BY <1>6 DEF LeaseRunsOut
  <2>2. UNCHANGED <<published, subscribed, lease, claims, stored, fetcher>>
    BY <1>6 DEF LeaseRunsOut
  <2> QED BY <2>1, <2>2
<1>7. CASE Publish
  BY <1>7 DEF Publish
<1>8. CASE Unsubscribe
  <2>1. subscribed' \in BOOLEAN
    BY <1>8 DEF Unsubscribe
  <2>2. /\ ~subscribed' /\ stored' = 0 /\ lease' = 0
        /\ UNCHANGED <<published, lapsed, claims, fetcher>>
    BY <1>8 DEF Unsubscribe
  <2> QED BY <2>1, <2>2
<1>9. CASE UNCHANGED feedVars
  BY <1>9 DEF feedVars
<1> QED BY <1>1, <1>2, <1>3, <1>4, <1>5, <1>6, <1>7, <1>8, <1>9 DEF FeedNext

\* The initial states have the invariant.
LEMMA FeedInitial == FeedInit => FeedInv
<1> SUFFICES ASSUME FeedInit PROVE FeedInv
  OBVIOUS
<1>1. subscribed \in BOOLEAN /\ lapsed \in BOOLEAN
  BY DEF FeedInit
<1>2. Unused \in [pc : {"idle", "claim", "fetch", "store", "fail"}, lease : 0..claims,
                  got : 0..MaxPublished]
  BY FeedsAssumption DEF FeedInit, Unused
<1>3. subscribed /\ \A f \in Fetchers : fetcher[f].pc = "idle"
  BY DEF FeedInit, Unused
<1>4. FeedTypeOK
  BY <1>1, <1>2, FeedsAssumption DEF FeedInit, FeedTypeOK
<1>5. stored = 0 /\ published = 0
  BY DEF FeedInit
<1> QED BY <1>3, <1>4, <1>5 DEF FeedInv, Working

\* Every reachable state of a subscription is well typed.
THEOREM FeedTypeCorrect == FeedSpec => []FeedTypeOK
BY FeedInitial, FeedStep, PTL DEF FeedSpec, FeedInv

\* A refresh that was overtaken stores nothing: the events that a subscribed calendar shows never
\* go back to an earlier state of the feed, and none are left when the subscription has ended.
THEOREM FeedsGoForward == FeedSpec => FeedNeverGoesBack
BY FeedInitial, FeedStep, PTL DEF FeedSpec, FeedNeverGoesBack

-----------------------------------------------------------------------------
(* Automatic replies *)

\* Of two replies of one window, whatever becomes of them, one was decided again after a deletion,
\* and what an invocation hands over is one of them.
VacationInv ==
  /\ VacationTypeOK
  /\ \A r \in Repliers : replier[r].pc \in {"claim", "enqueue", "queued", "failed"}
       => replier[r].item \in Letters /\ reply[replier[r].item].state # "none"
  /\ \A r \in Repliers : replier[r].pc = "decide" => replier[r].item \in Letters
  /\ \A l \in handed : reply[l].state # "none"
  /\ \A k, l \in Letters :
       k # l /\ reply[k].state # "none" /\ reply[l].state # "none"
       /\ reply[k].window = reply[l].window
         => reply[k].again \/ reply[l].again

\* Changes of a reply that was made, its window and history aside.
LEMMA ReplyKept ==
  ASSUME VacationInv, NEW l \in Letters, NEW q, reply' = [reply EXCEPT ![l] = q],
         reply[l].state # "none", q.state # "none", q.window = reply[l].window,
         q.again = reply[l].again,
         VacationTypeOK', \A x \in handed' : x \in handed \/ reply[x].state # "none",
         \A r \in Repliers : replier'[r].pc \in {"idle"} \/ replier'[r] = replier[r]
           \/ replier'[r].item = l
  PROVE  VacationInv'
<1>1. \A x \in Letters : reply'[x] = IF x = l THEN q ELSE reply[x]
  BY DEF VacationInv, VacationTypeOK
<1>2. \A x \in Letters : /\ reply'[x].state # "none" <=> reply[x].state # "none"
                         /\ reply'[x].window = reply[x].window
                         /\ reply'[x].again = reply[x].again
  BY <1>1
<1>3. handed' \subseteq Letters
  BY DEF VacationTypeOK
<1> QED BY <1>2, <1>3 DEF VacationInv

\* Every step keeps the invariant.
LEMMA VacationStep == VacationInv /\ [VacationNext]_vacationVars => VacationInv'
<1> SUFFICES ASSUME VacationInv, [VacationNext]_vacationVars PROVE VacationInv'
  OBVIOUS
<1> USE VacationAssumption
<1> DEFINE Replies == [state : {"none", "pending", "queued", "failed", "deleted"},
                       leased : BOOLEAN, tries : 0..MaxTries, window : 0..MaxWindow,
                       again : BOOLEAN]
           Messages == [is : {"unsent", "there", "deleted"}, processed : BOOLEAN, shown : BOOLEAN]
           Invocations == [pc : {"idle", "decide", "claim", "enqueue", "queued", "failed"},
                           item : Letters \cup {NoOne}, version : 0..MaxVersion]
<1>0. /\ reply \in [Letters -> Replies] /\ replier \in [Repliers -> Invocations]
      /\ letter \in [Letters -> Messages]
      /\ settings \in [enabled : BOOLEAN, version : 0..MaxVersion]
      /\ window \in 0..MaxWindow /\ handed \subseteq Letters
  BY DEF VacationInv, VacationTypeOK
<1>1. Asleep \in Invocations /\ Asleep.pc = "idle"
  BY DEF Asleep
<1>2. ASSUME NEW l \in Letters, Arrive(l) \/ Refile(l) PROVE VacationInv'
  <2>1. letter' \in [Letters -> Messages]
    <3>1. \/ letter' = [letter EXCEPT ![l] = [@ EXCEPT !.is = "there"]]
          \/ letter' = [letter EXCEPT ![l] = [@ EXCEPT !.shown = ~letter[l].shown]]
      BY <1>0, <1>2 DEF Arrive, Refile
    <3>2. [letter[l] EXCEPT !.is = "there"] \in Messages
      BY ZenonT(40), <1>0
    <3>3. \A b \in BOOLEAN : [letter[l] EXCEPT !.shown = b] \in Messages
      BY ZenonT(40), <1>0
    <3>4. (~letter[l].shown) = TRUE \/ (~letter[l].shown) = FALSE
      BY Zenon
    <3>5. [letter[l] EXCEPT !.shown = ~letter[l].shown] \in Messages
      BY <3>3, <3>4
    <3> QED BY <1>0, <3>1, <3>2, <3>5
  <2> QED BY <1>2, <2>1 DEF Arrive, Refile, VacationInv, VacationTypeOK
<1>3. CASE ChangeSettings
  <2>1. settings' \in [enabled : BOOLEAN, version : 0..MaxVersion]
    BY <1>0, <1>3 DEF ChangeSettings
  <2> QED BY <1>3, <2>1 DEF ChangeSettings, VacationInv, VacationTypeOK
<1>4. CASE WindowEnds
  BY <1>0, <1>4 DEF WindowEnds, VacationInv, VacationTypeOK
<1>5. ASSUME NEW r \in Repliers, NEW l \in Letters, ListLetter(r, l) PROVE VacationInv'
  <2>1. [pc |-> "decide", item |-> l, version |-> settings.version] \in Invocations
    BY <1>0
  <2> QED BY <1>0, <1>5, <2>1 DEF ListLetter, VacationInv, VacationTypeOK
<1>6. ASSUME NEW r \in Repliers, NEW l \in Letters, ListReply(r, l) PROVE VacationInv'
  <2> DEFINE q == [Asleep EXCEPT !.pc = "claim", !.item = l]
  <2>1. q \in Invocations /\ q.pc = "claim" /\ q.item = l
    BY <1>1 DEF Asleep
  <2>2. reply[l].state # "none"
    BY <1>6 DEF ListReply, Due
  <2> QED BY <1>0, <1>6, <2>1, <2>2 DEF ListReply, VacationInv, VacationTypeOK
<1>7. ASSUME NEW r \in Repliers, Decide(r) PROVE VacationInv'
  <2> DEFINE l == replier[r].item
  <2>1. l \in Letters
    BY <1>7 DEF Decide, VacationInv
  <2>2. /\ NewReply \in Replies /\ NewReply.state = "pending" /\ NewReply.window = window
        /\ NewReply.again = Forgotten
    <3>1. NoReply \in Replies /\ DOMAIN NoReply = {"state", "leased", "tries", "window", "again"}
      BY <1>0 DEF NoReply
    <3>2. Forgotten \in BOOLEAN
      BY DEF Forgotten
    <3> QED BY <1>0, <3>1, <3>2 DEF NewReply
  <2>3. letter' \in [Letters -> Messages]
    <3>1. letter' = letter \/ letter' = [letter EXCEPT ![l] = [@ EXCEPT !.processed = TRUE]]
      BY <1>7 DEF Decide, Mark
    <3>2. [letter[l] EXCEPT !.processed = TRUE] \in Messages
      <4>1. letter[l] \in Messages
        BY <1>0, <2>1
      <4> HIDE DEF l
      <4> QED BY <4>1
    <3> QED BY <1>0, <2>1, <3>1, <3>2
  <2>4. replier' = [replier EXCEPT ![r] = Asleep] /\ UNCHANGED <<settings, window, handed>>
    BY <1>7 DEF Decide, Rested
  <2>5. reply' = reply \/ (~Recent /\ reply' = [reply EXCEPT ![l] = NewReply])
    BY <1>7 DEF Decide
  <2>6. VacationTypeOK'
    <3>1. reply' \in [Letters -> Replies]
      BY <1>0, <2>1, <2>2, <2>5
    <3>2. replier' \in [Repliers -> Invocations]
      BY <1>0, <1>1, <2>4
    <3> QED BY <1>0, <2>3, <2>4, <3>1, <3>2 DEF VacationTypeOK
  <2>7. CASE reply' = reply
    BY <1>0, <1>1, <2>4, <2>6, <2>7 DEF VacationInv
  <2>8. CASE ~Recent /\ reply' = [reply EXCEPT ![l] = NewReply]
    <3>1. \A x \in Letters : reply'[x] = IF x = l THEN NewReply ELSE reply[x]
      BY <1>0, <2>8
    <3>2. \A x \in Letters : reply[x].state # "none" /\ reply[x].window = window => Forgotten
      BY <2>8 DEF Recent, Written, Forgotten
    <3>3. \A x \in Letters : reply[x].state # "none" => reply'[x].state # "none"
      BY <2>2, <3>1
    <3>4. \A x, y \in Letters : x # y /\ reply'[x].state # "none" /\ reply'[y].state # "none"
                                /\ reply'[x].window = reply'[y].window
            => reply'[x].again \/ reply'[y].again
      <4> SUFFICES ASSUME NEW x \in Letters, NEW y \in Letters, x # y,
                          reply'[x].state # "none", reply'[y].state # "none",
                          reply'[x].window = reply'[y].window
                   PROVE  reply'[x].again \/ reply'[y].again
        OBVIOUS
      <4>1. CASE x # l /\ y # l
        BY <3>1, <4>1 DEF VacationInv
      <4>2. CASE x = l \/ y = l
        <5>1. PICK z \in {x, y} : z # l
          BY <4>2
        <5>2. reply[z].state # "none" /\ reply[z].window = window
          BY <2>2, <3>1, <4>2, <5>1
        <5>3. NewReply.again
          BY <2>2, <3>2, <5>2
        <5> QED BY <2>1, <3>1, <4>2, <5>3
      <4> QED BY <4>1, <4>2
    <3>5. \A q \in Repliers : replier'[q] = IF q = r THEN Asleep ELSE replier[q]
      BY <1>0, <2>4
    <3>6. \A q \in Repliers : replier'[q].pc \in {"claim", "enqueue", "queued", "failed"}
            => replier'[q].item \in Letters /\ reply'[replier'[q].item].state # "none"
      BY <1>1, <3>3, <3>5 DEF VacationInv
    <3>7. \A q \in Repliers : replier'[q].pc = "decide" => replier'[q].item \in Letters
      BY <1>1, <3>5 DEF VacationInv
    <3>8. \A x \in handed' : reply'[x].state # "none"
      BY <1>0, <2>4, <3>3 DEF VacationInv
    <3> QED BY <2>6, <3>4, <3>6, <3>7, <3>8 DEF VacationInv
  <2> QED BY <2>5, <2>7, <2>8
<1>8. ASSUME NEW r \in Repliers, ClaimReply(r) PROVE VacationInv'
  <2> DEFINE l == replier[r].item
             tries == IF reply[l].tries < MaxTries THEN reply[l].tries + 1 ELSE MaxTries
             q == [reply[l] EXCEPT !.leased = TRUE, !.tries = tries]
             i == [replier[r] EXCEPT !.pc = "enqueue"]
  <2>1. l \in Letters /\ reply[l].state # "none" /\ reply[l] \in Replies
    BY <1>0, <1>8 DEF ClaimReply, VacationInv
  <2>2. tries \in 0..MaxTries
    BY <2>1
  <2>3. /\ q \in Replies /\ q.state = reply[l].state /\ q.window = reply[l].window
        /\ q.again = reply[l].again
    BY <2>1, <2>2
  <2>4. i \in Invocations /\ i.item = l
    BY <1>0
  <2>5. CASE Due(l)
    <3>1. reply' = [reply EXCEPT ![l] = q]
      BY <1>0, <1>8, <2>1, <2>5 DEF ClaimReply
    <3>2. replier' = [replier EXCEPT ![r] = i] /\ UNCHANGED <<letter, settings, window, handed>>
      BY <1>8, <2>5 DEF ClaimReply
    <3>3. VacationTypeOK'
      BY <1>0, <2>1, <2>3, <2>4, <3>1, <3>2 DEF VacationTypeOK
    <3>4. \A x \in Repliers : replier'[x] = replier[x] \/ replier'[x].item = l
      BY <1>0, <2>4, <3>2
    <3> QED BY ZenonT(40), <2>1, <2>3, <3>1, <3>2, <3>3, <3>4, ReplyKept
  <2>6. CASE ~Due(l)
    <3>1. /\ replier' = [replier EXCEPT ![r] = Asleep]
          /\ UNCHANGED <<letter, settings, window, handed, reply>>
      BY <1>8, <2>6 DEF ClaimReply, Rested
    <3> QED BY <1>0, <1>1, <3>1 DEF VacationInv, VacationTypeOK
  <2> QED BY <2>5, <2>6
<1>9. ASSUME NEW r \in Repliers, EnqueueReply(r) PROVE VacationInv'
  <2> DEFINE l == replier[r].item
             i(pc) == [replier[r] EXCEPT !.pc = pc]
  <2>1. l \in Letters /\ reply[l].state # "none"
    BY <1>9 DEF EnqueueReply, VacationInv
  <2>2. ASSUME NEW pc \in {"queued", "failed"} PROVE i(pc) \in Invocations /\ i(pc).item = l
    BY SMTT(30), <1>0
  <2>3. PICK pc \in {"queued", "failed"} : replier' = [replier EXCEPT ![r] = i(pc)]
    BY <1>9 DEF EnqueueReply
  <2>4. \A x \in Repliers : replier'[x] = IF x = r THEN i(pc) ELSE replier[x]
    BY <1>0, <2>3
  <2>5. handed' \subseteq handed \cup {l} /\ UNCHANGED <<letter, settings, reply, window>>
    BY <1>9 DEF EnqueueReply
  <2>6. VacationTypeOK'
    BY <1>0, <2>1, <2>2, <2>3, <2>5 DEF VacationTypeOK
  <2>7. \A x \in Repliers : replier'[x].pc \in {"claim", "enqueue", "queued", "failed"}
          => replier'[x].item \in Letters /\ reply[replier'[x].item].state # "none"
    BY <2>1, <2>2, <2>4 DEF VacationInv
  <2>8. i(pc).pc = pc
    BY <1>0
  <2>9. \A x \in Repliers : replier'[x].pc = "decide" => replier'[x].item \in Letters
    BY <2>1, <2>2, <2>4, <2>8 DEF VacationInv
  <2> QED BY <2>1, <2>5, <2>6, <2>7, <2>9 DEF VacationInv
<1>10. ASSUME NEW r \in Repliers, ReportReply(r) PROVE VacationInv'
  <2> DEFINE l == replier[r].item
             state == IF replier[r].pc = "queued" THEN "queued"
                      ELSE IF reply[l].tries >= MaxTries THEN "failed" ELSE "pending"
             q == [reply[l] EXCEPT !.state = state, !.leased = (replier[r].pc = "failed")]
  <2>1. l \in Letters /\ reply[l].state # "none" /\ reply[l] \in Replies
    BY <1>0, <1>10 DEF ReportReply, VacationInv
  <2>2. state \in {"queued", "failed", "pending"} /\ (replier[r].pc = "failed") \in BOOLEAN
    OBVIOUS
  <2>3. /\ q \in Replies /\ q.state # "none" /\ q.window = reply[l].window
        /\ q.again = reply[l].again
    BY <2>1, <2>2
  <2>4. replier' = [replier EXCEPT ![r] = Asleep] /\ UNCHANGED <<letter, settings, window, handed>>
    BY <1>10 DEF ReportReply, Rested
  <2>5. \A x \in Repliers : replier'[x] = replier[x] \/ replier'[x].pc = "idle"
    <3>1. DOMAIN replier = Repliers /\ Asleep.pc = "idle"
      BY <1>0, <1>1 DEF VacationTypeOK
    <3> QED BY <2>4, <3>1
  <2>6. CASE Written(l)
    <3>1. reply' = [reply EXCEPT ![l] = q]
      BY <1>0, <1>10, <2>1, <2>6 DEF ReportReply
    <3>2. VacationTypeOK'
      BY <1>0, <1>1, <2>1, <2>3, <2>4, <3>1 DEF VacationTypeOK
    <3>3. \A x \in handed' : x \in handed \/ reply[x].state # "none"
      BY <2>4
    <3>4. \A x \in Repliers : replier'[x].pc \in {"idle"} \/ replier'[x] = replier[x]
            \/ replier'[x].item = l
      BY <2>5
    <3> HIDE DEF l, q
    <3> QED BY ZenonT(40), <2>1, <2>3, <3>1, <3>2, <3>3, <3>4, ReplyKept
  <2>7. CASE ~Written(l)
    <3>1. reply' = reply
      BY <1>10, <2>7 DEF ReportReply
    <3> QED BY <1>0, <1>1, <2>4, <2>5, <3>1 DEF VacationInv, VacationTypeOK
  <2> QED BY <2>6, <2>7
<1>11. ASSUME NEW l \in Letters, ReplyLeaseEnds(l) PROVE VacationInv'
  <2> DEFINE q == [reply[l] EXCEPT !.leased = FALSE]
  <2>1. /\ q \in Replies /\ q.state = reply[l].state /\ q.window = reply[l].window
        /\ q.again = reply[l].again
    <3>1. reply[l] \in Replies
      BY <1>0
    <3> QED BY <3>1
  <2>2. reply' = [reply EXCEPT ![l] = q] /\ UNCHANGED <<letter, settings, window, handed, replier>>
    BY <1>11 DEF ReplyLeaseEnds
  <2>3. VacationTypeOK'
    BY <1>0, <2>1, <2>2 DEF VacationTypeOK
  <2>4. \A x \in Letters : /\ reply'[x].state = reply[x].state
                           /\ reply'[x].window = reply[x].window /\ reply'[x].again = reply[x].again
    BY <1>0, <2>1, <2>2
  <2> QED BY <1>0, <2>2, <2>3, <2>4 DEF VacationInv
<1>12. ASSUME NEW r \in Repliers, ReplierDies(r) PROVE VacationInv'
  BY <1>0, <1>1, <1>12 DEF ReplierDies, Rested, VacationInv, VacationTypeOK
<1>13. ASSUME NEW l \in Letters, DeleteLetter(l) PROVE VacationInv'
  <2> DEFINE q == [reply[l] EXCEPT !.state = "deleted", !.leased = FALSE, !.tries = 0]
  <2>1. letter' \in [Letters -> Messages] /\ UNCHANGED <<settings, window, handed, replier>>
    <3>1. Shredded \in Messages
      BY DEF Shredded
    <3> QED BY <1>0, <1>13, <3>1 DEF DeleteLetter
  <2>2. CASE Written(l)
    <3>1. reply' = [reply EXCEPT ![l] = q] /\ reply[l].state # "none"
      BY <1>0, <1>13, <2>2 DEF DeleteLetter, Written
    <3>2. q \in Replies /\ q.state = "deleted" /\ q.window = reply[l].window
          /\ q.again = reply[l].again
      <4>1. reply[l] \in Replies /\ 0 \in 0..MaxTries
        BY <1>0
      <4>2. q.state = "deleted" /\ q.leased = FALSE /\ q.tries = 0
            /\ q.window = reply[l].window /\ q.again = reply[l].again
        BY <4>1
      <4>3. q \in Replies
        BY ZenonT(40), <4>1
      <4> QED BY <4>2, <4>3
    <3>3. VacationTypeOK'
      BY <1>0, <2>1, <3>1, <3>2 DEF VacationTypeOK
    <3>4. \A x \in handed' : x \in handed
      BY <2>1
    <3>5. \A x \in Repliers : replier'[x] = replier[x]
      BY <2>1
    <3>6. q.state # "none"
      BY <3>2
    <3> HIDE DEF q
    <3> QED BY <3>1, <3>2, <3>3, <3>4, <3>5, <3>6, ReplyKept
  <2>3. CASE ~Written(l)
    <3>1. reply' = reply
      BY <1>13, <2>3 DEF DeleteLetter
    <3> QED BY <1>0, <2>1, <3>1 DEF VacationInv, VacationTypeOK
  <2> QED BY <2>2, <2>3
<1>14. CASE UNCHANGED vacationVars
  BY <1>14 DEF vacationVars, VacationInv, VacationTypeOK
<1> QED BY <1>2, <1>3, <1>4, <1>5, <1>6, <1>7, <1>8, <1>9, <1>10, <1>11, <1>12, <1>13,
       <1>14 DEF VacationNext

\* The invariant holds of every reachable state.
LEMMA VacationInvariant == VacationSpec => []VacationInv
<1>1. VacationInit => VacationInv
  BY VacationAssumption DEF VacationInit, VacationInv, VacationTypeOK, NoReply, Unsent, Asleep
<1> QED BY <1>1, VacationStep, PTL DEF VacationSpec

\* Every reachable state of the automatic replies is well typed.
THEOREM VacationTypeCorrect == VacationSpec => []VacationTypeOK
BY VacationInvariant, PTL DEF VacationInv

\* A sender gets one automatic reply in the days the user chose, however many messages came and
\* however often the worker was overtaken, ended or repeated, unless the message an earlier one
\* answers was deleted for good before the next was decided.
THEOREM RepliesAreRare == VacationSpec => []OneReplyPerWindow
<1>1. VacationInv => OneReplyPerWindow
  BY DEF VacationInv, VacationTypeOK, OneReplyPerWindow
<1> QED BY <1>1, VacationInvariant, PTL

-----------------------------------------------------------------------------
(* The calendar *)

Event == [version : 0..MaxEdits, by : 0..MaxEdits, cancelled : BOOLEAN]
Reminder == [row : 0..MaxEdits, arm : 0..MaxArms, due : BOOLEAN, notified : BOOLEAN,
             dismissed : BOOLEAN]
Notice == [state : {"none", "pending", "queued", "failed"}, leased : BOOLEAN,
           attempts : 0..MaxAttempts]
Edit == [pc : {"idle", "edit", "move", "cancel"}, version : 0..MaxEdits, by : 0..MaxEdits]
Cron == [pc : {"idle", "claim", "enqueue", "queued", "failed", "remind"}, item : 0..MaxEdits]

\* What the types leave out: announcements are counted up to two.
Columns ==
  /\ event \in Event /\ reminder \in Reminder /\ notice \in [Edits -> Notice]
  /\ jobs \subseteq Edits /\ editor \in [Editors -> Edit] /\ cron \in [Crons -> Cron]
  /\ edits \in 0..MaxEdits /\ saved \subseteq Edits /\ arms \in 0..MaxArms
  /\ crossed \subseteq Crons

\* A notice is owed by every edit that was saved and by no other, invocations work on notices
\* that are owed, and one that was handed over has a job.
Handing == {"claim", "enqueue", "queued", "failed"}
NoticeInv ==
  /\ \A n \in Edits : /\ notice[n].state # "none" <=> n \in saved
                      /\ notice[n].state = "queued" => n \in jobs
  /\ \A c \in Crons : cron[c].pc \in Handing =>
       cron[c].item \in Edits /\ notice[cron[c].item].state # "none"
  /\ \A c \in Crons : cron[c].pc = "queued" => cron[c].item \in jobs

\* Edits under way have numbers of their own, each one saved made a version, and the reminder is
\* of an edit that was saved.
EditInv ==
  /\ \A e \in Editors : editor[e].pc # "idle" =>
       editor[e].by \in Edits /\ editor[e].by <= edits /\ editor[e].by \notin saved
  /\ \A e, f \in Editors :
       editor[e].pc # "idle" /\ editor[f].pc # "idle" /\ editor[e].by = editor[f].by => e = f
  /\ \A n \in saved : n <= edits
  /\ event.version = Cardinality(saved)
  /\ reminder.row # 0 => reminder.row \in saved
  /\ \A c \in Crons : cron[c].pc = "remind" => cron[c].item \in saved

\* A time that is not announced yet has not been; whoever has the reminder of a dismissed or
\* postponed one in hand had it when the user acted.
ReminderInv ==
  /\ told \in [1..MaxArms -> 0..1]
  /\ \A a \in 1..MaxArms : a > arms => told[a] = 0
  /\ reminder.row # 0 => reminder.arm \in 1..arms
  /\ reminder.row # 0 /\ ~reminder.notified => told[reminder.arm] = 0
  /\ \A c \in Crons :
       /\ cron[c].pc = "remind" /\ cron[c].item = reminder.row
       /\ ~reminder.notified /\ (reminder.dismissed \/ ~reminder.due)
       => c \in crossed

CalendarInv == Columns /\ NoticeInv /\ EditInv /\ ReminderInv

\* The invariant implies the types.
LEMMA CalendarTyped == CalendarInv => CalendarTypeOK
BY DEF CalendarInv, Columns, ReminderInv, CalendarTypeOK, Event, Reminder, Notice, Edit, Cron

\* Steps of the notices, which leave the event, its edits and its reminder alone.
LEMMA NoticeSteps ==
  ASSUME CalendarInv,
         \/ RetryNotices
         \/ \E n \in Edits : LeaseEnds(n) \/ \E c \in Crons : ReadNotice(c, n)
         \/ \E c \in Crons : ClaimNotice(c) \/ Enqueue(c) \/ Report(c)
  PROVE  CalendarInv'
<1> USE CalendarAssumption DEF CalendarInv
<1>0. /\ notice \in [Edits -> Notice] /\ cron \in [Crons -> Cron] /\ jobs \subseteq Edits
      /\ MaxEdits \in Nat
  BY DEF Columns
<1>1. UNCHANGED <<event, reminder, editor, edits, saved, arms, told, crossed>>
  BY DEF RetryNotices, LeaseEnds, ReadNotice, ClaimNotice, Enqueue, Report
<1>2. SUFFICES /\ notice' \in [Edits -> Notice] /\ cron' \in [Crons -> Cron] /\ jobs' \subseteq Edits
               /\ \A c \in Crons : cron'[c].pc = "remind" => cron'[c] = cron[c]
               /\ NoticeInv'
  BY <1>1 DEF Columns, EditInv, ReminderInv
<1>3. CASE RetryNotices
  <2>1. UNCHANGED <<jobs, cron>>
    BY <1>3 DEF RetryNotices
  <2>2. ASSUME NEW n \in Edits
        PROVE  [notice[n] EXCEPT !.state = "pending", !.attempts = 0] \in Notice
    <3>1. notice[n] \in Notice /\ 0 \in 0..MaxAttempts
      BY <1>0
    <3> QED BY <3>1 DEF Notice
  <2>3. notice' \in [Edits -> Notice]
    BY <1>0, <1>3, <2>2 DEF RetryNotices
  <2>4. \A n \in Edits : \/ notice'[n] = notice[n]
                         \/ notice[n].state = "failed" /\ notice'[n].state = "pending"
    BY <1>0, <1>3 DEF RetryNotices, Notice
  <2> QED BY <1>0, <1>1, <2>1, <2>3, <2>4 DEF NoticeInv
<1>4. ASSUME NEW n \in Edits, LeaseEnds(n)
      PROVE  /\ notice' \in [Edits -> Notice] /\ UNCHANGED <<jobs, cron>> /\ NoticeInv'
  <2> DEFINE q == [notice[n] EXCEPT !.leased = FALSE]
  <2>1. q \in Notice /\ q.state = notice[n].state
    <3>1. notice[n] \in Notice
      BY <1>0
    <3> QED BY <3>1 DEF Notice
  <2>2. notice' = [notice EXCEPT ![n] = q] /\ UNCHANGED <<jobs, cron>>
    BY <1>4 DEF LeaseEnds
  <2>3. \A m \in Edits : notice'[m].state = notice[m].state
    BY <1>0, <2>1, <2>2
  <2> QED BY <1>0, <1>1, <2>1, <2>2, <2>3 DEF NoticeInv
<1>5. ASSUME NEW n \in Edits, NEW c \in Crons, ReadNotice(c, n)
      PROVE  /\ cron' \in [Crons -> Cron] /\ UNCHANGED <<jobs, notice>> /\ NoticeInv'
             /\ \A d \in Crons : cron'[d].pc = "remind" => cron'[d] = cron[d]
  <2>1. [pc |-> "claim", item |-> n] \in Cron
    BY <1>0 DEF Cron, Edits
  <2>2. UNCHANGED <<jobs, notice>> /\ cron' = [cron EXCEPT ![c] = [pc |-> "claim", item |-> n]]
    BY <1>5 DEF ReadNotice
  <2>3. notice[n].state # "none"
    BY <1>5 DEF ReadNotice
  <2> QED BY <1>0, <1>1, <2>1, <2>2, <2>3 DEF NoticeInv
<1>6. ASSUME NEW c \in Crons, ClaimNotice(c)
      PROVE  /\ notice' \in [Edits -> Notice] /\ cron' \in [Crons -> Cron] /\ jobs' = jobs /\ NoticeInv'
             /\ \A d \in Crons : cron'[d].pc = "remind" => cron'[d] = cron[d]
  <2> DEFINE n == cron[c].item
             tries == IF notice[n].attempts < MaxAttempts THEN notice[n].attempts + 1 ELSE MaxAttempts
             q == [notice[n] EXCEPT !.leased = TRUE, !.attempts = tries]
             i == [cron[c] EXCEPT !.pc = "enqueue"]
  <2>1. n \in Edits /\ notice[n].state # "none" /\ notice[n] \in Notice
    BY <1>0, <1>6 DEF ClaimNotice, NoticeInv, Handing
  <2>2. tries \in 0..MaxAttempts
    BY <2>1 DEF Notice
  <2>3. q \in Notice /\ q.state = notice[n].state
    BY <2>1, <2>2 DEF Notice
  <2>4. i \in Cron /\ i.pc = "enqueue" /\ i.item = n
    BY <1>0 DEF Cron
  <2>5. CASE notice[n].state = "pending" /\ ~notice[n].leased
    <3>1. notice' = [notice EXCEPT ![n] = q]
      BY <1>0, <1>6, <2>1, <2>5 DEF ClaimNotice
    <3>2. cron' = [cron EXCEPT ![c] = i] /\ jobs' = jobs
      BY <1>6, <2>5 DEF ClaimNotice
    <3>3. \A m \in Edits : notice'[m].state = notice[m].state
      BY <1>0, <2>1, <2>3, <3>1
    <3>4. \A d \in Crons : cron'[d] = IF d = c THEN i ELSE cron[d]
      BY <1>0, <3>2
    <3>5. NoticeInv'
      BY <1>0, <1>1, <2>1, <2>4, <3>2, <3>3, <3>4 DEF NoticeInv
    <3> QED BY <1>0, <2>1, <2>3, <2>4, <3>1, <3>2, <3>4, <3>5
  <2>6. CASE ~(notice[n].state = "pending" /\ ~notice[n].leased)
    <3>1. UNCHANGED <<jobs, notice>> /\ cron' = [cron EXCEPT ![c] = Resting]
      BY <1>6, <2>6 DEF ClaimNotice
    <3>2. Resting \in Cron /\ Resting.pc = "idle"
      BY <1>0 DEF Resting, Cron
    <3> QED BY <1>0, <1>1, <3>1, <3>2 DEF NoticeInv, Handing
  <2> QED BY <2>5, <2>6
<1>7. ASSUME NEW c \in Crons, Enqueue(c)
      PROVE  /\ cron' \in [Crons -> Cron] /\ notice' = notice /\ jobs' \subseteq Edits /\ NoticeInv'
             /\ \A d \in Crons : cron'[d].pc = "remind" => cron'[d] = cron[d]
  <2> DEFINE n == cron[c].item
             i(pc) == [cron[c] EXCEPT !.pc = pc]
  <2>1. n \in Edits /\ notice[n].state # "none"
    BY <1>7 DEF Enqueue, NoticeInv, Handing
  <2>2. \A pc \in {"queued", "failed"} : i(pc) \in Cron /\ i(pc).pc = pc /\ i(pc).item = n
    BY <1>0 DEF Cron
  <2>3. \/ jobs' = jobs \cup {n} /\ cron' = [cron EXCEPT ![c] = i("queued")]
        \/ jobs' = jobs /\ cron' = [cron EXCEPT ![c] = i("failed")]
    BY <1>7 DEF Enqueue
  <2>4. PICK pc \in {"queued", "failed"} :
          /\ \A d \in Crons : cron'[d] = IF d = c THEN i(pc) ELSE cron[d]
          /\ cron' = [cron EXCEPT ![c] = i(pc)]
          /\ jobs \subseteq jobs' /\ jobs' \subseteq Edits /\ (pc = "queued" => n \in jobs')
    BY <1>0, <2>1, <2>3
  <2>5. notice' = notice
    BY <1>7 DEF Enqueue
  <2>6. NoticeInv'
    BY <1>1, <2>1, <2>2, <2>4, <2>5 DEF NoticeInv
  <2> QED BY <1>0, <2>2, <2>4, <2>5, <2>6
<1>8. ASSUME NEW c \in Crons, Report(c)
      PROVE  /\ notice' \in [Edits -> Notice] /\ cron' \in [Crons -> Cron] /\ jobs' = jobs /\ NoticeInv'
             /\ \A d \in Crons : cron'[d].pc = "remind" => cron'[d] = cron[d]
  <2> DEFINE n == cron[c].item
             state == IF cron[c].pc = "queued" THEN "queued"
                      ELSE IF notice[n].attempts >= MaxAttempts THEN "failed" ELSE "pending"
             q == [notice[n] EXCEPT !.leased = FALSE, !.state = state]
  <2>1. n \in Edits /\ notice[n].state # "none" /\ notice[n] \in Notice
    BY <1>0, <1>8 DEF Report, NoticeInv, Handing
  <2>2. q \in Notice /\ q.state = state /\ state # "none"
    BY <2>1 DEF Notice
  <2>3. state = "queued" => n \in jobs
    BY <1>8 DEF Report, NoticeInv
  <2>4. notice' = [notice EXCEPT ![n] = q]
    BY <1>0, <1>8, <2>1 DEF Report
  <2>5. cron' = [cron EXCEPT ![c] = Resting] /\ jobs' = jobs
    BY <1>8 DEF Report
  <2>6. Resting \in Cron /\ Resting.pc = "idle"
    BY <1>0 DEF Resting, Cron
  <2>7. \A m \in Edits : notice'[m] = IF m = n THEN q ELSE notice[m]
    BY <1>0, <2>4
  <2>8. \A d \in Crons : cron'[d] = IF d = c THEN Resting ELSE cron[d]
    BY <1>0, <2>5
  <2> HIDE DEF q, state
  <2>9. NoticeInv'
    BY <1>1, <2>1, <2>2, <2>3, <2>5, <2>6, <2>7, <2>8 DEF NoticeInv, Handing
  <2> QED BY <1>0, <2>1, <2>2, <2>4, <2>5, <2>6, <2>8, <2>9
<1> QED BY <1>0, <1>3, <1>4, <1>5, <1>6, <1>7, <1>8 DEF RetryNotices

\* An edit that begins has a number that no other has.
LEMMA BeginEditStep ==
  ASSUME CalendarInv, NEW e \in Editors, NEW kind \in {"edit", "move", "cancel"}, BeginEdit(e, kind)
  PROVE  CalendarInv'
<1> USE CalendarAssumption DEF CalendarInv
<1> DEFINE q == [pc |-> kind, version |-> event.version, by |-> edits + 1]
<1>0. editor \in [Editors -> Edit] /\ edits \in 0..MaxEdits /\ MaxEdits \in Nat /\ event \in Event
  BY DEF Columns
<1>1. /\ edits' = edits + 1 /\ edits < MaxEdits /\ editor' = [editor EXCEPT ![e] = q]
      /\ UNCHANGED <<event, reminder, notice, jobs, cron, saved, arms, told, crossed>>
  BY DEF BeginEdit
<1>2. q \in Edit /\ q.by = edits + 1 /\ q.by \in Edits
  BY <1>0, <1>1 DEF Edit, Edits, Event
<1>3. Columns'
  BY <1>0, <1>1, <1>2 DEF Columns
<1>4. \A f \in Editors : editor'[f] = IF f = e THEN q ELSE editor[f]
  BY <1>0, <1>1
<1>5. EditInv'
  <2>1. \A f \in Editors : editor[f].pc # "idle" =>
          editor[f].by \in Edits /\ editor[f].by <= edits /\ editor[f].by \notin saved
    BY DEF EditInv
  <2>2. \A n \in saved : n \in Nat /\ n <= edits
    BY DEF EditInv, Columns, Edits
  <2>3. edits + 1 \notin saved
    BY <1>0, <2>2
  <2>4. \A f \in Editors : editor'[f].pc # "idle" =>
          editor'[f].by \in Edits /\ editor'[f].by <= edits' /\ editor'[f].by \notin saved'
    BY <1>0, <1>1, <1>2, <1>4, <2>1, <2>3 DEF Edits
  <2>5. \A f, g \in Editors :
          editor'[f].pc # "idle" /\ editor'[g].pc # "idle" /\ editor'[f].by = editor'[g].by => f = g
    BY <1>0, <1>2, <1>4, <2>1 DEF EditInv, Edits
  <2>6. \A n \in saved' : n <= edits'
    BY <1>0, <1>1, <2>2
  <2> QED BY <1>1, <2>4, <2>5, <2>6 DEF EditInv
<1> QED BY <1>1, <1>3, <1>5 DEF NoticeInv, ReminderInv

\* An edit that wins is saved with its notice, and may set the reminder anew.
LEMMA PersistStep ==
  ASSUME CalendarInv, NEW e \in Editors, Persist(e)
  PROVE  CalendarInv'
<1> USE CalendarAssumption DEF CalendarInv
<1> DEFINE n == editor[e].by
<1>0. /\ editor \in [Editors -> Edit] /\ edits \in 0..MaxEdits /\ MaxEdits \in Nat /\ event \in Event
      /\ notice \in [Edits -> Notice] /\ reminder \in Reminder /\ arms \in 0..MaxArms
      /\ MaxArms \in Nat \ {0} /\ saved \subseteq Edits
  BY DEF Columns
<1>1. n \in Edits /\ n <= edits /\ n \notin saved /\ n \in Nat
  BY DEF Persist, EditInv, Edits
<1>2. /\ editor' = [editor EXCEPT ![e] = NoEdit] /\ UNCHANGED <<jobs, cron, edits, told, crossed>>
  BY DEF Persist
<1>3. NoEdit \in Edit /\ NoEdit.pc = "idle"
  BY <1>0 DEF NoEdit, Edit
<1>4. \A f \in Editors : editor'[f] = IF f = e THEN NoEdit ELSE editor[f]
  BY <1>0, <1>2
<1>5. CASE ~Wins(e)
  <2>1. UNCHANGED <<event, notice, saved, reminder, arms>>
    BY <1>5 DEF Persist
  <2> QED BY <1>0, <1>2, <1>3, <1>4, <2>1 DEF Columns, NoticeInv, EditInv, ReminderInv
<1>6. CASE Wins(e)
  <2> DEFINE v == event.version + 1
             r == [NoReminder EXCEPT !.row = n, !.arm = arms + 1]
  <2>1. /\ event' = [version |-> v, by |-> n, cancelled |-> editor[e].pc = "cancel"]
        /\ notice' = [notice EXCEPT ![n].state = "pending"]
        /\ saved' = saved \cup {n}
        /\ Rearm(e)
    BY <1>6 DEF Persist
  <2>2. v = Cardinality(saved') /\ v \in 0..MaxEdits
    <3>1. IsFiniteSet(Edits) /\ Cardinality(Edits) = MaxEdits
      BY <1>0, FS_Interval DEF Edits
    <3>2. IsFiniteSet(saved) /\ saved' \subseteq Edits
      BY <1>0, <1>1, <2>1, <3>1, FS_Subset
    <3>3. Cardinality(saved') = Cardinality(saved) + 1
      BY <1>1, <2>1, <3>2, FS_AddElement
    <3>4. Cardinality(saved') <= MaxEdits
      BY <3>1, <3>2, FS_Subset
    <3>5. event.version = Cardinality(saved) /\ event.version \in Nat
      BY <1>0 DEF EditInv, Event
    <3> QED BY <1>0, <3>3, <3>4, <3>5
  <2>3. event' \in Event /\ event'.version = v
    BY <1>0, <1>1, <2>1, <2>2 DEF Event, Edits
  <2>4. [notice[n] EXCEPT !.state = "pending"] \in Notice
    BY <1>0, <1>1 DEF Notice
  <2>5. notice' \in [Edits -> Notice]
    BY <1>0, <1>1, <2>1, <2>4
  <2>6. \A m \in Edits : notice'[m].state = IF m = n THEN "pending" ELSE notice[m].state
    BY <1>0, <1>1, <2>1 DEF Notice
  <2>7. NoticeInv'
    BY <1>0, <1>2, <2>1, <2>6 DEF NoticeInv
  <2>8. \/ editor[e].pc = "cancel" /\ reminder' = NoReminder /\ arms' = arms
        \/ reminder' = reminder /\ arms' = arms
        \/ /\ arms < MaxArms /\ arms' = arms + 1
           /\ \E due \in BOOLEAN :
                reminder' = [NoReminder EXCEPT !.row = n, !.arm = arms + 1, !.due = due]
    BY <2>1 DEF Rearm
  <2>9. NoReminder \in Reminder /\ NoReminder.row = 0
    BY <1>0 DEF NoReminder, Reminder
  <2> DEFINE x(due) == [NoReminder EXCEPT !.row = n, !.arm = arms + 1, !.due = due]
  <2>10. ASSUME NEW due \in BOOLEAN, arms < MaxArms
         PROVE  x(due) \in Reminder /\ x(due).row = n /\ x(due).arm = arms + 1 /\ ~x(due).notified
    <3>1. arms + 1 \in 0..MaxArms /\ n \in 0..MaxEdits
      BY <1>0, <1>1, <2>10 DEF Edits
    <3>2. x(due) \in Reminder
      BY <2>9, <3>1 DEF Reminder
    <3>3. x(due).row = n /\ x(due).arm = arms + 1 /\ ~x(due).notified
      BY DEF NoReminder
    <3> QED BY <3>2, <3>3
  <2>11. \/ reminder' = NoReminder /\ arms' = arms
         \/ reminder' = reminder /\ arms' = arms
         \/ /\ arms < MaxArms /\ arms' = arms + 1 /\ reminder' \in Reminder
            /\ reminder'.row = n /\ reminder'.arm = arms + 1 /\ ~reminder'.notified
    BY <2>8, <2>10
  <2>12. Columns'
    <3>1. reminder' \in Reminder /\ arms' \in 0..MaxArms
      BY <1>0, <2>9, <2>11
    <3>2. editor' \in [Editors -> Edit]
      BY <1>0, <1>2, <1>3
    <3> QED BY <1>0, <1>1, <1>2, <2>1, <2>3, <2>5, <3>1, <3>2 DEF Columns
  <2>13. EditInv'
    <3>1. reminder'.row # 0 => reminder'.row \in saved'
      BY <2>1, <2>9, <2>11 DEF EditInv
    <3>2. \A f \in Editors : editor'[f].pc # "idle" => f # e /\ editor'[f] = editor[f]
      BY <1>3, <1>4
    <3>3. \A f \in Editors : editor'[f].pc # "idle" => editor'[f].by \notin saved'
      BY <2>1, <3>2 DEF EditInv, Persist
    <3> QED BY <1>1, <1>2, <2>1, <2>2, <2>3, <3>1, <3>2, <3>3 DEF EditInv
  <2>14. ReminderInv'
    <3>1. CASE reminder' = NoReminder /\ arms' = arms
      <4>1. \A c \in Crons : cron[c].pc = "remind" => cron[c].item # 0
        BY <1>0 DEF EditInv, Edits
      <4> QED BY <1>2, <2>9, <3>1, <4>1 DEF ReminderInv
    <3>2. CASE reminder' = reminder /\ arms' = arms
      BY <1>2, <3>2 DEF ReminderInv
    <3>3. CASE /\ arms < MaxArms /\ arms' = arms + 1 /\ reminder' \in Reminder
               /\ reminder'.row = n /\ reminder'.arm = arms + 1 /\ ~reminder'.notified
      <4>1. told[arms + 1] = 0
        BY <1>0, <3>3 DEF ReminderInv
      <4>2. \A c \in Crons : cron[c].pc = "remind" => cron[c].item # n
        BY <1>1 DEF EditInv
      <4>3. \A a \in 1..MaxArms : a > arms' => told[a] = 0
        BY <1>0, <3>3 DEF ReminderInv
      <4> QED BY <1>0, <1>2, <3>3, <4>1, <4>2, <4>3 DEF ReminderInv
    <3> QED BY <2>11, <3>1, <3>2, <3>3
  <2> QED BY <2>7, <2>12, <2>13, <2>14
<1> QED BY <1>5, <1>6

\* The reminder is listed and claimed, dismissed and put off; an invocation may end meanwhile.
LEMMA ReminderSteps ==
  ASSUME CalendarInv,
         \/ ReminderComes \/ Dismiss \/ Snooze
         \/ \E c \in Crons : CronDies(c) \/ ReadReminder(c) \/ ClaimReminder(c)
  PROVE  CalendarInv'
<1> USE CalendarAssumption DEF CalendarInv
<1>0. /\ cron \in [Crons -> Cron] /\ reminder \in Reminder /\ arms \in 0..MaxArms
      /\ MaxEdits \in Nat /\ MaxArms \in Nat /\ crossed \subseteq Crons
      /\ told \in [1..MaxArms -> 0..1]
  BY DEF Columns, ReminderInv
<1>1. Resting \in Cron /\ Resting.pc = "idle"
  BY <1>0 DEF Resting, Cron
<1>2. UNCHANGED <<event, notice, jobs, editor, edits, saved>>
  BY DEF ReminderComes, Dismiss, Snooze, CronDies, ReadReminder, ClaimReminder
<1>3. SUFFICES /\ cron' \in [Crons -> Cron] /\ reminder' \in Reminder /\ arms' \in 0..MaxArms
               /\ crossed' \subseteq Crons
               /\ reminder'.row = reminder.row
               /\ \A c \in Crons : cron'[c].pc # "idle" =>
                    cron'[c] = cron[c] \/ (cron'[c].pc = "remind" /\ cron'[c].item \in saved)
               /\ ReminderInv'
  BY <1>2 DEF Columns, NoticeInv, EditInv, Handing
<1>4. CASE ReminderComes
  <2> DEFINE q == [reminder EXCEPT !.due = TRUE]
  <2>1. /\ q \in Reminder /\ q.row = reminder.row /\ q.arm = reminder.arm /\ q.due
        /\ q.notified = reminder.notified /\ q.dismissed = reminder.dismissed
    BY <1>0 DEF Reminder
  <2>2. reminder' = q /\ UNCHANGED <<cron, arms, told, crossed>>
    BY <1>4 DEF ReminderComes
  <2> HIDE DEF q
  <2>3. ReminderInv'
    BY <2>1, <2>2 DEF ReminderInv
  <2> QED BY <1>0, <2>1, <2>2, <2>3
<1>5. CASE Dismiss
  <2> DEFINE q == [reminder EXCEPT !.dismissed = TRUE]
  <2>1. /\ q \in Reminder /\ q.row = reminder.row /\ q.arm = reminder.arm
        /\ q.notified = reminder.notified
    BY <1>0 DEF Reminder
  <2>2. reminder' = q /\ crossed' = crossed \cup Held /\ UNCHANGED <<cron, arms, told>>
    BY <1>5 DEF Dismiss
  <2> HIDE DEF q
  <2>3. ReminderInv'
    BY <2>1, <2>2 DEF ReminderInv, Held
  <2>4. crossed' \subseteq Crons
    BY <1>0, <2>2 DEF Held
  <2> QED BY <1>0, <2>1, <2>2, <2>3, <2>4
<1>6. CASE Snooze
  <2> DEFINE q == [reminder EXCEPT !.due = FALSE, !.notified = FALSE, !.arm = arms + 1]
  <2>1. arms' = arms + 1 /\ arms < MaxArms /\ reminder.row # 0
    BY <1>6 DEF Snooze, Actionable
  <2>2. q \in Reminder /\ q.row = reminder.row /\ q.arm = arms + 1 /\ ~q.notified
    <3>1. arms + 1 \in 0..MaxArms
      BY <1>0, <2>1
    <3> QED BY <1>0, <3>1 DEF Reminder
  <2>3. reminder' = q /\ crossed' = crossed \cup Held /\ UNCHANGED <<cron, told>>
    BY <1>6 DEF Snooze
  <2> HIDE DEF q
  <2>4. ReminderInv'
    <3>1. told[arms + 1] = 0
      BY <1>0, <2>1 DEF ReminderInv
    <3>2. \A a \in 1..MaxArms : a > arms' => told'[a] = 0
      BY <1>0, <2>1, <2>3 DEF ReminderInv
    <3>3. \A c \in Crons : cron'[c].pc = "remind" /\ cron'[c].item = reminder'.row => c \in crossed'
      BY <2>2, <2>3 DEF Held
    <3> QED BY <1>0, <2>1, <2>2, <2>3, <3>1, <3>2, <3>3 DEF ReminderInv
  <2>5. crossed' \subseteq Crons /\ arms' \in 0..MaxArms
    BY <1>0, <2>1, <2>3 DEF Held
  <2> QED BY <1>0, <2>2, <2>3, <2>4, <2>5
<1>7. ASSUME NEW c \in Crons, CronDies(c)
      PROVE  /\ cron' \in [Crons -> Cron] /\ UNCHANGED <<reminder, arms>> /\ crossed' \subseteq Crons
             /\ \A d \in Crons : cron'[d].pc # "idle" => cron'[d] = cron[d]
             /\ ReminderInv'
  <2>1. /\ cron' = [cron EXCEPT ![c] = Resting] /\ crossed' = crossed \ {c}
        /\ UNCHANGED <<reminder, arms, told>>
    BY <1>7 DEF CronDies
  <2>2. \A d \in Crons : cron'[d] = IF d = c THEN Resting ELSE cron[d]
    BY <1>0, <2>1
  <2> QED BY <1>0, <1>1, <2>1, <2>2 DEF ReminderInv
<1>8. ASSUME NEW c \in Crons, ReadReminder(c)
      PROVE  /\ cron' \in [Crons -> Cron] /\ UNCHANGED <<reminder, arms, crossed>>
             /\ \A d \in Crons : \/ cron'[d] = cron[d]
                                 \/ cron'[d].pc = "remind" /\ cron'[d].item \in saved
             /\ ReminderInv'
  <2> DEFINE q == [pc |-> "remind", item |-> reminder.row]
  <2>1. q \in Cron /\ q.item = reminder.row
    BY <1>0 DEF Cron, Reminder
  <2>2. /\ cron' = [cron EXCEPT ![c] = q] /\ UNCHANGED <<reminder, arms, told, crossed>>
        /\ reminder.row # 0 /\ reminder.due /\ ~reminder.dismissed
    BY <1>8 DEF ReadReminder
  <2>3. \A d \in Crons : cron'[d] = IF d = c THEN q ELSE cron[d]
    BY <1>0, <2>2
  <2>4. reminder.row \in saved
    BY <2>2 DEF EditInv
  <2>5. ReminderInv'
    BY <2>2, <2>3 DEF ReminderInv
  <2> QED BY <1>0, <2>1, <2>2, <2>3, <2>4, <2>5
<1>9. ASSUME NEW c \in Crons, ClaimReminder(c)
      PROVE  /\ cron' \in [Crons -> Cron] /\ reminder' \in Reminder /\ reminder'.row = reminder.row
             /\ arms' = arms /\ crossed' \subseteq Crons
             /\ \A d \in Crons : cron'[d].pc # "idle" => cron'[d] = cron[d]
             /\ ReminderInv'
  <2> DEFINE q == [reminder EXCEPT !.notified = TRUE]
             mine == reminder.row = cron[c].item /\ ~reminder.notified /\ ~event.cancelled
  <2>1. cron' = [cron EXCEPT ![c] = Resting] /\ crossed' = crossed \ {c} /\ arms' = arms
    BY <1>9 DEF ClaimReminder
  <2>2. \A d \in Crons : cron'[d] = IF d = c THEN Resting ELSE cron[d]
    BY <1>0, <2>1
  <2>3. q \in Reminder /\ q.row = reminder.row /\ q.arm = reminder.arm /\ q.notified
    BY <1>0 DEF Reminder
  <2>4. CASE mine
    <3>1. reminder' = q /\ told' = [told EXCEPT ![reminder.arm] = told[reminder.arm] + 1]
      BY <1>9, <2>4 DEF ClaimReminder
    <3>2. reminder.row # 0
      BY <1>0, <1>9, <2>4 DEF ClaimReminder, EditInv, Columns, Edits
    <3>3. reminder.arm \in 1..arms /\ told[reminder.arm] = 0
      BY <2>4, <3>2 DEF ReminderInv
    <3>4. told' \in [1..MaxArms -> 0..1] /\ \A a \in 1..MaxArms : a > arms => told'[a] = 0
      BY <1>0, <3>1, <3>3 DEF ReminderInv
    <3> HIDE DEF q
    <3>5. ReminderInv'
      BY <1>0, <2>1, <2>3, <3>1, <3>3, <3>4 DEF ReminderInv
    <3> QED BY <1>0, <1>1, <2>1, <2>2, <2>3, <3>1, <3>5
  <2>5. CASE ~mine
    <3>1. UNCHANGED <<reminder, told>>
      BY <1>9, <2>5 DEF ClaimReminder
    <3>2. ReminderInv'
      BY <1>1, <2>1, <2>2, <3>1 DEF ReminderInv
    <3> QED BY <1>0, <1>1, <2>1, <2>2, <3>1, <3>2
  <2> QED BY <2>4, <2>5
<1> QED BY <1>0, <1>4, <1>5, <1>6, <1>7, <1>8, <1>9

\* Every step keeps the invariant.
LEMMA CalendarStep == CalendarInv /\ [CalendarNext]_calendarVars => CalendarInv'
<1> SUFFICES ASSUME CalendarInv, [CalendarNext]_calendarVars PROVE CalendarInv'
  OBVIOUS
<1>1. CASE UNCHANGED calendarVars
  BY <1>1 DEF calendarVars, CalendarInv, Columns, NoticeInv, EditInv, ReminderInv
<1> QED BY <1>1, NoticeSteps, BeginEditStep, PersistStep, ReminderSteps DEF CalendarNext

\* The invariant holds of every reachable state.
LEMMA CalendarInvariant == CalendarSpec => []CalendarInv
<1>1. CalendarInit => CalendarInv
  <2> SUFFICES ASSUME CalendarInit PROVE CalendarInv
    OBVIOUS
  <2> USE CalendarAssumption
  <2>1. /\ MaxEdits \in Nat /\ MaxArms \in Nat /\ MaxAttempts \in Nat /\ 1 \in Edits /\ 1 \in 0..MaxEdits
        /\ 1 \in 0..MaxArms
    BY DEF Edits
  <2>2. event \in Event /\ event.version = 1
    BY <2>1 DEF CalendarInit, Event
  <2>3. /\ reminder \in Reminder /\ reminder.row = 1 /\ reminder.arm = 1
    <3>1. NoReminder \in Reminder
      BY <2>1 DEF NoReminder, Reminder
    <3> QED BY <2>1, <3>1 DEF CalendarInit, Reminder
  <2>4. NoNotice \in Notice /\ [NoNotice EXCEPT !.state = "queued"] \in Notice
    <3>1. NoNotice \in Notice
      BY <2>1 DEF NoNotice, Notice
    <3> QED BY <3>1 DEF Notice
  <2>5. /\ notice \in [Edits -> Notice]
        /\ \A n \in Edits : notice[n].state = IF n = 1 THEN "queued" ELSE "none"
    BY <2>4 DEF CalendarInit, NoNotice
  <2>6. NoEdit \in Edit /\ Resting \in Cron /\ NoEdit.pc = "idle" /\ Resting.pc = "idle"
    BY <2>1 DEF NoEdit, Edit, Resting, Cron
  <2>7. Cardinality(saved) = 1
    BY FS_Singleton DEF CalendarInit
  <2>8. /\ jobs = {1} /\ saved = {1} /\ edits = 1 /\ arms = 1 /\ crossed = {}
        /\ editor = [e \in Editors |-> NoEdit] /\ cron = [c \in Crons |-> Resting]
        /\ told = [a \in 1..MaxArms |-> 0]
    BY DEF CalendarInit
  <2>9. Columns
    BY <2>1, <2>2, <2>3, <2>5, <2>6, <2>8 DEF Columns
  <2>10. NoticeInv
    BY <2>1, <2>5, <2>6, <2>8 DEF NoticeInv, Handing
  <2>11. EditInv
    BY <2>1, <2>2, <2>3, <2>6, <2>7, <2>8 DEF EditInv
  <2>12. ReminderInv
    BY <2>1, <2>3, <2>6, <2>8 DEF ReminderInv
  <2> QED BY <2>9, <2>10, <2>11, <2>12 DEF CalendarInv
<1> QED BY <1>1, CalendarStep, PTL DEF CalendarSpec

\* Every reachable state of the calendar is well typed.
THEOREM CalendarTypeCorrect == CalendarSpec => []CalendarTypeOK
BY CalendarInvariant, CalendarTyped, PTL

\* Guests hear of every edit that was saved and of no edit that lost against another tab.
THEOREM NoticesAreOwed == CalendarSpec => []NoticesMatchEdits
<1>1. CalendarInv => NoticesMatchEdits
  BY DEF CalendarInv, NoticeInv, NoticesMatchEdits
<1> QED BY <1>1, CalendarInvariant, PTL

\* Each time a reminder is set it is announced once at most, however many crons overlap.
THEOREM RemindersAreOnce == CalendarSpec => []ReminderOnce
<1>1. CalendarInv => ReminderOnce
  BY DEF CalendarInv, ReminderInv, ReminderOnce
<1> QED BY <1>1, CalendarInvariant, PTL

\* A reminder the user has dismissed or put off is announced only by an invocation that had it
\* in hand at that moment.
THEOREM DismissalsHold == CalendarSpec => DismissedStaysQuiet
<1> DEFINE quiet == reminder'.notified /\ ~reminder.notified /\ (reminder.dismissed \/ ~reminder.due)
                      => \E c \in crossed : cron[c].pc = "remind" /\ cron'[c].pc = "idle"
<1>1. CalendarInv /\ [CalendarNext]_calendarVars => [quiet]_calendarVars
  <2> SUFFICES ASSUME CalendarInv, CalendarNext, reminder'.notified, ~reminder.notified,
                      reminder.dismissed \/ ~reminder.due
               PROVE  \E c \in crossed : cron[c].pc = "remind" /\ cron'[c].pc = "idle"
    OBVIOUS
  <2>1. reminder' # reminder
    OBVIOUS
  <2>2. ASSUME NEW e \in Editors, Persist(e) PROVE FALSE
    <3> DEFINE x(due) == [NoReminder EXCEPT !.row = editor[e].by, !.arm = arms + 1, !.due = due]
    <3>1. \/ reminder' = NoReminder \/ reminder' = reminder
          \/ \E due \in BOOLEAN : reminder' = x(due)
      BY <2>2 DEF Persist, Rearm
    <3>2. ~NoReminder.notified /\ \A due \in BOOLEAN : ~x(due).notified
      BY DEF NoReminder
    <3> QED BY <2>1, <3>1, <3>2
  <2>3. reminder \in Reminder /\ cron \in [Crons -> Cron]
    BY DEF CalendarInv, Columns
  <2>4. ~ReminderComes /\ ~Dismiss /\ ~Snooze
    BY <2>3 DEF ReminderComes, Dismiss, Snooze, Reminder
  <2>5. PICK c \in Crons : ClaimReminder(c)
    BY <2>1, <2>2, <2>4
    DEF CalendarNext, BeginEdit, RetryNotices, LeaseEnds, ReadNotice, ClaimNotice, Enqueue,
        Report, CronDies, ReadReminder
  <2>6. cron[c].pc = "remind" /\ reminder.row = cron[c].item
    BY <2>1, <2>5 DEF ClaimReminder
  <2>7. cron'[c].pc = "idle"
    BY <2>3, <2>5 DEF ClaimReminder, Resting
  <2> QED BY <2>6, <2>7 DEF CalendarInv, ReminderInv
<1> QED BY <1>1, CalendarInvariant, PTL DEF CalendarSpec, DismissedStaysQuiet


-----------------------------------------------------------------------------
(* Meetings *)

\* The end is final.  Who was admitted late has yet to look at the meeting again, or was refused;
\* a room is open only when createMeeting has made it, and who clears its record closed it.
MeetingInv ==
  /\ MeetingTypeOK
  /\ \A v \in late : Over /\ visitor[v] \in {"recheck", "refused"}
  /\ creator \in {"insert", "post"} => room = "none" /\ ~meeting.provider
  /\ \A c \in Closers :
       /\ closer[c].pc \in {"patch", "kick", "clear"} => closer[c].provider
       /\ closer[c].provider => creator \notin {"insert", "post"}
       /\ closer[c].pc \in {"kick", "clear"} => room # "open"
  /\ OpenRoomOnRecord

MeetingRow == [there : BOOLEAN, provider : BOOLEAN, ended : BOOLEAN, expired : BOOLEAN]
Closer == [pc : {"idle", "end", "patch", "kick", "clear"}, provider : BOOLEAN]

\* What a row and a closer become.
LEMMA RowUpdates ==
  ASSUME NEW row \in MeetingRow
  PROVE  /\ [row EXCEPT !.there = TRUE] \in MeetingRow
         /\ [row EXCEPT !.provider = TRUE] \in MeetingRow
         /\ [row EXCEPT !.provider = FALSE] \in MeetingRow
         /\ [row EXCEPT !.ended = TRUE] \in MeetingRow
         /\ [row EXCEPT !.expired = TRUE] \in MeetingRow
         /\ [row EXCEPT !.provider = TRUE, !.ended = TRUE] \in MeetingRow
BY DEF MeetingRow

\* createMeeting.
LEMMA CreatorStep ==
  ASSUME MeetingInv,
         \/ InsertMeeting \/ PostRoom \/ RecordRoom \/ Salvage \/ Deactivate \/ EndFailed \/ CreatorDies
  PROVE  MeetingInv'
<1>0. meeting \in MeetingRow /\ mishap \in BOOLEAN
  BY DEF MeetingInv, MeetingTypeOK, MeetingRow
<1>1. UNCHANGED <<visitor, closer, late>>
  BY DEF InsertMeeting, PostRoom, RecordRoom, Salvage, Deactivate, EndFailed, CreatorDies
<1>2. meeting' \in MeetingRow
  BY <1>0, RowUpdates
  DEF InsertMeeting, PostRoom, RecordRoom, Salvage, Deactivate, EndFailed, CreatorDies
<1>3. mishap' \in BOOLEAN
  BY <1>0 DEF InsertMeeting, PostRoom, RecordRoom, Salvage, Deactivate, EndFailed, CreatorDies
<1>4. Over => Over'
  BY <1>0 DEF InsertMeeting, PostRoom, RecordRoom, Salvage, Deactivate, EndFailed, CreatorDies, Over, MeetingRow
<1>5. MeetingTypeOK'
  BY <1>1, <1>2, <1>3
  DEF MeetingInv, MeetingTypeOK, MeetingRow, InsertMeeting, PostRoom, RecordRoom, Salvage, Deactivate,
      EndFailed, CreatorDies
<1>6. CASE InsertMeeting
  BY <1>0, <1>1, <1>4, <1>5, <1>6 DEF InsertMeeting, MeetingInv, OpenRoomOnRecord, MeetingRow
<1>7. CASE PostRoom
  BY <1>0, <1>1, <1>4, <1>5, <1>7 DEF PostRoom, MeetingInv, OpenRoomOnRecord, MeetingTypeOK
<1>8. CASE RecordRoom
  BY <1>0, <1>1, <1>4, <1>5, <1>8 DEF RecordRoom, MeetingInv, OpenRoomOnRecord, MeetingRow
<1>9. CASE Salvage
  BY <1>0, <1>1, <1>4, <1>5, <1>9 DEF Salvage, MeetingInv, OpenRoomOnRecord, MeetingRow
<1>10. CASE Deactivate
  BY <1>0, <1>1, <1>4, <1>5, <1>10 DEF Deactivate, MeetingInv, OpenRoomOnRecord, MeetingRow
<1>11. CASE EndFailed
  BY <1>0, <1>1, <1>4, <1>5, <1>11 DEF EndFailed, MeetingInv, OpenRoomOnRecord, MeetingRow
<1>12. CASE CreatorDies
  BY <1>0, <1>1, <1>4, <1>5, <1>12 DEF CreatorDies, MeetingInv, OpenRoomOnRecord, MeetingTypeOK
<1> QED BY <1>6, <1>7, <1>8, <1>9, <1>10, <1>11, <1>12

\* joinMeeting.
LEMMA VisitorStep ==
  ASSUME MeetingInv, NEW v \in Visitors,
         Visit(v) \/ Admit(v) \/ Participant(v) \/ RecheckJoin(v) \/ AnswerJoin(v)
  PROVE  MeetingInv'
<1>1. UNCHANGED <<meeting, room, creator, closer, mishap>>
  BY DEF Visit, Admit, Participant, RecheckJoin, AnswerJoin
<1>2. MeetingTypeOK'
  BY DEF MeetingInv, MeetingTypeOK, Visit, Admit, Participant, RecheckJoin, AnswerJoin
<1>3. \A u \in late' : Over /\ visitor'[u] \in {"recheck", "refused"}
  BY DEF MeetingInv, MeetingTypeOK, Visit, Admit, Participant, RecheckJoin, AnswerJoin, Open
<1>4. Over' <=> Over
  BY <1>1 DEF Over
<1> QED BY <1>1, <1>2, <1>3, <1>4 DEF MeetingInv, OpenRoomOnRecord

\* The end, by its owner, by the time or by the cron.
LEMMA CloserStep ==
  ASSUME MeetingInv,
         \/ Expire
         \/ \E c \in Closers : \/ AskEnd(c) \/ ListOver(c) \/ EndMeeting(c) \/ Patch(c) \/ Kick(c)
                               \/ Clear(c) \/ CloserDies(c)
  PROVE  MeetingInv'
<1>0. meeting \in MeetingRow /\ closer \in [Closers -> Closer]
  BY DEF MeetingInv, MeetingTypeOK, MeetingRow, Closer
<1>1. UNCHANGED <<creator, visitor, mishap, late>>
  BY DEF Expire, AskEnd, ListOver, EndMeeting, Patch, Kick, Clear, CloserDies
<1>2. meeting' \in MeetingRow
  BY <1>0, RowUpdates DEF Expire, AskEnd, ListOver, EndMeeting, Patch, Kick, Clear, CloserDies
<1>3. Over => Over'
  BY <1>0 DEF Expire, AskEnd, ListOver, EndMeeting, Patch, Kick, Clear, CloserDies, Over, MeetingRow
<1>4. room' \in {room, "inactive"}
  BY DEF Expire, AskEnd, ListOver, EndMeeting, Patch, Kick, Clear, CloserDies
<1>5. Relax \in Closer /\ Relax.pc = "idle" /\ ~Relax.provider
  BY DEF Relax, Closer
<1>6. SUFFICES
        /\ closer' \in [Closers -> Closer]
        /\ \A c \in Closers :
             /\ closer'[c].pc \in {"patch", "kick", "clear"} => closer'[c].provider
             /\ closer'[c].provider => creator \notin {"insert", "post"}
             /\ closer'[c].pc \in {"kick", "clear"} => room' # "open"
        /\ meeting'.provider => meeting.provider
        /\ room' = "open" => meeting'.provider \/ ~meeting.provider
        /\ creator \in {"insert", "post"} => room' = room
  <2>1. MeetingTypeOK'
    BY <1>1, <1>2, <1>4, <1>6 DEF MeetingInv, MeetingTypeOK, MeetingRow, Closer
  <2>2. OpenRoomOnRecord'
    BY <1>1, <1>4, <1>6 DEF MeetingInv, OpenRoomOnRecord
  <2>3. \A v \in late' : Over' /\ visitor'[v] \in {"recheck", "refused"}
    BY <1>1, <1>3 DEF MeetingInv
  <2>4. creator' \in {"insert", "post"} => room' = "none" /\ ~meeting'.provider
    BY <1>1, <1>6 DEF MeetingInv
  <2> QED BY <1>1, <1>6, <2>1, <2>2, <2>3, <2>4 DEF MeetingInv
<1>7. CASE Expire
  BY <1>0, <1>7 DEF Expire, MeetingInv, MeetingRow
<1>8. ASSUME NEW c \in Closers, AskEnd(c) \/ ListOver(c)
      PROVE  /\ closer' \in [Closers -> Closer] /\ UNCHANGED <<meeting, room>>
             /\ \A d \in Closers : closer'[d] = closer[d] \/ d = c
             /\ closer'[c].pc = "end" /\ (closer'[c].provider => meeting.provider)
  <2> DEFINE q(b) == [pc |-> "end", provider |-> b]
  <2>1. \A b \in BOOLEAN : q(b) \in Closer
    BY DEF Closer
  <2>2. \/ closer' = [closer EXCEPT ![c] = q(meeting.provider)]
        \/ closer' = [closer EXCEPT ![c] = q(TRUE)] /\ meeting.provider
    BY <1>8 DEF AskEnd, ListOver
  <2>3. meeting.provider \in BOOLEAN
    BY <1>0 DEF MeetingRow
  <2>4. PICK b \in BOOLEAN : closer' = [closer EXCEPT ![c] = q(b)] /\ (b => meeting.provider)
    BY <2>2, <2>3
  <2>5. closer'[c] = q(b) /\ \A d \in Closers : d # c => closer'[d] = closer[d]
    BY <1>0, <2>4
  <2>6. UNCHANGED <<meeting, room>>
    BY <1>8 DEF AskEnd, ListOver
  <2> QED BY <1>0, <2>1, <2>4, <2>5, <2>6
<1>9. ASSUME NEW c \in Closers, EndMeeting(c)
      PROVE  /\ closer' \in [Closers -> Closer] /\ room' = room /\ meeting'.provider = meeting.provider
             /\ \A d \in Closers : closer'[d] = closer[d] \/ d = c
             /\ \/ closer'[c] = Relax
                \/ closer'[c].pc = "patch" /\ closer'[c].provider /\ closer[c].provider
  <2> DEFINE q == [closer[c] EXCEPT !.pc = "patch"]
  <2>1. q \in Closer /\ q.pc = "patch" /\ q.provider = closer[c].provider
    BY <1>0 DEF Closer
  <2>2. closer' = [closer EXCEPT ![c] = IF closer[c].provider THEN q ELSE Relax]
    BY <1>9 DEF EndMeeting
  <2>3. room' = room /\ meeting'.provider = meeting.provider
    BY <1>0, <1>9 DEF EndMeeting, MeetingRow
  <2> QED BY <1>0, <1>5, <2>1, <2>2, <2>3
<1>10. ASSUME NEW c \in Closers, Patch(c) \/ Kick(c) \/ Clear(c) \/ CloserDies(c)
       PROVE  /\ closer' \in [Closers -> Closer]
              /\ \A d \in Closers : closer'[d] = closer[d] \/ d = c
              /\ \/ closer'[c] = Relax
                 \/ closer'[c].pc \in {"kick", "clear"} /\ closer'[c].provider /\ closer[c].provider
                    /\ room' # "open"
              /\ meeting'.provider => meeting.provider
              /\ room' = "open" => meeting'.provider = meeting.provider
              /\ creator \in {"insert", "post"} => room' = room
  <2> DEFINE q(pc) == [closer[c] EXCEPT !.pc = pc]
  <2>1. \A pc \in {"kick", "clear"} :
          q(pc) \in Closer /\ q(pc).pc = pc /\ q(pc).provider = closer[c].provider
    BY <1>0 DEF Closer
  <2>2. \/ closer' = [closer EXCEPT ![c] = Relax]
        \/ closer' = [closer EXCEPT ![c] = q("kick")] /\ closer[c].pc = "patch" /\ room' = "inactive"
        \/ closer' = [closer EXCEPT ![c] = q("clear")] /\ closer[c].pc = "kick" /\ room' = room
    BY <1>10 DEF Patch, Kick, Clear, CloserDies
  <2>3. \/ meeting' = meeting
        \/ /\ meeting' = [meeting EXCEPT !.provider = FALSE]
           /\ closer[c].pc = "clear" /\ room' = room
    BY <1>10 DEF Patch, Kick, Clear, CloserDies
  <2>4. /\ meeting'.provider => meeting.provider
        /\ room' = "open" => meeting'.provider = meeting.provider
    BY <1>0, <2>3 DEF MeetingInv, MeetingRow
  <2>5. closer[c].pc \in {"patch", "kick"} => closer[c].provider
    BY DEF MeetingInv
  <2>7. creator \in {"insert", "post"} => room' = room
    BY <1>10, <2>5 DEF MeetingInv, Patch, Kick, Clear, CloserDies
  <2>6. closer[c].pc = "kick" => room # "open"
    BY DEF MeetingInv
  <2>8. CASE closer' = [closer EXCEPT ![c] = Relax]
    BY <1>0, <1>5, <2>4, <2>7, <2>8
  <2>9. CASE closer' = [closer EXCEPT ![c] = q("kick")] /\ closer[c].pc = "patch" /\ room' = "inactive"
    BY <1>0, <2>1, <2>4, <2>5, <2>7, <2>9
  <2>10. CASE closer' = [closer EXCEPT ![c] = q("clear")] /\ closer[c].pc = "kick" /\ room' = room
    BY <1>0, <2>1, <2>4, <2>5, <2>6, <2>7, <2>10
  <2> QED BY <2>2, <2>8, <2>9, <2>10
<1>11. meeting.provider => creator \notin {"insert", "post"}
  BY DEF MeetingInv
<1> QED BY <1>4, <1>5, <1>7, <1>8, <1>9, <1>10, <1>11 DEF MeetingInv

\* The invariant holds of every reachable state.
LEMMA MeetingInvariant == MeetingSpec => []MeetingInv
<1>1. MeetingInit => MeetingInv
  <2> SUFFICES ASSUME MeetingInit PROVE MeetingInv
    OBVIOUS
  <2>1. \A c \in Closers : closer[c].pc = "idle" /\ ~closer[c].provider
    BY DEF MeetingInit
  <2>2. MeetingTypeOK
    BY DEF MeetingInit, MeetingTypeOK
  <2> QED BY <2>1, <2>2 DEF MeetingInit, MeetingInv, OpenRoomOnRecord
<1>2. MeetingInv /\ [MeetingNext]_meetingVars => MeetingInv'
  <2> SUFFICES ASSUME MeetingInv, [MeetingNext]_meetingVars PROVE MeetingInv'
    OBVIOUS
  <2>1. CASE UNCHANGED meetingVars
    BY <2>1 DEF meetingVars, MeetingInv, MeetingTypeOK, OpenRoomOnRecord, Over
  <2> QED BY <2>1, CreatorStep, VisitorStep, CloserStep DEF MeetingNext
<1> QED BY <1>1, <1>2, PTL DEF MeetingSpec

\* Every reachable state of a meeting is well typed.
THEOREM MeetingTypeCorrect == MeetingSpec => []MeetingTypeOK
BY MeetingInvariant, PTL DEF MeetingInv

\* Whom the calling service admits after the end of a meeting is given no token.
THEOREM EndIsFinal == MeetingSpec => []NoTokenAfterEnd
<1>1. MeetingInv => NoTokenAfterEnd
  BY DEF MeetingInv, NoTokenAfterEnd
<1> QED BY <1>1, MeetingInvariant, PTL

\* But for a mishap when it was made, an open room is on record until somebody has closed it.
THEOREM RoomsAreClosed == MeetingSpec => []OpenRoomOnRecord
BY MeetingInvariant, PTL DEF MeetingInv

-----------------------------------------------------------------------------
(* Accounts *)

Member == [is : {"unused", "there", "gone"}, admin : BOOLEAN, pending : BOOLEAN]
Request == [pc : {"idle", "count", "bootstrap", "create", "address", "rollback",
                  "promote", "demote", "delete", "purge"},
            target : Users \cup {Nobody}, admin : BOOLEAN, keys : SUBSET Objects]
Arrival == [pc : {"out", "put", "attach", "done"}, to : Users \cup {Nobody}]

\* Only a purge holds keys, and they are of attachments whose messages are gone for good.
Keys ==
  \A w \in Workers :
    /\ worker[w].pc # "idle" => worker[w].target \in Users
    /\ worker[w].pc # "purge" => worker[w].keys = {}
    /\ \A o \in worker[w].keys : arrival[o].pc = "done" /\ o \notin mailed

\* How far a message and its attachment have come.
Arrived ==
  /\ attached \subseteq mailed \cap committed
  /\ \A o \in mailed : arrival[o].pc # "out"
  /\ \A o \in committed : arrival[o].pc = "done"
  /\ \A o \in Objects : arrival[o].pc = "attach" => o \in bucket

\* Who is about to be created was asked for by an administrator.
Administered ==
  Present # {} \/ (\E w \in Workers : worker[w].pc = "create") => Admins # {} \/ undone

AccountInv == AccountTypeOK /\ Keys /\ Arrived /\ PurgeIsExact /\ Administered

\* The types of the columns, each by itself.
LEMMA AccountColumns ==
  ASSUME AccountTypeOK
  PROVE  /\ user \in [Users -> Member] /\ worker \in [Workers -> Request]
         /\ arrival \in [Objects -> Arrival]
         /\ mailed \subseteq Objects /\ attached \subseteq mailed /\ bucket \subseteq Objects
         /\ committed \subseteq Objects /\ stray \subseteq Objects /\ leaked \subseteq Objects
         /\ undone \in BOOLEAN
BY DEF AccountTypeOK, Member, Request, Arrival

\* What becomes of a user.
LEMMA MemberUpdates ==
  ASSUME NEW m \in Member
  PROVE  /\ [m EXCEPT !.pending = FALSE] \in Member
         /\ \A b \in BOOLEAN : /\ [m EXCEPT !.admin = b] \in Member
                               /\ [m EXCEPT !.admin = b].is = m.is
                               /\ [m EXCEPT !.admin = b].admin = b
         /\ \A b \in BOOLEAN : [is |-> "there", admin |-> b, pending |-> TRUE] \in Member
         /\ [is |-> "there", admin |-> TRUE, pending |-> FALSE] \in Member
         /\ Gone \in Member /\ Gone.is = "gone"
BY DEF Member, Gone, NoUser

\* A request that has ended holds nothing.
LEMMA Ended == Unasked \in Request /\ Unasked.pc = "idle" /\ Unasked.keys = {}
BY DEF Unasked, Request

\* A user who is not spared leaves an administrator behind, if there is one.
LEMMA AnotherAdmin ==
  ASSUME user \in [Users -> Member], NEW u \in Present, ~Spared(u), Admins # {}
  PROVE  \E v \in Admins : v # u
<1>1. CASE ~user[u].admin
  BY <1>1 DEF Admins
<1>2. CASE user[u].admin
  <2> SUFFICES ASSUME \A v \in Admins : v = u PROVE FALSE
    OBVIOUS
  <2>1. Admins = {u}
    BY <1>2 DEF Admins
  <2>2. Cardinality(Admins) = 1
    BY <2>1, FS_Singleton
  <2> QED BY <1>2, <2>2 DEF Spared
<1> QED BY <1>1, <1>2

\* A request that changes users alone, or nothing: what is owed of the administrators.
LEMMA UsersOnly ==
  ASSUME AccountInv, user' \in [Users -> Member], worker' \in [Workers -> Request],
         UNCHANGED <<arrival, mailed, attached, bucket, committed, stray, leaked>>, undone' \in BOOLEAN,
         \A w \in Workers :
           /\ worker'[w].pc # "idle" => worker'[w].target \in Users
           /\ worker'[w].pc # "purge" => worker'[w].keys = {}
           /\ worker'[w].keys = worker[w].keys,
         Administered'
  PROVE  AccountInv'
<1>1. AccountTypeOK'
  BY DEF AccountInv, AccountTypeOK, Member, Request
<1>2. Keys'
  BY DEF AccountInv, Keys
<1>3. Arrived'
  BY DEF AccountInv, Arrived
<1>4. PurgeIsExact'
  BY DEF AccountInv, PurgeIsExact
<1> QED BY <1>1, <1>2, <1>3, <1>4 DEF AccountInv

\* A request is accepted.
LEMMA AskStep ==
  ASSUME AccountInv, NEW w \in Workers, NEW u \in Users,
         \/ AskSetup(w, u) \/ AskDelete(w, u)
         \/ \E admin \in BOOLEAN : AskCreate(w, u, admin) \/ AskRole(w, u, admin)
  PROVE  AccountInv'
<1> DEFINE q(pc, admin) == [Unasked EXCEPT !.pc = pc, !.target = u, !.admin = admin]
<1>0. user \in [Users -> Member] /\ worker \in [Workers -> Request] /\ undone \in BOOLEAN
  BY AccountColumns DEF AccountInv
<1>1. PICK pc \in {"count", "create", "promote", "demote", "delete"}, admin \in BOOLEAN :
        /\ worker[w].pc = "idle" /\ worker' = [worker EXCEPT ![w] = q(pc, admin)]
        /\ UNCHANGED user /\ Stays
        /\ pc = "create" => Askers # {}
  BY DEF AskSetup, AskDelete, AskCreate, AskRole, Take
<1>2. q(pc, admin) \in Request /\ q(pc, admin).pc = pc /\ q(pc, admin).target = u /\ q(pc, admin).keys = {}
  BY DEF Unasked, Request
<1>3. /\ worker' \in [Workers -> Request] /\ worker'[w] = q(pc, admin)
      /\ \A x \in Workers : x # w => worker'[x] = worker[x]
  BY <1>0, <1>1, <1>2
<1>4. Administered'
  BY <1>1, <1>2, <1>3 DEF AccountInv, Administered, Stays, Present, Admins, Askers
<1>5. \A x \in Workers : /\ worker[x].pc # "idle" => worker[x].target \in Users
                         /\ worker[x].pc # "purge" => worker[x].keys = {}
  BY DEF AccountInv, Keys
<1>6. UNCHANGED <<arrival, mailed, attached, bucket, committed, stray, leaked, undone>>
  BY <1>1 DEF Stays
<1>7. \A x \in Workers :
        /\ worker'[x].pc # "idle" => worker'[x].target \in Users
        /\ worker'[x].pc # "purge" => worker'[x].keys = {}
        /\ worker'[x].keys = worker[x].keys
  BY <1>1, <1>2, <1>3, <1>5
<1> QED BY <1>0, <1>1, <1>3, <1>4, <1>6, <1>7, UsersOnly

\* A request goes on without a deletion.
LEMMA AdminStep ==
  ASSUME AccountInv, NEW w \in Workers,
         Count(w) \/ Bootstrap(w) \/ Create(w) \/ Address(w) \/ Rollback(w) \/ Promote(w) \/ Demote(w)
  PROVE  AccountInv'
<1> DEFINE u == worker[w].target
<1> DEFINE q(pc) == [worker[w] EXCEPT !.pc = pc]
<1>0. user \in [Users -> Member] /\ worker \in [Workers -> Request] /\ undone \in BOOLEAN
  BY AccountColumns DEF AccountInv
<1>1. worker[w].pc \notin {"idle", "purge"} /\ u \in Users /\ worker[w].keys = {}
  BY DEF AccountInv, Keys, Count, Bootstrap, Create, Address, Rollback, Promote, Demote
<1>2. user[u] \in Member /\ worker[w] \in Request /\ worker[w].admin \in BOOLEAN
  BY <1>0, <1>1 DEF Request
<1>3. \/ worker' = [worker EXCEPT ![w] = Unasked]
      \/ \E pc \in {"bootstrap", "address", "rollback"} : worker' = [worker EXCEPT ![w] = q(pc)]
  BY DEF Count, Bootstrap, Create, Address, Rollback, Promote, Demote, Finish, Advance
<1>4. \A pc \in {"bootstrap", "address", "rollback"} :
        q(pc) \in Request /\ q(pc).pc = pc /\ q(pc).target = u /\ q(pc).keys = {}
  BY <1>1, <1>2 DEF Request
<1>5. /\ worker' \in [Workers -> Request]
      /\ worker'[w].pc \in {"idle", "bootstrap", "address", "rollback"} /\ worker'[w].keys = {}
      /\ worker'[w].pc # "idle" => worker'[w].target = u
      /\ \A x \in Workers : x # w => worker'[x] = worker[x]
  BY <1>0, <1>3, <1>4, Ended
<1>6. UNCHANGED <<arrival, mailed, attached, bucket, committed, stray, leaked>>
  BY DEF Count, Bootstrap, Create, Address, Rollback, Promote, Demote, Stays
<1>7. \A x \in Workers :
        /\ worker'[x].pc # "idle" => worker'[x].target \in Users
        /\ worker'[x].pc # "purge" => worker'[x].keys = {}
        /\ worker'[x].keys = worker[x].keys
  BY <1>1, <1>5 DEF AccountInv, Keys
<1>8. Administered
  BY DEF AccountInv
<1>9. \A x \in Workers : worker'[x].pc = "create" => worker[x].pc = "create"
  BY <1>5
<1>10. SUFFICES user' \in [Users -> Member] /\ undone' \in BOOLEAN /\ Administered'
  BY <1>5, <1>6, <1>7, UsersOnly
<1>11. CASE Count(w) \/ Address(w)
  <2>1. UNCHANGED <<user, undone>>
    BY <1>11 DEF Count, Address, Stays
  <2> QED BY <1>0, <1>8, <1>9, <2>1 DEF Administered, Present, Admins
<1>12. CASE Bootstrap(w)
  <2>1. UNCHANGED undone
    BY <1>12 DEF Bootstrap, Stays
  <2>2. CASE user' = user
    BY <1>0, <1>8, <1>9, <2>1, <2>2 DEF Administered, Present, Admins
  <2>3. CASE user' = [user EXCEPT ![u] = [is |-> "there", admin |-> TRUE, pending |-> FALSE]]
    BY <1>0, <1>1, <1>2, <2>1, <2>3, MemberUpdates DEF Administered, Present, Admins
  <2> QED BY <1>12, <2>2, <2>3 DEF Bootstrap
<1>13. CASE Create(w)
  <2>1. UNCHANGED undone
    BY <1>13 DEF Create, Stays
  <2>2. CASE user' = user
    BY <1>0, <1>8, <1>9, <2>1, <2>2 DEF Administered, Present, Admins
  <2>3. CASE /\ user[u].is = "unused"
             /\ user' = [user EXCEPT ![u] = [is |-> "there", admin |-> worker[w].admin, pending |-> TRUE]]
    <3>1. user' \in [Users -> Member]
      BY <1>0, <1>1, <1>2, <2>3, MemberUpdates
    <3>2. Admins # {} \/ undone
      BY <1>8, <1>13 DEF Create, Administered
    <3>3. Admins \subseteq Admins'
      BY <1>0, <1>1, <2>3 DEF Admins, Present
    <3> QED BY <1>0, <2>1, <3>1, <3>2, <3>3 DEF Administered
  <2> QED BY <1>13, <2>2, <2>3 DEF Create
<1>14. CASE Rollback(w)
  <2> DEFINE deletes == u \in Present /\ user[u].pending
  <2>1. /\ user' = IF deletes THEN [user EXCEPT ![u] = Gone] ELSE user
        /\ undone' = (undone \/ (deletes /\ user[u].admin))
    BY <1>14 DEF Rollback
  <2>2. CASE ~deletes
    <3>1. user' = user /\ undone' = undone
      BY <1>0, <2>1, <2>2
    <3> QED BY <1>0, <1>8, <1>9, <3>1 DEF Administered, Present, Admins
  <2>3. CASE deletes
    <3>1. user' \in [Users -> Member] /\ undone' \in BOOLEAN
      BY <1>0, <1>1, <1>2, <2>1, <2>3, MemberUpdates
    <3>2. Admins # {} \/ undone
      BY <1>8, <2>3 DEF Administered
    <3>3. CASE user[u].admin
      BY <2>1, <2>3, <3>1, <3>3 DEF Administered
    <3>4. CASE ~user[u].admin
      <4>1. Admins \subseteq Admins'
        BY <1>0, <1>1, <2>1, <2>3, <3>4 DEF Admins, Present
      <4>2. undone => undone'
        BY <1>0, <2>1
      <4> QED BY <3>1, <3>2, <4>1, <4>2 DEF Administered
    <3> QED BY <3>3, <3>4
  <2> QED BY <2>2, <2>3
<1>15. CASE Promote(w)
  <2>1. UNCHANGED undone
    BY <1>15 DEF Promote, Stays
  <2>2. CASE user' = user
    BY <1>0, <1>8, <1>9, <2>1, <2>2 DEF Administered, Present, Admins
  <2> DEFINE n == [user[u] EXCEPT !.admin = TRUE]
  <2>3. CASE user' = [user EXCEPT ![u] = n] /\ u \in Present
    <3>1. n \in Member /\ n.is = user[u].is /\ n.admin
      BY <1>2, MemberUpdates
    <3>2. user' \in [Users -> Member] /\ u \in Admins'
      BY <1>0, <1>1, <2>3, <3>1 DEF Present, Admins
    <3> QED BY <1>0, <2>1, <3>2 DEF Administered
  <2> QED BY <1>15, <2>2, <2>3 DEF Promote
<1>16. CASE Demote(w)
  <2>1. UNCHANGED undone
    BY <1>16 DEF Demote, Stays
  <2>2. CASE user' = user
    BY <1>0, <1>8, <1>9, <2>1, <2>2 DEF Administered, Present, Admins
  <2> DEFINE n == [user[u] EXCEPT !.admin = FALSE]
  <2>3. CASE user' = [user EXCEPT ![u] = n] /\ u \in Present /\ ~Spared(u)
    <3>1. n \in Member
      BY <1>2, MemberUpdates
    <3>2. user' \in [Users -> Member] /\ \A v \in Users : v # u => user'[v] = user[v]
      BY <1>0, <1>1, <2>3, <3>1
    <3>3. Admins # {} \/ undone
      BY <1>8, <2>3 DEF Administered
    <3>4. Admins # {} => Admins' # {}
      BY <1>0, <2>3, <3>2, AnotherAdmin DEF Admins, Present
    <3> QED BY <1>0, <2>1, <3>2, <3>3, <3>4 DEF Administered
  <2> QED BY <1>16, <2>2, <2>3 DEF Demote
<1> QED BY <1>11, <1>12, <1>13, <1>14, <1>15, <1>16

\* A user logs in for the first time.
LEMMA LoginStep ==
  ASSUME AccountInv, NEW u \in Users, FirstLogin(u)
  PROVE  AccountInv'
<1> DEFINE n == [user[u] EXCEPT !.pending = FALSE]
<1>0. user \in [Users -> Member] /\ worker \in [Workers -> Request] /\ undone \in BOOLEAN
  BY AccountColumns DEF AccountInv
<1>1. user' = [user EXCEPT ![u] = n] /\ UNCHANGED worker /\ Stays
  BY DEF FirstLogin
<1>2. n \in Member /\ n.is = user[u].is /\ n.admin = user[u].admin
  BY <1>0, MemberUpdates DEF Member
<1>3. user' \in [Users -> Member] /\ Present' = Present /\ Admins' = Admins
  BY <1>0, <1>1, <1>2 DEF Present, Admins
<1>4. Administered'
  BY <1>1, <1>3 DEF AccountInv, Administered, Stays
<1>5. UNCHANGED <<arrival, mailed, attached, bucket, committed, stray, leaked, undone>>
  BY <1>1 DEF Stays
<1>6. \A x \in Workers :
        /\ worker'[x].pc # "idle" => worker'[x].target \in Users
        /\ worker'[x].pc # "purge" => worker'[x].keys = {}
        /\ worker'[x].keys = worker[x].keys
  BY <1>1 DEF AccountInv, Keys
<1> QED BY <1>0, <1>1, <1>3, <1>4, <1>5, <1>6, UsersOnly

\* A user is deleted.
LEMMA UserDeleteStep ==
  ASSUME AccountInv, NEW w \in Workers, DeleteUser(w)
  PROVE  AccountInv'
<1> DEFINE u == worker[w].target
<1> DEFINE k == attached \cap Of(u)
<1> DEFINE q == [worker[w] EXCEPT !.pc = "purge", !.keys = k]
<1>0. /\ user \in [Users -> Member] /\ worker \in [Workers -> Request] /\ undone \in BOOLEAN
      /\ arrival \in [Objects -> Arrival]
      /\ mailed \subseteq Objects /\ attached \subseteq mailed /\ bucket \subseteq Objects
      /\ committed \subseteq Objects /\ stray \subseteq Objects /\ leaked \subseteq Objects
  BY AccountColumns DEF AccountInv
<1>1. worker[w].pc = "delete" /\ u \in Users /\ worker[w].keys = {}
  BY DEF AccountInv, Keys, DeleteUser
<1>2. UNCHANGED <<arrival, bucket, committed, stray, leaked, undone>>
  BY DEF DeleteUser
<1>3. CASE u \notin Present \/ Spared(u)
  <2>1. worker' = [worker EXCEPT ![w] = Unasked] /\ UNCHANGED <<user, mailed, attached>>
    BY <1>3 DEF DeleteUser, Finish
  <2>2. /\ worker' \in [Workers -> Request] /\ worker'[w] = Unasked
        /\ \A x \in Workers : x # w => worker'[x] = worker[x]
    BY <1>0, <2>1, Ended
  <2>3. \A x \in Workers :
          /\ worker'[x].pc # "idle" => worker'[x].target \in Users
          /\ worker'[x].pc # "purge" => worker'[x].keys = {}
          /\ worker'[x].keys = worker[x].keys
    BY <1>1, <2>2, Ended DEF AccountInv, Keys
  <2>4. Administered'
    BY <1>2, <2>1, <2>2, Ended DEF AccountInv, Administered, Present, Admins
  <2> QED BY <1>0, <1>2, <2>1, <2>2, <2>3, <2>4, UsersOnly
<1>4. CASE u \in Present /\ ~Spared(u)
  <2>1. /\ worker' = [worker EXCEPT ![w] = q]
        /\ user' = [user EXCEPT ![u] = Gone]
        /\ mailed' = mailed \ Of(u) /\ attached' = attached \ Of(u)
    BY <1>4 DEF DeleteUser
  <2>2. q \in Request /\ q.pc = "purge" /\ q.target = u /\ q.keys = k
    BY <1>0, <1>1 DEF Request
  <2>3. /\ worker' \in [Workers -> Request] /\ worker'[w] = q
        /\ \A x \in Workers : x # w => worker'[x] = worker[x]
    BY <1>0, <2>1, <2>2
  <2>4. user' \in [Users -> Member] /\ \A v \in Users : v # u => user'[v] = user[v]
    BY <1>0, <1>1, <2>1, MemberUpdates
  <2>5. attached' \subseteq mailed' /\ mailed' \subseteq mailed /\ attached' \subseteq attached
        /\ k \cap mailed' = {} /\ k \subseteq attached /\ attached \subseteq attached' \cup k
    BY <1>0, <2>1
  <2> HIDE DEF q, k
  <2>6. AccountTypeOK'
    BY <1>0, <1>2, <2>3, <2>4, <2>5 DEF AccountTypeOK, Member, Request, Arrival
  <2>7. Keys'
    <3>1. \A o \in k : arrival'[o].pc = "done" /\ o \notin mailed'
      BY <1>2, <2>5 DEF AccountInv, Arrived
    <3> QED BY <1>1, <1>2, <2>2, <2>3, <2>5, <3>1 DEF AccountInv, Keys
  <2>8. Arrived'
    BY <1>2, <2>5 DEF AccountInv, Arrived
  <2>9. PurgeIsExact'
    <3>1. \A x \in Workers : worker[x].keys \subseteq worker'[x].keys
      BY <1>1, <2>2, <2>3
    <3> QED BY <1>2, <2>2, <2>3, <2>5, <3>1 DEF AccountInv, PurgeIsExact
  <2>10. Administered'
    <3>1. Admins # {} \/ undone
      BY <1>4 DEF AccountInv, Administered
    <3>2. Admins # {} => Admins' # {}
      BY <1>0, <1>4, <2>4, AnotherAdmin DEF Admins, Present
    <3> QED BY <1>2, <3>1, <3>2 DEF Administered
  <2> QED BY <2>6, <2>7, <2>8, <2>9, <2>10 DEF AccountInv
<1> QED BY <1>3, <1>4

\* The objects of a deletion go, or its invocation ends.
LEMMA PurgeStep ==
  ASSUME AccountInv, NEW w \in Workers, Purge(w) \/ WorkerDies(w)
  PROVE  AccountInv'
<1> DEFINE keys == worker[w].keys
<1>0. /\ user \in [Users -> Member] /\ worker \in [Workers -> Request] /\ undone \in BOOLEAN
      /\ arrival \in [Objects -> Arrival]
      /\ mailed \subseteq Objects /\ attached \subseteq mailed /\ bucket \subseteq Objects
      /\ committed \subseteq Objects /\ stray \subseteq Objects /\ leaked \subseteq Objects
  BY AccountColumns DEF AccountInv
<1>1. UNCHANGED <<user, arrival, mailed, attached, committed, undone>>
  BY DEF Purge, WorkerDies
<1>2. /\ worker' \in [Workers -> Request] /\ worker'[w] = Unasked
      /\ \A x \in Workers : x # w => worker'[x] = worker[x]
  BY <1>0, Ended DEF Purge, WorkerDies, Finish
<1>3. keys \subseteq Objects
  BY <1>0 DEF Request
<1>4. PICK kept \in SUBSET keys : /\ bucket' = bucket \ (keys \ kept)
                                  /\ stray' \subseteq Objects /\ leaked' \subseteq Objects
                                  /\ stray \subseteq stray' /\ leaked \subseteq leaked'
                                  /\ kept \subseteq stray' \cup leaked'
  <2>1. CASE Purge(w)
    BY <1>0, <1>3, <2>1 DEF Purge
  <2>2. CASE WorkerDies(w)
    <3>1. PICK deleted \in SUBSET keys : /\ bucket' = bucket \ deleted
                                         /\ leaked' = leaked \cup (keys \ deleted)
      BY <2>2 DEF WorkerDies
    <3>2. deleted = keys \ (keys \ deleted) /\ stray' = stray
      BY <2>2 DEF WorkerDies
    <3>3. keys \ deleted \in SUBSET keys
      OBVIOUS
    <3> QED BY <1>0, <1>3, <3>1, <3>2, <3>3
  <2> QED BY <2>1, <2>2
<1>5. \A o \in keys : arrival[o].pc = "done" /\ o \notin mailed
  BY DEF AccountInv, Keys
<1>6. AccountTypeOK'
  BY <1>0, <1>1, <1>2, <1>3, <1>4 DEF AccountTypeOK, Member, Request, Arrival
<1>7. Keys'
  BY <1>1, <1>2, Ended DEF AccountInv, Keys
<1>8. Arrived'
  BY <1>1, <1>4, <1>5 DEF AccountInv, Arrived
<1>9. PurgeIsExact'
  <2>1. attached' \subseteq bucket'
    BY <1>0, <1>1, <1>4, <1>5 DEF AccountInv, PurgeIsExact
  <2>2. ASSUME NEW o \in committed' \cap bucket', o \notin attached' \cup stray' \cup leaked'
        PROVE  \E x \in Workers : o \in worker'[x].keys
    <3>1. o \notin keys /\ o \in committed \cap bucket /\ o \notin attached \cup stray \cup leaked
      BY <1>1, <1>4, <2>2
    <3>2. PICK x \in Workers : o \in worker[x].keys
      BY <3>1 DEF AccountInv, PurgeIsExact
    <3>3. worker'[x] = worker[x]
      BY <1>2, <3>1, <3>2
    <3> QED BY <3>2, <3>3
  <2> QED BY <2>1, <2>2 DEF PurgeIsExact
<1>10. Administered'
  BY <1>1, <1>2, Ended DEF AccountInv, Administered, Present, Admins
<1> QED BY <1>6, <1>7, <1>8, <1>9, <1>10 DEF AccountInv

\* A message arrives, and its attachment after it.
LEMMA MailStep ==
  ASSUME AccountInv, NEW o \in Objects,
         PutObject(o) \/ Attach(o) \/ \E u \in Users : StoreMail(o, u)
  PROVE  AccountInv'
<1>0. /\ user \in [Users -> Member] /\ worker \in [Workers -> Request] /\ undone \in BOOLEAN
      /\ arrival \in [Objects -> Arrival]
      /\ mailed \subseteq Objects /\ attached \subseteq mailed /\ bucket \subseteq Objects
      /\ committed \subseteq Objects /\ stray \subseteq Objects /\ leaked \subseteq Objects
  BY AccountColumns DEF AccountInv
<1>1. UNCHANGED <<user, worker, stray, leaked, undone>>
  BY DEF PutObject, Attach, StoreMail
<1> DEFINE q(pc) == [arrival[o] EXCEPT !.pc = pc]
<1>2. \A pc \in {"attach", "done"} : q(pc) \in Arrival /\ q(pc).pc = pc
  BY <1>0 DEF Arrival
<1>3. \A u \in Users : [pc |-> "put", to |-> u] \in Arrival
  BY DEF Arrival
<1>4. Administered'
  BY <1>1 DEF AccountInv, Administered, Present, Admins
<1>5. CASE PutObject(o)
  <2>1. /\ arrival' = [arrival EXCEPT ![o] = q("attach")] /\ arrival[o].pc = "put"
        /\ bucket' = bucket \cup {o} /\ UNCHANGED <<mailed, attached, committed>>
    BY <1>5 DEF PutObject
  <2>2. /\ arrival' \in [Objects -> Arrival] /\ arrival'[o].pc = "attach"
        /\ \A p \in Objects : p # o => arrival'[p] = arrival[p]
    BY <1>0, <1>2, <2>1
  <2>3. AccountTypeOK'
    BY <1>0, <1>1, <2>1, <2>2 DEF AccountTypeOK, Member, Request, Arrival
  <2>4. o \notin committed /\ \A w \in Workers : o \notin worker[w].keys
    BY <2>1 DEF AccountInv, Arrived, Keys
  <2>5. \A w \in Workers : worker[w].keys \subseteq Objects
    BY <1>0 DEF Request
  <2>6. Keys'
    BY <1>1, <2>1, <2>2, <2>4, <2>5 DEF AccountInv, Keys
  <2>7. Arrived'
    BY <1>0, <2>1, <2>2, <2>4 DEF AccountInv, Arrived
  <2>8. PurgeIsExact'
    BY <1>1, <2>1, <2>4 DEF AccountInv, PurgeIsExact
  <2> QED BY <1>4, <2>3, <2>6, <2>7, <2>8 DEF AccountInv
<1>6. CASE Attach(o)
  <2>1. /\ arrival' = [arrival EXCEPT ![o] = q("done")] /\ arrival[o].pc = "attach"
        /\ attached' = attached \cup ({o} \cap mailed)
        /\ committed' = committed \cup ({o} \cap mailed) /\ UNCHANGED <<mailed, bucket>>
    BY <1>6 DEF Attach
  <2>2. /\ arrival' \in [Objects -> Arrival] /\ arrival'[o].pc = "done"
        /\ \A p \in Objects : p # o => arrival'[p] = arrival[p]
    BY <1>0, <1>2, <2>1
  <2>3. o \in bucket
    BY <2>1 DEF AccountInv, Arrived
  <2>4. attached' \subseteq mailed' /\ committed' \subseteq Objects
    BY <1>0, <2>1
  <2>5. AccountTypeOK'
    BY <1>0, <1>1, <2>1, <2>2, <2>4 DEF AccountTypeOK, Member, Request, Arrival
  <2>6. \A w \in Workers : worker[w].keys \subseteq Objects
    BY <1>0 DEF Request
  <2>7. Keys'
    BY <1>1, <2>1, <2>2, <2>6 DEF AccountInv, Keys
  <2>8. Arrived'
    BY <1>0, <2>1, <2>2 DEF AccountInv, Arrived
  <2>9. PurgeIsExact'
    BY <1>1, <2>1, <2>3 DEF AccountInv, PurgeIsExact
  <2> QED BY <1>4, <2>5, <2>7, <2>8, <2>9 DEF AccountInv
<1>7. CASE \E u \in Users : StoreMail(o, u)
  <2>1. PICK u \in Users :
          /\ arrival' = [arrival EXCEPT ![o] = [pc |-> "put", to |-> u]] /\ arrival[o].pc = "out"
          /\ mailed' = mailed \cup {o} /\ UNCHANGED <<attached, bucket, committed>>
    BY <1>7 DEF StoreMail
  <2>2. /\ arrival' \in [Objects -> Arrival] /\ arrival'[o].pc = "put"
        /\ \A p \in Objects : p # o => arrival'[p] = arrival[p]
    BY <1>0, <1>3, <2>1
  <2>3. AccountTypeOK'
    BY <1>0, <1>1, <2>1, <2>2 DEF AccountTypeOK, Member, Request, Arrival
  <2>4. o \notin committed /\ \A w \in Workers : o \notin worker[w].keys
    BY <2>1 DEF AccountInv, Arrived, Keys
  <2>5. \A w \in Workers : worker[w].keys \subseteq Objects
    BY <1>0 DEF Request
  <2>6. Keys'
    BY <1>1, <2>1, <2>2, <2>4, <2>5 DEF AccountInv, Keys
  <2>7. Arrived'
    BY <1>0, <2>1, <2>2, <2>4 DEF AccountInv, Arrived
  <2>8. PurgeIsExact'
    BY <1>1, <2>1 DEF AccountInv, PurgeIsExact
  <2> QED BY <1>4, <2>3, <2>6, <2>7, <2>8 DEF AccountInv
<1> QED BY <1>5, <1>6, <1>7

\* The invariant holds of every reachable state.
LEMMA AccountInvariant == AccountSpec => []AccountInv
<1>1. AccountInit => AccountInv
  <2> SUFFICES ASSUME AccountInit PROVE AccountInv
    OBVIOUS
  <2>1. \A w \in Workers : worker[w] = Unasked
    BY DEF AccountInit
  <2>2. worker \in [Workers -> Request]
    BY Ended DEF AccountInit
  <2>3. AccountTypeOK
    BY <2>2 DEF AccountInit, AccountTypeOK, NoUser, Request
  <2>4. Present = {}
    BY DEF AccountInit, Present, NoUser
  <2> QED BY <2>1, <2>3, <2>4, Ended
          DEF AccountInit, AccountInv, Keys, Arrived, PurgeIsExact, Administered
<1>2. AccountInv /\ [AccountNext]_accountVars => AccountInv'
  <2> SUFFICES ASSUME AccountInv, [AccountNext]_accountVars PROVE AccountInv'
    OBVIOUS
  <2>1. CASE UNCHANGED accountVars
    BY <2>1 DEF accountVars, AccountInv, AccountTypeOK, Keys, Arrived, PurgeIsExact,
                Administered, Present, Admins
  <2> QED BY <2>1, AskStep, AdminStep, LoginStep, UserDeleteStep, PurgeStep, MailStep DEF AccountNext
<1> QED BY <1>1, <1>2, PTL DEF AccountSpec

\* Every reachable state of the accounts is well typed.
THEOREM AccountTypeCorrect == AccountSpec => []AccountTypeOK
BY AccountInvariant, PTL DEF AccountInv

\* An instance that has been set up keeps an administrator, unless a new one was taken back.
THEOREM AdministratorsRemain == AccountSpec => []LastAdminKept
<1>1. AccountInv => LastAdminKept
  BY DEF AccountInv, Administered, LastAdminKept
<1> QED BY <1>1, AccountInvariant, PTL

\* Deleting users purges exactly their attachments, for any number of requests and messages: one
\* that lost its row and stays was rejected and logged, or left by an invocation that ended.
THEOREM PurgesAreExact == AccountSpec => []PurgeIsExact
BY AccountInvariant, PTL DEF AccountInv

-----------------------------------------------------------------------------
(* The workspace *)

\* Whichever part moves, every other part stutters: what is proved of a part alone holds in the
\* program in which all of them run.
THEOREM PartsAreAlone ==
  WorkspaceSpec => /\ DraftSpec /\ CalendarSpec /\ FeedSpec /\ VacationSpec
                   /\ MeetingSpec /\ AccountSpec /\ TaskSpec /\ ChatSpec
<1>1. WorkspaceInit => /\ DraftInit /\ CalendarInit /\ FeedInit /\ VacationInit
                       /\ MeetingInit /\ AccountInit /\ TaskInit /\ ChatInit
  BY DEF WorkspaceInit
<1>2. [WorkspaceNext]_allVars =>
        /\ [DraftNext]_draftVars /\ [CalendarNext]_calendarVars
        /\ [FeedNext]_feedVars /\ [VacationNext]_vacationVars
        /\ [MeetingNext]_meetingVars /\ [AccountNext]_accountVars
        /\ [TaskNext]_taskVars /\ [ChatNext]_chatVars
  BY DEF WorkspaceNext, allVars
<1> QED
  BY <1>1, <1>2, PTL DEF WorkspaceSpec, DraftSpec, CalendarSpec, FeedSpec, VacationSpec,
                         MeetingSpec, AccountSpec, TaskSpec, ChatSpec

\* Every part keeps its types while the others run.
THEOREM WorkspaceTypeCorrect == WorkspaceSpec => []WorkspaceTypeOK
<1>1. /\ DraftTypeOK /\ CalendarTypeOK /\ FeedTypeOK /\ VacationTypeOK
      /\ MeetingTypeOK /\ AccountTypeOK /\ TaskTypeOK /\ ChatTypeOK
      => WorkspaceTypeOK
  BY DEF WorkspaceTypeOK
<1> QED
  BY <1>1, PartsAreAlone, DraftTypeCorrect, CalendarTypeCorrect, FeedTypeCorrect,
     VacationTypeCorrect, MeetingTypeCorrect, AccountTypeCorrect, TaskTypeCorrect,
     ChatTypeCorrect, PTL
=============================================================================
