------------------------------- MODULE Feeds -------------------------------
(***************************************************************************)
(* A calendar that is subscribed to by URL (calendar-subscriptions.ts):    *)
(* refreshes by the scheduled worker and after subscribing, each under a   *)
(* lease, the remote feed that changes meanwhile, and the end of the       *)
(* subscription.                                                           *)
(*                                                                         *)
(* An await is a step and a batch is atomic.  lease_until is the time of   *)
(* the listing and five minutes more, and names its claim as long as no    *)
(* two listings share a millisecond; here claims are numbered, and 0 is a  *)
(* lease given back.  A lease can run out at any time.                     *)
(***************************************************************************)
EXTENDS Naturals

CONSTANTS
  Fetchers,      \* invocations that refresh
  MaxPublished,  \* bound: states of the remote feed
  MaxClaims      \* bound: claims

ASSUME FeedsAssumption == MaxPublished \in Nat /\ MaxClaims \in Nat

VARIABLES
  published,     \* the remote feed
  subscribed,    \* the subscription's row is there
  lease,         \* lease_until: the claim that holds it, or 0
  lapsed,        \* the lease has run out
  claims,        \* claims so far
  stored,        \* the state of the feed that the events show, 0 for none
  fetcher        \* refreshes, and what they have fetched

feedVars == <<published, subscribed, lease, lapsed, claims, stored, fetcher>>

Unused == [pc |-> "idle", lease |-> 0, got |-> 0]

FeedTypeOK ==
  /\ published \in 0..MaxPublished /\ stored \in 0..MaxPublished
  /\ subscribed \in BOOLEAN /\ lapsed \in BOOLEAN
  /\ claims \in 0..MaxClaims /\ lease \in 0..claims
  /\ fetcher \in [Fetchers -> [pc : {"idle", "claim", "fetch", "store", "fail"},
                               lease : 0..claims, got : 0..MaxPublished]]

FeedInit ==
  /\ published = 0 /\ stored = 0
  /\ subscribed = TRUE /\ lease = 0 /\ lapsed = FALSE /\ claims = 0
  /\ fetcher = [f \in Fetchers |-> Unused]

Free == subscribed /\ (lease = 0 \/ lapsed)

\* The list of what is due.
ListFeed(f) ==
  /\ fetcher[f].pc = "idle" /\ Free
  /\ fetcher' = [fetcher EXCEPT ![f].pc = "claim"]
  /\ UNCHANGED <<published, subscribed, lease, lapsed, claims, stored>>

ClaimFeed(f) ==
  /\ fetcher[f].pc = "claim" /\ claims < MaxClaims
  /\ IF Free
     THEN /\ claims' = claims + 1 /\ lease' = claims' /\ lapsed' = FALSE
          /\ fetcher' = [fetcher EXCEPT ![f].pc = "fetch", ![f].lease = claims']
     ELSE fetcher' = [fetcher EXCEPT ![f] = Unused] /\ UNCHANGED <<claims, lease, lapsed>>
  /\ UNCHANGED <<published, subscribed, stored>>

\* The feed is fetched and understood, or it is not.
Fetch(f) ==
  /\ fetcher[f].pc = "fetch"
  /\ \/ fetcher' = [fetcher EXCEPT ![f].pc = "store", ![f].got = published]
     \/ fetcher' = [fetcher EXCEPT ![f].pc = "fail"]
  /\ UNCHANGED <<published, subscribed, lease, lapsed, claims, stored>>

Holds(f) == subscribed /\ lease = fetcher[f].lease

\* Wrong on purpose: the events are replaced whoever holds the lease.
StoreAnyway(f) ==
  /\ fetcher[f].pc = "store"
  /\ stored' = fetcher[f].got
  /\ lease' = IF Holds(f) THEN 0 ELSE lease
  /\ fetcher' = [fetcher EXCEPT ![f] = Unused]
  /\ UNCHANGED <<published, subscribed, lapsed, claims>>

\* The batch: every statement asks for the lease of this claim.
StoreFeed(f) ==
  /\ fetcher[f].pc = "store"
  /\ stored' = IF Holds(f) THEN fetcher[f].got ELSE stored
  /\ lease' = IF Holds(f) THEN 0 ELSE lease
  /\ fetcher' = [fetcher EXCEPT ![f] = Unused]
  /\ UNCHANGED <<published, subscribed, lapsed, claims>>

FailFeed(f) ==
  /\ fetcher[f].pc = "fail"
  /\ lease' = IF Holds(f) THEN 0 ELSE lease
  /\ fetcher' = [fetcher EXCEPT ![f] = Unused]
  /\ UNCHANGED <<published, subscribed, lapsed, claims, stored>>

\* The invocation ends where it is.
FetcherDies(f) ==
  /\ fetcher[f].pc # "idle"
  /\ fetcher' = [fetcher EXCEPT ![f] = Unused]
  /\ UNCHANGED <<published, subscribed, lease, lapsed, claims, stored>>

LeaseRunsOut ==
  /\ lease # 0 /\ ~lapsed /\ lapsed' = TRUE
  /\ UNCHANGED <<published, subscribed, lease, claims, stored, fetcher>>

Publish ==
  /\ published < MaxPublished /\ published' = published + 1
  /\ UNCHANGED <<subscribed, lease, lapsed, claims, stored, fetcher>>

\* removeSubscription: the events, and the calendar with its subscription.
Unsubscribe ==
  /\ subscribed /\ subscribed' = FALSE
  /\ stored' = 0 /\ lease' = 0
  /\ UNCHANGED <<published, lapsed, claims, fetcher>>

FeedNext ==
  \/ \E f \in Fetchers : ListFeed(f) \/ ClaimFeed(f) \/ Fetch(f) \/ StoreFeed(f) \/ FailFeed(f)
                           \/ FetcherDies(f)
  \/ LeaseRunsOut \/ Publish \/ Unsubscribe

FeedSpec == FeedInit /\ [][FeedNext]_feedVars

-----------------------------------------------------------------------------
(* Properties *)

\* A refresh never takes the events back to an earlier state of the feed, however long it was
\* under way and whoever refreshed meanwhile, and none brings them back after the end.
FeedNeverGoesBack ==
  [][IF subscribed' THEN stored' >= stored ELSE stored' = 0]_feedVars

=============================================================================
