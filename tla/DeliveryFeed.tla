---------------------------- MODULE DeliveryFeed ----------------------------
(***************************************************************************)
(* Delivery implements RecordFeed: a feed is one record of one             *)
(* subscription, a version is done when its row advances the record's      *)
(* order, and a feed is busy while one of its rows is leased.              *)
(***************************************************************************)
EXTENDS Delivery

AllFeeds == Subscriptions \X Records

FeedOf(k) == <<k.sub, k.record>>

\* The versions of feed f whose row is in one of the given states.
VersionsIn(f, states) ==
    {k.version : k \in {j \in DOMAIN deliveries :
        FeedOf(j) = f /\ deliveries[j].state \in states}}

BarredStates == {"blocked", "dead_lettered"}

publishedVersions == [f \in AllFeeds |-> VersionsIn(f, DeliveryStates)]
doneVersions == [f \in AllFeeds |-> VersionsIn(f, Advancing)]
barredVersions == [f \in AllFeeds |-> VersionsIn(f, BarredStates)]
busyFeeds == {f \in AllFeeds : VersionsIn(f, {"leased"}) # {}}

Feed == INSTANCE RecordFeed WITH
            Feeds <- AllFeeds, published <- publishedVersions,
            done <- doneVersions, barred <- barredVersions, busy <- busyFeeds

\* Through every interleaving of commits, subscriptions, leases, expiries,
\* retries and late answers, each record of each subscription is a feed: its
\* versions come in order, one worker at a time works on the first that is not
\* done, none is done twice or reopened, and a barred one is never passed.
IsRecordFeed == Feed!Spec
=============================================================================
