----------------------------- MODULE RecordFeed -----------------------------
(***************************************************************************)
(* What durable delivery promises a consumer, without leases, tokens,      *)
(* clocks or attempts (docs/payload-delivery-contract.md): each record of  *)
(* each subscription is a feed of versions.  Versions join a feed in       *)
(* ascending order.  Work is done on the first version that is not done,   *)
(* by one worker at a time, and may be given up and taken again any number *)
(* of times; a done version never comes back.  A version can be barred,    *)
(* which ends its feed there.                                              *)
(***************************************************************************)
EXTENDS Naturals

CONSTANT Feeds

VARIABLES
    published,  \* the versions that have joined each feed
    done,       \* those finished
    barred,     \* those nobody may take
    busy        \* the feeds whose first open version is being worked on

feedVars == <<published, done, barred, busy>>

Init ==
    /\ published = [f \in Feeds |-> {}]
    /\ done = [f \in Feeds |-> {}]
    /\ barred = [f \in Feeds |-> {}]
    /\ busy = {}

OpenVersions(f) == published[f] \ done[f]

\* The first open version of a feed: a set of at most one element.
First(f) == {v \in OpenVersions(f) : \A w \in OpenVersions(f) : v <= w}

\* Versions join feeds, above all that joined before; some are barred at once.
Publish ==
    /\ published' \in [Feeds -> SUBSET Nat]
    /\ barred' \in [Feeds -> SUBSET Nat]
    /\ \A f \in Feeds :
        /\ published[f] \subseteq published'[f]
        /\ \A v \in published'[f] \ published[f], w \in published[f] : w < v
        /\ barred[f] \subseteq barred'[f]
        /\ barred'[f] \ barred[f] \subseteq published'[f] \ published[f]
    /\ UNCHANGED <<done, busy>>

\* The feeds of back are given up, the first versions of those of stop are
\* barred, and then those of take are taken, if they can be.
Turn(back, stop, take) ==
    /\ back \subseteq busy
    /\ stop \subseteq back
    /\ barred' = [f \in Feeds |-> IF f \in stop THEN barred[f] \cup First(f)
                                  ELSE barred[f]]
    /\ \A f \in take :
        /\ f \notin busy \ back
        /\ First(f) # {}
        /\ First(f) \cap barred'[f] = {}
    /\ busy' = (busy \ back) \cup take
    /\ UNCHANGED <<published, done>>

\* The worker of feed f finishes its version.
Finish(f) ==
    /\ f \in busy
    /\ done' = [done EXCEPT ![f] = @ \cup First(f)]
    /\ busy' = busy \ {f}
    /\ UNCHANGED <<published, barred>>

Next ==
    \/ Publish
    \/ \E back \in SUBSET busy :
        \E stop \in SUBSET back, take \in {{}} \cup {{f} : f \in Feeds} :
            Turn(back, stop, take)
    \/ \E f \in Feeds : Finish(f)

Spec == Init /\ [][Next]_feedVars
=============================================================================
