-------------------------- MODULE DeliveryProgress --------------------------
(***************************************************************************)
(* Delivery under a clock that keeps going: what the lease machine of      *)
(* src/src/delivery.rs owes a subscription whose consumers may crash,      *)
(* fail or answer late, for ever.                                          *)
(*                                                                         *)
(* Only differences between stored times and the clock matter, so the      *)
(* clock is the origin of time: every call is made at time 0 and a tick    *)
(* brings every stored time one unit closer.  A time that has been reached *)
(* stays 0, since the code compares it with <= or > only.  The state is    *)
(* finite though time is not bounded.                                      *)
(***************************************************************************)
EXTENDS Delivery

Closer(t) == IF t > 0 THEN t - 1 ELSE 0

Tick ==
    /\ deliveries' = [k \in DOMAIN deliveries |->
           [deliveries[k] EXCEPT !.expires = Closer(@), !.notBefore = Closer(@)]]
    /\ leases' = {[l EXCEPT !.expires = Closer(@)] : l \in leases}
    /\ closed' = {[l EXCEPT !.expires = Closer(@)] : l \in closed}
    /\ UNCHANGED <<records, events, subscriptions, enabled>>

\* One pass of the controller's loop head: lease_next, whatever it returns.
Poll(s) ==
    \/ LeaseNone(s, 0)
    \/ \E duration \in Durations : LeaseNext(s, 0, duration)

ProgressNext == Next \/ Tick

\* Time passes and lease_next is called again and again (the operator's runs
\* of the controller).  Nothing is assumed of the consumers, which may never
\* answer, nor of the sources, which may commit or not.
ProgressSpec ==
    /\ DeliveryInit /\ [][ProgressNext]_vars
    /\ WF_vars(Tick)
    /\ \A s \in Subscriptions : WF_vars(Poll(s))

Settled(k) == k \in DOMAIN deliveries /\ deliveries[k].state \in Advancing

\* A row waits for an operator, or waits behind a row that does: the code has
\* no operation that takes a row out of these states.
Barred(k) ==
    \E j \in Earlier(deliveries, k) \cup ({k} \cap DOMAIN deliveries) :
        deliveries[j].state \in {"blocked", "dead_lettered"}

\* Every delivery of a subscription that stays enabled is settled or runs into
\* such a barrier, though every consumer may crash with its lease: a lease
\* cannot be lost for ever, and neither the lease cap nor the backoff nor the
\* order of records can leave everyone waiting.
AllKeys == [sub : Subscriptions, record : Records, version : 1..MaxVersion]

EventuallySettled ==
    \A k \in AllKeys :
        k \in DOMAIN deliveries
            ~> \/ k.sub \notin enabled
               \/ Barred(k)
               \/ Settled(k)
=============================================================================
