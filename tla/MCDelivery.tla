----------------------------- MODULE MCDelivery -----------------------------
(***************************************************************************)
(* Small instances of Delivery.  Policies are named after what they make   *)
(* interesting; the cfg files choose among them.                           *)
(***************************************************************************)
EXTENDS DeliveryFeed, TLC

CONSTANTS s1, s2

Policy(mode, after, active, moves, tombstones, attempts, backoff) ==
    [mode |-> mode, replayAfter |-> after, maxActiveLeases |-> active,
     acceptsMoves |-> moves, acceptsTombstones |-> tombstones,
     maxAttempts |-> attempts, initialBackoff |-> backoff, maxBackoff |-> backoff]

\* One subscription that accepts everything, two leases at a time.
OneReplay ==
    (s1 :> Policy("replay_events", 0, 2, TRUE, TRUE, 2, 1))

\* One lease at a time.
OneAtATime ==
    (s1 :> Policy("replay_events", 0, 1, TRUE, TRUE, 2, 1))

\* Rebuild beside a replay that skips the first event and declines moves and
\* tombstones.
RebuildAndReplay ==
    (s1 :> Policy("rebuild_current", 0, 1, TRUE, TRUE, 1, 0)) @@
    (s2 :> Policy("replay_events", 1, 1, FALSE, FALSE, 1, 0))

\* Backoff as the code computes it with words of w + 1 bits, of which a stored
\* maximum uses w: the shift and the product saturate.
BackoffInWords(w, initial, max, attempt) ==
    LET least(i, j) == IF i < j THEN i ELSE j
        shift   == least(IF attempt > 0 THEN attempt - 1 ELSE 0, w)
        product == least(initial * 2^shift, 2^(w + 1) - 1)
    IN  least(product, max)

\* Saturation makes no difference to the result.
ASSUME SaturationAgrees ==
    \A w \in 1..4 : \A max \in 0 .. 2^w - 1 :
        \A initial \in 0..max, attempt \in 0 .. w + 3 :
            BackoffInWords(w, initial, max, attempt) = Backoff(initial, max, attempt)

Symmetry == Permutations(Revisions) \cup Permutations(Locations)
=============================================================================
