---------------------------- MODULE MCController ----------------------------
(* Small instances of Controller. *)
EXTENDS Controller, MCDelivery

CONSTANTS a, b

\* Revision b is larger than the tighter payload budget.
Sizes == (a :> 1) @@ (b :> 2)

\* Retries are immediate and there are two attempts.
Retrying == (s1 :> Policy("replay_events", 0, 1, TRUE, TRUE, 2, 0))

\* Two runs differ in nothing.
RunSymmetry == Permutations(Runs)
=============================================================================
