------------------------------ MODULE MCLedger ------------------------------
(***************************************************************************)
(* The ledger while it is backed up and restored: one operator writes to   *)
(* one path and the other to another, and each may restore from both.      *)
(* Four versions are the shortest history that has every kind of event,    *)
(* with a restore that also commits new bytes.                             *)
(***************************************************************************)
EXTENDS Backup, TLC

CONSTANTS o, u, x, y

TargetsOf == o :> {x} @@ u :> {y}

\* The operators trade places with their paths.
Swap == o :> u @@ u :> o @@ x :> y @@ y :> x

Symmetry == Permutations(Revisions) \cup Permutations(Locations) \cup {Swap}
=============================================================================
