-------------------------- MODULE MCReconciliation --------------------------
(***************************************************************************)
(* Scans and scrubs that crash and overlap, in the instances whose product *)
(* would be too large: a scanner alone under the most changes of the       *)
(* source, two scanners, and a scanner with a scrubber.                    *)
(***************************************************************************)
EXTENDS MCScrub

CONSTANTS p, q, s

VARIABLE instance    \* chosen once, in the initial state

Instances == {[who |-> {p}, changes |-> 3],
              [who |-> {p, q}, changes |-> 1],
              [who |-> {p, s}, changes |-> 1]}

AtWork == {r \in Scanners : ~At(r, "idle")} \cup {r \in Scrubbers : ~Scrubbing(r, "idle")}

NextOfInstance ==
    /\ ScrubNext
    /\ AtWork' \subseteq instance.who
    /\ changes' <= instance.changes
    /\ UNCHANGED instance

InitOfInstance == ScrubInit /\ instance \in Instances

InstancesSpec == InitOfInstance /\ [][NextOfInstance]_<<scrubVars, instance>>
=============================================================================
