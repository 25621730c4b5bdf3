------------------------------- MODULE MCScrub -------------------------------
(* Small instances of Scrub. *)
EXTENDS Scrub, TLC

CONSTANTS a, b, here, there

\* Contents of different length.
Sizes == [content \in Revisions |-> IF content = b THEN 2 ELSE 1]

\* Contents of one length, which a modification time that was set back hides.
SameSize == [content \in Revisions |-> 2]

RankOf == here :> 1 @@ there :> 2

\* The initial sources up to the names of records and contents.
First == [record |-> 1, revision |-> a, stamp |-> 1]

UpToNames ==
    /\ ScrubInit
    /\ tree[here] \in {NoFile, First}
    /\ tree[here] = NoFile => tree[there] \in {NoFile, First}

ProgressUpToNames ==
    UpToNames /\ [][ScrubProgressNext]_scrubVars /\ ScrubFairness
=============================================================================
