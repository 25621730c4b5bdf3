---------------------------- MODULE MCSourceScan ----------------------------
(* Small instances of SourceScan. *)
EXTENDS SourceScan, TLC

CONSTANTS a, b

\* Contents of different length.
Sizes == [content \in Revisions |-> IF content = b THEN 2 ELSE 1]
=============================================================================
