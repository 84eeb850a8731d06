---------------------------- MODULE MCReviewQueue ----------------------------
(* Instances of ReviewQueue for TLC. *)
EXTENDS ReviewQueue, TLC

CONSTANTS r1, r2

MCItems == {{r1}, {r2}}
MCSymmetry == Permutations(Commands) \cup Permutations(Workers)
=============================================================================
