-------------------------- MODULE MCStatusDelivery --------------------------
(* Instances of StatusDelivery for TLC. *)
EXTENDS StatusDelivery, TLC

MCTexts == {"capturing", "passed"}
MCInProgress == {"capturing"}
MCReadRetry == [attempt \in 1..MaxAttempts |-> 1]
MCSymmetry == Permutations(Passes)
=============================================================================
