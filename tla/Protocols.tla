----------------------------- MODULE Protocols -----------------------------
(***************************************************************************)
(* The components that speak with GitHub, next to each other.  They share  *)
(* no state; what holds of all of them is stated once, here.               *)
(***************************************************************************)
EXTENDS PreRunCheckCreation, GitHubDeliveries, CheckCreation, PullRequestComments

(* Every variable of the components has its type, and the order in which   *)
(* deliveries are processed holds what is stored.                          *)
EachTypeOK == TypeOK /\ DTypeOK /\ CTypeOK /\ STypeOK

(* A check that GitHub created without an answer is adopted, before a run  *)
(* exists and for a run.                                                   *)
CreatedIsKept == CreatedIsAdopted /\ CreatedIsComplete
=============================================================================
