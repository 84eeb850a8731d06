------------------------------ MODULE MCChecks ------------------------------
(***************************************************************************)
(* Instances for TLC of the delivery of a result to its check, and of the  *)
(* checks of the attempts of a workflow.  They share no state here: each   *)
(* has initial states of its own, in which the other one does nothing.     *)
(***************************************************************************)
EXTENDS MCStatusDelivery, WorkflowAttempts

VARIABLE part  \* what the behaviour is of, "delivery" or "attempts"

checkRuns == <<vars, attemptVars, part>>

DeliveryOver ==
  /\ revision = 1 /\ result \in InProgress /\ eligible = FALSE
  /\ desired = 0 /\ delivered = 0 /\ lease = NoLease /\ leaseLeft = 0
  /\ requestStarted = FALSE /\ ambiguous = FALSE
  /\ outbox = [rev \in Revisions |-> NoRow]
  /\ shown = Starting /\ shownRevision = 0 /\ writes = {}
  /\ pass = [p \in Passes |-> Idle]
  /\ current = FALSE /\ closer = "done"

MCInit ==
  \/ part = "delivery" /\ Init /\ AInit
  \/ part = "attempts" /\ DeliveryOver /\ AInit

MCNext ==
  \/ part = "delivery" /\ Next /\ UNCHANGED attemptVars
  \/ part = "attempts" /\ ANext /\ UNCHANGED vars

MCFairSpec ==
  /\ MCInit /\ [][MCNext /\ UNCHANGED part]_checkRuns
  /\ LockFairness /\ SendFairness /\ AFairness

-----------------------------------------------------------------------------
(* Two passes, or two requests or deliveries, are too many states in some  *)
(* cases: a result in progress does not follow one in progress, and once   *)
(* main moved and a request stopped, one runs at a time.                   *)
Pairs ==
  /\ revision' # revision => result' # result \/ result \notin InProgress
  /\ moved' /\ halts' > 0 =>
       \A h, k \in Handlers : handler'[h].at # "idle" /\ handler'[k].at # "idle" => h = k

MCSpec == MCInit /\ [][MCNext /\ UNCHANGED part /\ Pairs]_checkRuns

MCBothSymmetry == MCSymmetry \cup Permutations(Handlers)
=============================================================================
