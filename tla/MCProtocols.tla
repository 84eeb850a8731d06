---------------------------- MODULE MCProtocols ----------------------------
(***************************************************************************)
(* Instances for TLC of the components that speak with GitHub.  They share *)
(* no state, so each one has initial states of its own, in which the       *)
(* others are over: one run checks them all.                               *)
(***************************************************************************)
EXTENDS Protocols

CONSTANTS a, b, s1, s2

VARIABLE scanners  \* the passes over deliveries that run

-----------------------------------------------------------------------------
(* The components that are over.                                           *)
PreRunOver ==
  /\ state = "active" /\ requestStarted = TRUE /\ leaseLeft = 0 /\ checkId = 1
  /\ checks = {1} /\ posts = {} /\ started = 1
  /\ worker = [w \in Workers |-> Idle] /\ current = TRUE /\ outage = FALSE

\* A log, the attempts on their way, what is received, and what passes did.
\* Without an attempt, b was processed long ago.
Deliveries(entries, coming, received, requests, passes) ==
  /\ log = [id \in 1..Len(entries) |-> [guid |-> entries[id], ok |-> FALSE]]
  /\ flight = [g \in Guids |-> IF g \in coming THEN 1 ELSE 0]
  /\ receipt = [g \in Guids |-> IF g \in ToSet(received) THEN "stored"
                                ELSE IF g = b /\ b \notin ToSet(entries) \cup coming
                                  THEN "processed" ELSE "none"]
  /\ fresh = received /\ tried = <<>> /\ batch = <<>>
  /\ recovery = [g \in Guids |->
       IF g = b /\ requests > 0
         THEN [listed |-> TRUE, attempts |-> requests, waits |-> TRUE, resolved |-> FALSE]
         ELSE NoRecovery]
  /\ exhausted = {} /\ cursor = 0
  /\ asked = [g \in Guids |-> IF g = b THEN requests ELSE 0] /\ stops = 0
  /\ scan = [s \in Scanners |-> IdleScan] /\ scanners = passes

DeliveriesOver == Deliveries(<<>>, {}, <<>>, 0, {s1})

CreationOver ==
  /\ eligible = FALSE /\ creation = NoCreation /\ appChecks = {} /\ sends = {} /\ sent = 0
  /\ creator = [p \in Creators |-> CreatorIdle] /\ trouble = FALSE

CommentOver ==
  /\ delivered = 0 /\ open = FALSE /\ comment = NoComment
  /\ posted = 0 /\ shows = [c \in {} |-> 0]
  /\ sender = [p \in Senders |-> SenderIdle] /\ faults = 0

-----------------------------------------------------------------------------
(* One delivery from its first attempt; one that was asked for once, with  *)
(* two passes; one that failed for good, under a newer entry; and one that *)
(* is stored behind a delivery that can not be processed.                  *)
MCDeliveries ==
  \/ Deliveries(<<>>, {b}, <<>>, 0, {s1})
  \/ Deliveries(<<b, b>>, {}, <<>>, 1, Scanners)
  \/ Deliveries(<<b, b, b, a>>, {}, <<a>>, 2, {s1})
  \/ Deliveries(<<a, b>>, {}, <<a, b>>, 0, {s1})

MCInit ==
  \/ Init /\ DeliveriesOver /\ CreationOver /\ CommentOver
  \/ PreRunOver /\ MCDeliveries /\ CreationOver /\ CommentOver
  \/ PreRunOver /\ DeliveriesOver /\ CInit /\ CommentOver
  \/ PreRunOver /\ DeliveriesOver /\ CreationOver /\ SInit

\* Of two passes, one stops only between its charge and its request; it is named s1.
MCNext ==
  \/ Next /\ UNCHANGED <<deliveryVars, creationVars, commentVars>>
  \/ /\ DNext /\ \A s \in Scanners \ scanners : scan'[s] = scan[s]
     /\ stops' # stops /\ scanners = Scanners => scan[s1].at = "asking" /\ scan'[s2] = scan[s2]
     /\ UNCHANGED <<vars, creationVars, commentVars>>
  \/ CNext /\ UNCHANGED <<vars, deliveryVars, commentVars>>
  \/ SNext /\ UNCHANGED <<vars, deliveryVars, creationVars>>

MCSpec ==
  /\ MCInit
  /\ [][MCNext /\ UNCHANGED scanners]_<<vars, deliveryVars, creationVars, commentVars, scanners>>
  /\ Fairness /\ DFairness /\ CFairness /\ SFairness
=============================================================================
