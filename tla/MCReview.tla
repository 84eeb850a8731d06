------------------------------ MODULE MCReview ------------------------------
(***************************************************************************)
(* Instances for TLC of the commands of a run, and of the page that sends  *)
(* them.  They share no state: each has initial states of its own, in      *)
(* which the other one does nothing.                                       *)
(***************************************************************************)
EXTENDS ReviewCommands, ReviewSession

CONSTANTS r1, r2, d1, d2, d3

VARIABLE part  \* what the behaviour is of, "commands" or "page"

MCItems == {{r1, r2}}
MCCopiedRows == {r1}

MCInit ==
  /\ Init /\ SessionInit
  /\ part = "commands" \/ (part = "page" /\ main = TRUE)

-----------------------------------------------------------------------------
Sends(d) == command[d] # NoTask

(* The decisions of a page are interchangeable.                           *)
DecisionsInOrder == (Sends(d2) => Sends(d1)) /\ (Sends(d3) => Sends(d2))

(* Bounds: three decisions of a page that is alone; two with one event     *)
(* from outside; two of one variant or of the run with two events, when    *)
(* they approve; and two of one variant with three events, without reads   *)
(* and Undo.                                                               *)
Events == others + faults + reads
Made == {d \in Decisions : Sends(d)}
Simple(kinds) ==
  \A d \in Made : command[d].kind \in kinds /\
    (command[d].kind = "one" => command[d].verdict = "approved")

SessionBounds ==
  \/ Events = 0
  \/ Cardinality(Made) <= 2 /\ Events = 1
  \/ Cardinality(Made) <= 2 /\ Events = 2 /\ Simple({"one", "run"})
  \/ Cardinality(Made) <= 2 /\ reads = 0 /\ Simple({"one"})
       /\ undoing = NoDecision /\ undone = {}

MCNext ==
  \/ part = "commands" /\ Next /\ UNCHANGED sessionVars
  \/ part = "page" /\ SessionNext /\ DecisionsInOrder' /\ SessionBounds' /\ UNCHANGED vars

MCSpec == MCInit /\ [][MCNext /\ UNCHANGED part]_<<vars, sessionVars, part>>

MCSymmetry == Permutations(Commands) \cup Permutations(Shots)
=============================================================================
