---------------------------- MODULE CommitChecks ----------------------------
(***************************************************************************)
(* What the service promises of the checks of one commit, over all the     *)
(* attempts of its workflow.  Checks are made one after the other, each    *)
(* when those before it are closed, and belong to one attempt for good.    *)
(* Only the newest check is ever open, and once it closed only the result  *)
(* of its run opens it again.  It passes with a run, or when the Plan of   *)
(* its attempt needs none; and an attempt gets a run only under the newest *)
(* check, while that is open.                                              *)
(***************************************************************************)
EXTENDS Naturals

CONSTANTS
  Generations,  \* 0..n, in the order of the checks
  Attempts      \* of the workflow, from 1

VARIABLES
  shown,    \* per check: what it shows, or "none" when it is not made
  owner,    \* per check: its attempt, 0 while it has none
  runs,     \* attempts with a run
  unneeded  \* attempts whose Plan selects no visual work

commitChecks == <<shown, owner, runs, unneeded>>

Made(g) == shown[g] # "none"
Newest(g) == Made(g) /\ \A later \in Generations : later > g => ~Made(later)
Closed(g) == shown[g] \in {"success", "failure"}
Owns(a) == \E g \in Generations : owner[g] = a

Init ==
  /\ shown = [g \in Generations |-> "none"] /\ owner = [g \in Generations |-> 0]
  /\ runs = {} /\ unneeded = {}

\* The first check can be made before an attempt needs it.
Make(g) ==
  /\ ~Made(g) /\ \A later \in Generations : later > g => ~Made(later)
  /\ \A before \in Generations : before < g => Closed(before)
  /\ shown' = [shown EXCEPT ![g] = "open"]
  /\ \E a \in Attempts \cup {0} :
       /\ IF a = 0 THEN g = 0 ELSE ~Owns(a)
       /\ owner' = [owner EXCEPT ![g] = a]
  /\ UNCHANGED <<runs, unneeded>>

Close(g, result) ==
  /\ Made(g)
  /\ result = "success" => owner[g] \in runs \cup unneeded
  /\ shown' = [shown EXCEPT ![g] = result]
  /\ UNCHANGED <<owner, runs, unneeded>>

Reopen(g) ==
  /\ Newest(g) /\ owner[g] \in runs
  /\ shown' = [shown EXCEPT ![g] = "open"]
  /\ UNCHANGED <<owner, runs, unneeded>>

\* An attempt takes the check that was made before it.
Bind(a) ==
  /\ Newest(0) /\ owner[0] = 0 /\ ~Owns(a)
  /\ owner' = [owner EXCEPT ![0] = a]
  /\ UNCHANGED <<shown, runs, unneeded>>

PlanNothing(a) ==
  /\ a \notin runs
  /\ unneeded' = unneeded \cup {a}
  /\ UNCHANGED <<shown, owner, runs>>

Admit(a) ==
  /\ a \notin runs \cup unneeded
  /\ \E g \in Generations : Newest(g) /\ shown[g] = "open" /\ owner[g] = a
  /\ runs' = runs \cup {a}
  /\ UNCHANGED <<shown, owner, unneeded>>

\* One thing changes at a time.
Next ==
  \/ /\ shown' # shown
     /\ \E g \in Generations :
          Make(g) \/ Reopen(g) \/ \E result \in {"success", "failure"} : Close(g, result)
  \/ runs' # runs /\ \E a \in Attempts : Admit(a)
  \/ owner'[0] # owner[0] /\ \E a \in Attempts : Bind(a)
  \/ unneeded' # unneeded /\ \E a \in Attempts : PlanNothing(a)

Spec == Init /\ [][Next]_commitChecks
=============================================================================
