---------------------------- MODULE MCRetention ----------------------------
(***************************************************************************)
(* The baseline of a first run, a later main run and a pull request run.   *)
(***************************************************************************)
EXTENDS Retention

CONSTANTS m1, m2, p1, w1, w2

ThreeRuns == {m1, m2, p1}
TwoMains == {m1, m2}
OneWorker == {w1}
TwoWorkers == {w1, w2}

\* A pull request run beside a later main run without a fault, and each of them
\* alone with one.
MCInit ==
  /\ Init
  /\ \/ faults = MaxFaults /\ \A r \in Runs \ {First} : stage[r] = "none"
     \/ faults = 0 /\ Cardinality({r \in Runs \ {First} : stage[r] = "none"}) = 1

\* With all runs, each list names an image of every run that it can.
Narrow ==
  \/ \E r \in Runs : stage[r] = "ended" /\ run[r] = "none"
  \/ \A r \in Runs : uses'[r] # uses[r] => uses'[r] = Named(chosen[r]) \cup {r}

MCSpec == MCInit /\ [][Next /\ Narrow]_vars /\ Fairness
=============================================================================
