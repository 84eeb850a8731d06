------------------------------ MODULE MCBaseline ------------------------------
(* Instances of Baseline for TLC. *)
EXTENDS Baseline, TLC

VARIABLE reviewed  \* whether reviewers decide

MCAttempt(w, a, c) == [workflow |-> w, attempt |-> a, commit |-> c]

\* Two attempts of an older commit, and a run of a newer one.
MCRerun == MCAttempt(1, 2, 1)
MCReruns == {MCAttempt(1, 1, 1), MCRerun, MCAttempt(2, 1, 2)}

\* One run.
MCSingle == {MCAttempt(1, 1, 1)}

MCSymmetry == Permutations(Passes)

-----------------------------------------------------------------------------
(* Reruns, decisions and overlapping passes at once are too many states:   *)
(* either each comparison keeps the approval that it began with, and no    *)
(* run fails, or the older commit is not run again and one pass works at a *)
(* time.                                                                   *)
Undecided ==
  \A r \in Runs :
    /\ run'[r].state # "failed"
    /\ run[r].comparison = "ready" =>
         run'[r].approved = run[r].approved /\ run'[r].queue = run[r].queue

OneByOne ==
  /\ run'[MCRerun].state = "none"
  /\ \A p, q \in Passes : pass'[p].at # "idle" /\ pass'[q].at # "idle" => p = q

MCInit == Init /\ reviewed \in BOOLEAN
MCNext == Next /\ UNCHANGED reviewed /\ IF reviewed THEN OneByOne ELSE Undecided
MCSpec == MCInit /\ [][MCNext]_<<vars, reviewed>>

\* One run needs no such bound.
MCSingleInit == Init /\ reviewed = TRUE
MCSingleNext == Next /\ UNCHANGED reviewed
MCFairSpec == MCSingleInit /\ [][MCSingleNext]_<<vars, reviewed>> /\ Fairness
=============================================================================
