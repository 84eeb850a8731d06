--------------------------- MODULE BaselineHistory ---------------------------
(***************************************************************************)
(* What the baseline of a project promises to those who look at it: the    *)
(* accepted runs are one line that only grows, and never back to an older  *)
(* commit.  Each of them was approved against the end of the line as it    *)
(* was when it came on; with that, every other approval is void, and a run *)
(* that is on the line is not reviewed again.  Revisions, leases, passes   *)
(* and the images are not here.                                            *)
(***************************************************************************)
EXTENDS Naturals, Sequences

CONSTANTS
  Runs,  \* the main runs; each one has a commit
  None   \* the end of a line without a run

VARIABLES
  line,      \* the accepted runs, oldest first
  approvals  \* the approvals that stand: a run, and what it was compared with

history == <<line, approvals>>

End == IF line = <<>> THEN None ELSE line[Len(line)]
Accepted == {line[i] : i \in DOMAIN line}

Init == line = <<>> /\ approvals = {}

Approve ==
  /\ \E r \in Runs \ Accepted : approvals' = approvals \cup {[run |-> r, against |-> End]}
  /\ UNCHANGED line

\* A change is rejected, or a run is closed.
Withdraw == approvals' \subseteq approvals /\ UNCHANGED line

Accept ==
  \E r \in Runs \ Accepted :
    /\ [run |-> r, against |-> End] \in approvals
    /\ \A q \in Accepted : q.commit <= r.commit
    /\ line' = Append(line, r) /\ approvals' = {}

Next == Approve \/ Withdraw \/ Accept

Spec == Init /\ [][Next]_history
=============================================================================
