---------------------------- MODULE Submissions ----------------------------
(***************************************************************************)
(* What the service promises to those who submit the attempts of a         *)
(* workflow run.  What an attempt stages is collected until it is claimed  *)
(* for deletion, and is gone in the end.  An attempt becomes a run only    *)
(* before that claim and with all its originals, which are never erased    *)
(* then; only the newest one does, it ends the runs before it, and only it *)
(* is sealed.  Jobs, requests, sweeps, leases and tokens are not here.     *)
(***************************************************************************)
EXTENDS Integers

CONSTANTS Attempts, Images

VARIABLES
  place,      \* per attempt: its stage
  outcome,    \* per attempt: its run
  originals,  \* per attempt: the images that are stored
  lost,       \* per attempt: the images that storage lost
  traces      \* the attempts of which anything else is stored

submissions == <<place, outcome, originals, lost, traces>>

NoneAfter(a) == \A b \in Attempts : b > a => outcome[b] = "none"
Complete(a) == Images \subseteq originals[a] \cup lost[a]

\* The stages can be of any age when one begins to look.
Init ==
  /\ place \in [Attempts -> {"none", "live", "deleting", "deleted"}]
  /\ outcome \in [Attempts -> {"none", "open", "failed", "sealed", "closed"}]
  /\ originals \in [Attempts -> SUBSET Images] /\ lost \in [Attempts -> SUBSET Images]
  /\ traces \subseteq {a \in Attempts : place[a] \in {"live", "deleting"}}
  /\ \A a \in Attempts :
       /\ outcome[a] # "none" => Complete(a)
       /\ outcome[a] \notin {"none", "closed"} => NoneAfter(a)
       /\ place[a] = "deleted" /\ outcome[a] = "none" => originals[a] = {}

Begin(a) ==
  /\ place[a] = "none"
  /\ place' = [place EXCEPT ![a] = "live"]
  /\ UNCHANGED <<outcome, originals, lost, traces>>

Collect(a) ==
  /\ place[a] = "live"
  /\ \/ traces' = traces \cup {a} /\ UNCHANGED originals
     \/ /\ \E i \in Images : originals' = [originals EXCEPT ![a] = @ \cup {i}]
        /\ UNCHANGED traces
  /\ UNCHANGED <<place, outcome, lost>>

Lose(a, i) ==
  /\ i \in originals[a]
  /\ originals' = [originals EXCEPT ![a] = @ \ {i}]
  /\ lost' = [lost EXCEPT ![a] = @ \cup {i}]
  /\ UNCHANGED <<place, outcome, traces>>

Admit(a) ==
  /\ place[a] = "live" /\ Complete(a)
  /\ outcome[a] = "none" /\ NoneAfter(a)
  /\ outcome' = [b \in Attempts |-> IF b = a THEN "open"
                                    ELSE IF outcome[b] = "none" THEN "none" ELSE "closed"]
  /\ UNCHANGED <<place, originals, lost, traces>>

Becomes(a, new) ==
  /\ outcome' = [outcome EXCEPT ![a] = new]
  /\ UNCHANGED <<place, originals, lost, traces>>

Seal(a) == outcome[a] = "open" /\ NoneAfter(a) /\ Becomes(a, "sealed")
Fail(a) == outcome[a] = "open" /\ Becomes(a, "failed")
Close(a) == outcome[a] # "none" /\ Becomes(a, "closed")

\* Not while the run of the attempt is being made.
Claim(a) ==
  /\ place[a] = "live" /\ outcome[a] \notin {"open", "failed"}
  /\ place' = [place EXCEPT ![a] = "deleting"]
  /\ UNCHANGED <<outcome, originals, lost, traces>>

Erase(a) ==
  /\ place[a] = "deleting"
  /\ \/ traces' = traces \ {a} /\ UNCHANGED originals
     \/ /\ outcome[a] = "none"
        /\ \E rest \in SUBSET originals[a] : originals' = [originals EXCEPT ![a] = rest]
        /\ UNCHANGED traces
  /\ UNCHANGED <<place, outcome, lost>>

Delete(a) ==
  /\ place[a] = "deleting" /\ a \notin traces
  /\ outcome[a] = "none" => originals[a] = {}
  /\ place' = [place EXCEPT ![a] = "deleted"]
  /\ UNCHANGED <<outcome, originals, lost, traces>>

Next ==
  \E a \in Attempts :
    \/ Begin(a) \/ Collect(a) \/ (\E i \in Images : Lose(a, i))
    \/ Admit(a) \/ Seal(a) \/ Fail(a) \/ Close(a)
    \/ Claim(a) \/ Erase(a) \/ Delete(a)

Spec == Init /\ [][Next]_submissions
=============================================================================
