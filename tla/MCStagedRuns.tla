---------------------------- MODULE MCStagedRuns ----------------------------
EXTENDS StagedRuns, TLC
CONSTANTS i1, w1, w2
OneImage == {i1}
TwoWorkers == {w1, w2}
OneWorker == {w1}

\* Instances: one attempt from its start, with faults; and a rerun that has
\* staged its images beside a submitted first attempt, without faults.
Submitted ==
  [NoStage EXCEPT !.state = "live", !.job = TRUE, !.reference = TRUE,
                  !.rows = Images, !.complete = Images, !.index = TRUE,
                  !.submitted = TRUE, !.failures = Burst]

MCInit ==
  \/ /\ client = [a \in Attempts |-> IF a = 1 THEN "waiting" ELSE "over"]
     /\ request = {} /\ faults = 0
     /\ stage = [a \in Attempts |-> NoStage]
     /\ objects = [a \in Attempts |-> {}]
     /\ files = [a \in Attempts |-> {}]
     /\ run = [a \in Attempts |-> NoRun]
     /\ check = [a \in Attempts |-> "active"]
     /\ stale = {}
     /\ worker = [w \in Workers |-> Idle]
     /\ lost = [a \in Attempts |-> {}]
  \/ /\ client = [a \in Attempts |-> "over"]
     /\ request = {} /\ faults = MaxFaults
     /\ stage = [a \in Attempts |-> Submitted]
     /\ objects = [a \in Attempts |-> Images]
     /\ files = [a \in Attempts |-> {"page", "index"}]
     /\ run = [a \in Attempts |-> NoRun]
     /\ check = [a \in Attempts |-> "active"]
     /\ stale = {}
     /\ worker = [w \in Workers |-> Idle]
     /\ lost = [a \in Attempts |-> {}]
  \* The last attempt is still uploading when retention deletes the first one.
  \/ /\ client = [a \in Attempts |-> IF a = MaxAttempt THEN "running" ELSE "over"]
     /\ request = {} /\ faults = MaxFaults
     /\ stage = [a \in Attempts |->
          IF a = MaxAttempt THEN [Submitted EXCEPT !.complete = {}, !.index = FALSE, !.submitted = FALSE]
          ELSE [Submitted EXCEPT !.old = TRUE]]
     /\ objects = [a \in Attempts |-> IF a = MaxAttempt THEN {} ELSE Images]
     /\ files = [a \in Attempts |-> IF a = MaxAttempt THEN {"page"} ELSE {"page", "index"}]
     /\ run = [a \in Attempts |-> IF a = MaxAttempt THEN NoRun
                                  ELSE [state |-> "compared", sealed |-> TRUE, images |-> Images, shard |-> TRUE]]
     /\ check = [a \in Attempts |-> "active"]
     /\ stale = Attempts
     /\ worker = [w \in Workers |-> Idle]
     /\ lost = [a \in Attempts |-> {}]

Narrow ==
  \A a \in Attempts : stage'[a].old /\ ~stage[a].old => stage[MaxAttempt].state = None
MCSpec == MCInit /\ [][Next]_vars
=============================================================================
