------------------------------ MODULE Baseline ------------------------------
(***************************************************************************)
(* The life of the main runs of a project, and its accepted baseline.      *)
(*                                                                         *)
(* A workflow attempt selects the baseline as its reference, is reserved,  *)
(* sealed and compared with that reference, and is reviewed.  A promotion  *)
(* pass prepares a snapshot of a run whose review passed, verifies its     *)
(* originals and makes it the baseline, which invalidates every other open *)
(* main review.  Long after its baseline was replaced, the retention       *)
(* retires the snapshot of an accepted run.  Each write is one batch of D1 *)
(* that is guarded by the revisions which the call read before; passes     *)
(* overlap, stop, and lose their leases while they run.                    *)
(*                                                                         *)
(* Pull requests and merge groups are left out: they read accepted         *)
(* snapshots and never change the baseline.  The rows of a review are one  *)
(* flag, "each change is approved", and its decisions on the queue are     *)
(* another.  Runs carry a capture inventory.                               *)
(***************************************************************************)
EXTENDS Naturals, FiniteSets, Sequences, SequencesExt

CONSTANTS
  Runs,        \* attempts: records of workflow, attempt and (the place of the) commit
  Passes,      \* promotion passes that may overlap
  None,        \* NULL
  MaxActive,   \* maximumActiveRuns
  MaxRevision, \* bound: no decision is made at a later revision of a run
  MaxStops     \* bound: Workers that stop

ASSUME BaselineAssumption ==
  /\ IsFiniteSet(Runs) /\ Runs \subseteq [workflow : Nat, attempt : Nat, commit : Nat]
  /\ MaxActive \in Nat /\ MaxRevision \in Nat /\ MaxStops \in Nat
  /\ None \notin [run : Runs, revision : Nat]

VARIABLES
  project,    \* revision, baseline (baseline_revision) and snapshot
  run,        \* per attempt: its staged row, its run and its comparison
  comparer,   \* per attempt: the revisions a comparison call read, or None
  snapshots,  \* visonaut_snapshots by ID
  promotions, \* visonaut_promotions, oldest first
  leases,     \* live promotion leases: snapshot ID and pass
  pass,       \* per pass: its place and locals
  stops       \* Workers that stopped so far

vars == <<project, run, comparer, snapshots, promotions, leases, pass, stops>>

\* The ID of a snapshot is the digest of its comparison and of the revision
\* of the run; a main run has at most one comparison.
Ids == [run : Runs, revision : Nat]

Before == {"none", "staged"}
Unfinished == {"uploading", "comparing"}
States == Before \cup Unfinished \cup {"reviewing", "accepted", "superseded", "failed"}
Comparisons == {"none", "comparing", "ready", "invalidated"}

NewRun == [state |-> "none", active |-> FALSE, sealed |-> FALSE, revision |-> 0,
           baseline |-> 0, reference |-> None, ancestry |-> {}, related |-> {},
           comparison |-> "none", attached |-> FALSE, approved |-> FALSE, queue |-> "empty"]

Places == {"idle", "claiming", "clearing", "preparing", "prepared", "verifying", "verified",
           "promoting", "cancelling", "cancelled", "done"}
Idle == [at |-> "idle", id |-> None, projectRevision |-> 0, runRevision |-> 0]

Init ==
  /\ project = [revision |-> 0, baseline |-> 0, snapshot |-> None]
  /\ run = [r \in Runs |-> NewRun]
  /\ comparer = [r \in Runs |-> None]
  /\ snapshots = <<>> /\ promotions = <<>> /\ leases = {}
  /\ pass = [p \in Passes |-> Idle] /\ stops = 0

\* touchRunStatusStatements
Touched == [project EXCEPT !.revision = @ + 1]
Touch(row) == [row EXCEPT !.revision = @ + 1]

Copying == {id \in DOMAIN snapshots : snapshots[id].state = "copying"}
Accepted == {id \in DOMAIN snapshots : snapshots[id].state = "accepted"}
Eligible == {id \in DOMAIN snapshots : snapshots[id].eligible}

\* The status "passed" of readRunStatus, for a run that is not promoted.
Passed(r) ==
  /\ run[r].active /\ run[r].sealed /\ run[r].attached /\ run[r].state # "failed"
  /\ run[r].comparison = "ready" /\ run[r].approved
  /\ run[r].baseline = project.baseline

-----------------------------------------------------------------------------
(* Admission and comparison.                                               *)

IsAncestor(id, r) == id.run.commit <= r.commit

(* selectReference: a main run can use only the snapshot of the project,   *)
(* when its commit is an ancestor.                                         *)
SelectReference(r) ==
  /\ run[r].state = "none"
  /\ project.snapshot # None => IsAncestor(project.snapshot, r)
  /\ run' = [run EXCEPT ![r] = [@ EXCEPT !.state = "staged", !.baseline = project.baseline,
                                         !.reference = project.snapshot]]
  /\ UNCHANGED <<project, comparer, snapshots, promotions, leases, pass, stops>>

Superseded(r) == {q \in Runs : q.workflow = r.workflow /\ run[q].active}

ReserveRun(r) ==
  /\ run[r].state = "staged"
  /\ \A q \in Runs :
       q.workflow = r.workflow /\ run[q].state \notin Before => q.attempt < r.attempt
  /\ LET close(row) == [Touch(row) EXCEPT !.active = FALSE, !.state = "superseded"]
         reserved == [run[r] EXCEPT
           !.state = "uploading", !.active = TRUE,
           !.ancestry = {id.run.commit : id \in {i \in Eligible : IsAncestor(i, r)}},
           !.related = {q \in Runs : run[q].state \notin Before /\ q.commit <= r.commit}]
     IN run' = [q \in Runs |-> IF q = r THEN reserved
                               ELSE IF q \in Superseded(r) THEN close(run[q]) ELSE run[q]]
  /\ Cardinality({q \in Runs : run'[q].active /\ run'[q].state \in Unfinished}) <= MaxActive
  /\ project' = Touched
  /\ UNCHANGED <<comparer, snapshots, promotions, leases, pass, stops>>

(* The call tested the reference of the run earlier; the batch does not.   *)
SealRun(r) ==
  /\ run[r].active /\ run[r].state = "uploading"
  /\ run' = [run EXCEPT ![r] = [Touch(@) EXCEPT !.sealed = TRUE, !.state = "comparing"]]
  /\ project' = Touched
  /\ UNCHANGED <<comparer, snapshots, promotions, leases, pass, stops>>

(* A stale reference, or an original that cannot be read: the run fails    *)
(* and stays active.                                                       *)
FailRun(r) ==
  /\ run[r].active /\ run[r].state = "uploading"
  /\ run' = [run EXCEPT ![r] = [Touch(@) EXCEPT !.state = "failed"]]
  /\ project' = Touched
  /\ UNCHANGED <<comparer, snapshots, promotions, leases, pass, stops>>

(* The staged evidence of an unsealed run is past its retention.           *)
ExpireRun(r) ==
  /\ run[r].active /\ ~run[r].sealed
  /\ run' = [run EXCEPT ![r] = [Touch(@) EXCEPT !.state = "failed", !.active = FALSE]]
  /\ project' = Touched
  /\ UNCHANGED <<comparer, snapshots, promotions, leases, pass, stops>>

\* currentReference, and the guards of createLocalComparison on a main run.
ReferenceHolds(r) ==
  /\ run[r].baseline = project.baseline /\ run[r].reference = project.snapshot
  /\ run[r].reference # None =>
       /\ run[r].reference \in Eligible
       /\ run[r].reference.run.commit \in run[r].ancestry

(* The first batch of createSparseComparison: a comparison that a call     *)
(* before left behind is used again.                                       *)
BeginComparison(r) ==
  /\ comparer[r] = None
  /\ run[r].active /\ run[r].sealed /\ ~run[r].attached
  /\ run[r].comparison \in {"none", "comparing"}
  /\ ReferenceHolds(r)
  /\ run' = [run EXCEPT ![r].comparison = "comparing"]
  /\ comparer' = [comparer EXCEPT ![r] = [project |-> project.revision, run |-> run[r].revision]]
  /\ UNCHANGED <<project, snapshots, promotions, leases, pass, stops>>

\* Its last batch has the guards of the first.
ComparerCurrent(r) ==
  /\ run[r].active /\ comparer[r].run = run[r].revision
  /\ comparer[r].project = project.revision

AttachComparison(r) ==
  /\ comparer[r] # None
  /\ comparer' = [comparer EXCEPT ![r] = None]
  /\ IF ComparerCurrent(r) /\ ~run[r].attached
       THEN /\ run' = [run EXCEPT ![r] = [Touch(@) EXCEPT !.attached = TRUE,
                                                          !.state = "comparing"]]
            /\ project' = Touched
       ELSE UNCHANGED <<run, project>>
  /\ UNCHANGED <<snapshots, promotions, leases, pass, stops>>

(* The Worker of a comparison stops between its batches.                   *)
StopComparison(r) ==
  /\ comparer[r] # None
  /\ stops < MaxStops /\ stops' = stops + 1
  /\ comparer' = [comparer EXCEPT ![r] = None]
  /\ UNCHANGED <<project, run, snapshots, promotions, leases, pass>>

(* Approvals of the same change by earlier runs are copied.                *)
FinalizeComparison(r) ==
  /\ run[r].active /\ run[r].attached /\ run[r].comparison = "comparing"
  /\ \E approved \in BOOLEAN :
       run' = [run EXCEPT ![r] = [Touch(@) EXCEPT !.comparison = "ready", !.state = "reviewing",
                                                  !.approved = approved]]
  /\ project' = Touched
  /\ UNCHANGED <<comparer, snapshots, promotions, leases, pass, stops>>

Reviewing(r) ==
  /\ run[r].active /\ run[r].attached /\ run[r].comparison = "ready"
  /\ run[r].revision < MaxRevision

(* A decision waits on the queue of reviews; no revision changes.          *)
AdmitDecision(r) ==
  /\ Reviewing(r) /\ run[r].queue = "empty"
  /\ run' = [run EXCEPT ![r].queue = "waiting"]
  /\ UNCHANGED <<project, comparer, snapshots, promotions, leases, pass, stops>>

(* The queue saves it, or a page undoes a decision directly.               *)
SaveDecision(r) ==
  /\ Reviewing(r)
  /\ \E queue \in {"empty", run[r].queue} :
       run' = [run EXCEPT ![r] = [Touch(@) EXCEPT !.approved = ~run[r].approved, !.queue = queue]]
  /\ project' = Touched
  /\ UNCHANGED <<comparer, snapshots, promotions, leases, pass, stops>>

(* It is refused, or each attempt at it failed.  Bound: no other decision  *)
(* waits before one is saved.                                              *)
RefuseDecision(r) ==
  /\ run[r].active /\ run[r].queue = "waiting"
  /\ run' = [run EXCEPT ![r].queue = "refused"]
  /\ UNCHANGED <<project, comparer, snapshots, promotions, leases, pass, stops>>

\* replacedMainRunSql; runs are created in the order of their reservation.
Replaced(r) ==
  /\ project.snapshot # None
  /\ LET new == project.snapshot.run
     IN /\ new # r /\ run[new].state = "accepted" /\ project.snapshot \in Eligible
        /\ r \in run[new].related
  /\ run[r].attached /\ run[r].comparison = "invalidated" /\ run[r].baseline < project.baseline

RetireReplaced(r) ==
  /\ run[r].active /\ run[r].sealed /\ run[r].state = "reviewing"
  /\ Replaced(r)
  /\ run' = [run EXCEPT ![r] = [Touch(@) EXCEPT !.active = FALSE, !.state = "superseded"]]
  /\ project' = Touched
  /\ UNCHANGED <<comparer, snapshots, promotions, leases, pass, stops>>

-----------------------------------------------------------------------------
(* Promotion passes.                                                       *)

Become(p, me) == pass' = [pass EXCEPT ![p] = me]
Goto(p, place) == Become(p, [pass[p] EXCEPT !.at = place])
\* The revisions that a pass read serve one batch.
Continue(p, place) == Become(p, [Idle EXCEPT !.at = place, !.id = pass[p].id])
Id(p) == pass[p].id
RunOf(p) == run[Id(p).run]

ReadRevisions(p, place) ==
  Become(p, [pass[p] EXCEPT !.at = place, !.projectRevision = project.revision,
                            !.runRevision = RunOf(p).revision])

\* projectGuard and activeGuard.
ProjectGuard(p) == pass[p].projectRevision = project.revision
ActiveGuard(p) == RunOf(p).active /\ pass[p].runRevision = RunOf(p).revision

\* Mutant: the ID names the comparison only.
NewIdOfComparison(r) == [run |-> r, revision |-> 0]

NewId(r) == [run |-> r, revision |-> run[r].revision]

(* A candidate, and the snapshot that an earlier pass left for it.         *)
PickCandidate(p, r) ==
  /\ pass[p].at = "idle"
  /\ Passed(r) /\ run[r].state # "accepted"
  /\ LET left == {id \in Copying : id.run = r}
     IN \E id \in IF left = {} THEN {NewId(r)} ELSE left :
          Become(p, [Idle EXCEPT !.at = "claiming", !.id = id])
  /\ UNCHANGED <<project, run, comparer, snapshots, promotions, leases, stops>>

(* The originals of a run stay live while a pin names it: claims by two    *)
(* passes exclude each other until the first one expires.                  *)
ClaimLease(p) ==
  /\ pass[p].at \in {"claiming", "clearing"}
  /\ IF \E lease \in leases : lease.id = Id(p)
       THEN Become(p, Idle) /\ UNCHANGED leases
       ELSE /\ leases' = leases \cup {[id |-> Id(p), pass |-> p]}
            /\ Goto(p, IF pass[p].at = "claiming" THEN "preparing" ELSE "cancelling")
  /\ UNCHANGED <<project, run, comparer, snapshots, promotions, stops>>

(* preparePromotion uses a snapshot that exists; a revoked one is an error. *)
ReadForPrepare(p) ==
  /\ pass[p].at = "preparing"
  /\ IF Id(p) \in DOMAIN snapshots
       THEN Continue(p, IF snapshots[Id(p)].state = "revoked" THEN "done" ELSE "verifying")
       ELSE ReadRevisions(p, "prepared")
  /\ UNCHANGED <<project, run, comparer, snapshots, promotions, leases, stops>>

\* readyGuard, and the tests of the comparison against the project.
ReadyFor(p) ==
  /\ RunOf(p).approved /\ RunOf(p).queue # "waiting" /\ RunOf(p).sealed /\ RunOf(p).attached
  /\ RunOf(p).comparison = "ready"
  /\ RunOf(p).baseline = project.baseline /\ RunOf(p).reference = project.snapshot

PreparePromotion(p) ==
  /\ pass[p].at = "prepared"
  /\ IF ProjectGuard(p) /\ ActiveGuard(p) /\ ReadyFor(p) /\ Id(p) \notin DOMAIN snapshots
       THEN /\ snapshots' = [id \in DOMAIN snapshots \cup {Id(p)} |->
                 IF id = Id(p) THEN [state |-> "copying", eligible |-> FALSE, verified |-> FALSE]
                 ELSE snapshots[id]]
            /\ Continue(p, "verifying")
       ELSE Continue(p, "done") /\ UNCHANGED snapshots
  /\ UNCHANGED <<project, run, comparer, promotions, leases, stops>>

(* Each original of the snapshot is read and hashed, and the result is     *)
(* stored.                                                                 *)
VerifyOriginals(p) ==
  /\ pass[p].at = "verifying"
  /\ IF RunOf(p).active /\ RunOf(p).attached /\ Id(p) \in Copying
       THEN /\ snapshots' = [snapshots EXCEPT ![Id(p)].verified = TRUE]
            /\ Goto(p, "verified")
       ELSE Continue(p, "done") /\ UNCHANGED snapshots
  /\ UNCHANGED <<project, run, comparer, promotions, leases, stops>>

(* The page is not the last one, or an original cannot be read: the rest   *)
(* is for a later pass.                                                    *)
VerifyLater(p) ==
  /\ pass[p].at = "verifying"
  /\ Continue(p, "done")
  /\ UNCHANGED <<project, run, comparer, snapshots, promotions, leases, stops>>

ReadForPromote(p) ==
  /\ pass[p].at = "verified"
  /\ ReadRevisions(p, "promoting")
  /\ UNCHANGED <<project, run, comparer, snapshots, promotions, leases, stops>>

\* Mutant: the batch does not test that the baseline is an ancestor and the
\* reference of the comparison.
PromotableOnce(p) ==
  /\ ActiveGuard(p) /\ RunOf(p).approved /\ RunOf(p).sealed /\ RunOf(p).attached
  /\ Id(p) \in Copying /\ snapshots[Id(p)].verified

Promotable(p) ==
  /\ ProjectGuard(p) /\ ActiveGuard(p) /\ ReadyFor(p)
  /\ Id(p) \in Copying /\ snapshots[Id(p)].verified
  /\ project.snapshot # None =>
       project.snapshot \in Eligible /\ project.snapshot.run.commit \in RunOf(p).ancestry

\* Mutant: the other open reviews keep their comparison.
AfterPromotionKeeps(row) == IF row.active THEN Touch(row) ELSE row

\* Every other open run: its comparison is invalidated, work on it stops, and
\* its check is written again.
AfterPromotion(row) ==
  IF row.active
    THEN Touch([row EXCEPT
           !.comparison = IF @ = "none" THEN @ ELSE "invalidated",
           !.state = IF @ = "comparing" /\ row.attached THEN "reviewing" ELSE @])
    ELSE row

Promote(p) ==
  /\ pass[p].at = "promoting"
  /\ Continue(p, "done")
  /\ IF Promotable(p)
       THEN LET previous == project.snapshot
                mine == Id(p).run
                closed(r) == previous # None /\ r = previous.run
            IN /\ promotions' = Append(promotions, [id |-> Id(p), previous |-> previous,
                                                    baseline |-> project.baseline + 1])
               /\ snapshots' = [snapshots EXCEPT ![Id(p)].state = "accepted", ![Id(p)].eligible = TRUE]
               /\ project' = [Touched EXCEPT !.snapshot = Id(p), !.baseline = @ + 1]
               /\ run' = [r \in Runs |->
                    IF r = mine
                      THEN [Touch(run[r]) EXCEPT !.state = "accepted", !.active = FALSE]
                      ELSE IF closed(r) THEN Touch(run[r]) ELSE AfterPromotion(run[r])]
       ELSE UNCHANGED <<project, run, snapshots, promotions>>
  /\ UNCHANGED <<comparer, leases, stops>>

(* The lease goes; a pass whose lease ended does not free the next one's.   *)
ReleaseLease(p) ==
  /\ pass[p].at = "done"
  /\ leases' = leases \ {[id |-> Id(p), pass |-> p]}
  /\ Become(p, Idle)
  /\ UNCHANGED <<project, run, comparer, snapshots, promotions, stops>>

Interrupted(id) == ~Passed(id.run)

(* A prepared snapshot whose run no longer passes.                         *)
PickInterrupted(p, id) ==
  /\ pass[p].at = "idle"
  /\ id \in Copying /\ Interrupted(id)
  /\ Become(p, [Idle EXCEPT !.at = "clearing", !.id = id])
  /\ UNCHANGED <<project, run, comparer, snapshots, promotions, leases, stops>>

ReadForCancel(p) ==
  /\ pass[p].at = "cancelling"
  /\ IF snapshots[Id(p)].state = "revoked" THEN Continue(p, "done")
     ELSE ReadRevisions(p, "cancelled")
  /\ UNCHANGED <<project, run, comparer, snapshots, promotions, leases, stops>>

Cancellable(p) == ProjectGuard(p) /\ Id(p) \in Copying

CancelPrepared(p) ==
  /\ pass[p].at = "cancelled"
  /\ Continue(p, "done")
  /\ IF Cancellable(p)
       THEN /\ snapshots' = [snapshots EXCEPT ![Id(p)].state = "revoked"]
            /\ run' = [run EXCEPT ![Id(p).run] = Touch(@)]
            /\ project' = Touched
       ELSE UNCHANGED <<snapshots, run, project>>
  /\ UNCHANGED <<comparer, promotions, leases, stops>>

-----------------------------------------------------------------------------
(* The retention of snapshots.                                             *)

\* The open reviews that show a snapshot as their reference.
Shown(id) ==
  \E r \in Runs : /\ run[r].active /\ run[r].state \in Unfinished \cup {"reviewing"}
                 /\ run[r].comparison # "none" /\ run[r].reference = id

\* Mutant: the snapshot of the project can be retired.
RetirableShown(id) == id \in Eligible /\ ~Shown(id)

\* The list of retireSourceBaselines, and snapshotDetailRootsSql.
Retirable(id) == id \in Eligible /\ id # project.snapshot /\ ~Shown(id)

(* Some time after its run was closed: the snapshot can not be a reference *)
(* again, and the run is no longer accepted.  The batch tests all that was *)
(* read before it.                                                         *)
RetireSnapshot(id) ==
  /\ Retirable(id) /\ ~run[id.run].active
  /\ snapshots' = [snapshots EXCEPT ![id].eligible = FALSE]
  /\ run' = IF run[id.run].state = "accepted" /\ project.snapshot.run # id.run
              THEN [run EXCEPT ![id.run] = [Touch(@) EXCEPT !.state = "superseded"]]
              ELSE run
  /\ project' = Touched
  /\ UNCHANGED <<comparer, promotions, leases, pass, stops>>

(* A pass outlives its lease, or its Worker stops.                         *)
LeaseEnds(lease) ==
  /\ leases' = leases \ {lease}
  /\ UNCHANGED <<project, run, comparer, snapshots, promotions, pass, stops>>

PassStops(p) ==
  /\ pass[p].at # "idle"
  /\ stops < MaxStops /\ stops' = stops + 1
  /\ Become(p, Idle)
  /\ UNCHANGED <<project, run, comparer, snapshots, promotions, leases>>

Step(p) ==
  \/ ClaimLease(p) \/ ReadForPrepare(p) \/ PreparePromotion(p) \/ VerifyOriginals(p)
  \/ VerifyLater(p) \/ ReadForPromote(p) \/ Promote(p) \/ ReadForCancel(p) \/ CancelPrepared(p)
  \/ ReleaseLease(p)

Next ==
  \/ \E r \in Runs :
       \/ SelectReference(r) \/ ReserveRun(r) \/ SealRun(r) \/ FailRun(r) \/ ExpireRun(r)
       \/ BeginComparison(r) \/ AttachComparison(r) \/ StopComparison(r)
       \/ FinalizeComparison(r)
       \/ AdmitDecision(r) \/ SaveDecision(r) \/ RefuseDecision(r) \/ RetireReplaced(r)
  \/ \E p \in Passes :
       \/ \E r \in Runs : PickCandidate(p, r)
       \/ \E id \in Copying : PickInterrupted(p, id)
       \/ Step(p) \/ PassStops(p)
  \/ \E lease \in leases : LeaseEnds(lease)
  \/ \E id \in Eligible : RetireSnapshot(id)

Spec == Init /\ [][Next]_vars

(* Each pass looks at every candidate and at every prepared snapshot, a    *)
(* lease ends, the originals of a run can be read, and the queue of        *)
(* reviews is worked off.  Nobody has to submit, compare, review or fail.  *)
Fairness ==
  /\ \A p \in Passes :
       /\ WF_vars(Step(p)) /\ SF_vars(VerifyOriginals(p))
       /\ \A r \in Runs :
            SF_vars(\/ PickCandidate(p, r)
                    \/ \E id \in Copying : id.run = r /\ PickInterrupted(p, id))
  /\ WF_vars(\E lease \in leases : LeaseEnds(lease))
  /\ \A r \in Runs : WF_vars(RefuseDecision(r) \/ SaveDecision(r))

FairSpec == Spec /\ Fairness

-----------------------------------------------------------------------------
(* Every variable has the type its table or local has.                     *)
TypeOK ==
  /\ project \in [revision : Nat, baseline : Nat, snapshot : Ids \cup {None}]
  /\ run \in [Runs -> [state : States, active : BOOLEAN, sealed : BOOLEAN, revision : Nat,
                       baseline : Nat, reference : Ids \cup {None},
                       ancestry : SUBSET {r.commit : r \in Runs}, related : SUBSET Runs,
                       comparison : Comparisons, attached : BOOLEAN, approved : BOOLEAN,
                       queue : {"empty", "waiting", "refused"}]]
  /\ comparer \in [Runs -> [project : Nat, run : Nat] \cup {None}]
  /\ DOMAIN snapshots \subseteq Ids
  /\ \A id \in DOMAIN snapshots :
       snapshots[id] \in [state : {"copying", "accepted", "revoked"}, eligible : BOOLEAN,
                          verified : BOOLEAN]
  /\ promotions \in Seq([id : Ids, previous : Ids \cup {None}, baseline : Nat])
  /\ leases \subseteq [id : Ids, pass : Passes] /\ stops \in 0..MaxStops
  /\ pass \in [Passes -> [at : Places, id : Ids \cup {None}, projectRevision : Nat,
                          runRevision : Nat]]

(* The baseline never moves to an older commit, whatever order runs of     *)
(* main are admitted, reviewed and promoted in.                            *)
BaselineMovesForward ==
  \A i, j \in DOMAIN promotions :
    i < j => promotions[i].id.run.commit <= promotions[j].id.run.commit

(* Each baseline was reviewed against the one it replaced: what a reviewer *)
(* saw as the reference is what the approval changed.  The promotions are  *)
(* one line, and the project is at its end.                                *)
BaselineLine ==
  /\ project.baseline = Len(promotions)
  /\ project.snapshot = IF promotions = <<>> THEN None ELSE Last(promotions).id
  /\ \A i \in DOMAIN promotions :
       LET promotion == promotions[i]
           tested == run[promotion.id.run]
       IN /\ promotion.baseline = i /\ tested.baseline = i - 1
          /\ promotion.previous = tested.reference
          /\ promotion.previous = IF i = 1 THEN None ELSE promotions[i - 1].id
  /\ BaselineMovesForward

(* An accepted snapshot is the one of a closed, complete and approved run, *)
(* promoted once, for which no decision waits: its page is read-only.  The *)
(* run stays accepted, with a snapshot that can be a reference, until the  *)
(* retention retires a baseline that was replaced; nothing else, such as a *)
(* rerun or an invalidation by the next promotion, takes it back, and the  *)
(* current baseline is never retired: its check stays passed.              *)
AcceptedIsFinal ==
  \A id \in Accepted :
    /\ snapshots[id].verified
    /\ LET tested == run[id.run]
       IN /\ ~tested.active /\ tested.sealed /\ tested.attached
          /\ tested.comparison = "ready" /\ tested.approved /\ tested.queue # "waiting"
          /\ tested.state = IF id \in Eligible THEN "accepted" ELSE "superseded"
    /\ id = project.snapshot => id \in Eligible
    /\ Cardinality({i \in DOMAIN promotions : promotions[i].id.run = id.run}) = 1

(* An open review is one against the current baseline, or its page says    *)
(* that it needs a new comparison: nobody approves against a replaced one. *)
OpenReviewIsCurrent ==
  \A r \in Runs :
    run[r].active /\ run[r].attached /\ run[r].comparison # "invalidated" =>
      run[r].baseline = project.baseline /\ run[r].reference = project.snapshot

(* One attempt of a workflow is open, the newest one.                      *)
NewestAttemptIsOpen ==
  \A q, r \in Runs : q.workflow = r.workflow /\ run[q].active /\ run[r].state \notin Before =>
    r.attempt <= q.attempt

(* An open run is the newest attempt of its workflow, and its review is    *)
(* against the current baseline, or marked for a new comparison.  (With    *)
(* the types of the rows.)                                                 *)
OpenRunIsCurrent == TypeOK /\ OpenReviewIsCurrent /\ NewestAttemptIsOpen

(* The approvals that stand on the review pages, with the runs that they   *)
(* were compared with.                                                     *)
Against(id) == IF id = None THEN None ELSE id.run
ApprovedRuns ==
  {r \in Runs : run[r].active /\ run[r].attached /\ run[r].comparison = "ready"
                /\ run[r].approved}
Approvals == {[run |-> r, against |-> Against(run[r].reference)] : r \in ApprovedRuns}
Line == [i \in DOMAIN promotions |-> promotions[i].id.run]

History == INSTANCE BaselineHistory WITH line <- Line, approvals <- Approvals

(* Whatever order runs of main are admitted, compared, reviewed and        *)
(* promoted in, by whichever passes: who looks at the baselines and the    *)
(* review pages sees the one line that BaselineHistory promises.           *)
ImplementsHistory == History!Spec

\* A run whose review passed is promoted, unless the review changes.
PassedIsPromoted ==
  \A r \in Runs : Passed(r) ~> ~Passed(r)

(* A prepared snapshot pins the originals of its run: it is accepted, or   *)
(* revoked and its pins freed, and no pass leaves it behind.               *)
PreparedIsSettled ==
  \A r \in Runs :
    (\E id \in Copying : id.run = r) ~> ~(\E id \in Copying : id.run = r)

(* Neither a passed review nor a prepared snapshot is left behind by the   *)
(* passes, whichever of them stops or outlives its lease.                  *)
PromotionSettles == PassedIsPromoted /\ PreparedIsSettled
=============================================================================
