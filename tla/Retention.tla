----------------------------- MODULE Retention -----------------------------
(***************************************************************************)
(* Which images are kept, and when they go.  The images of a run belong to *)
(* that run, and later runs and baselines name them instead of copying     *)
(* them, so each of them pins the runs whose images it names: a staged run *)
(* for its reference, an admitted run for its review and for its capture   *)
(* list, a comparison, a prepared promotion and an accepted baseline.      *)
(* Passes take the pins of closed work away and delete the images of a run *)
(* that no pin holds, page by page, under a lease.                         *)
(*                                                                         *)
(* A snapshot is named by its run.  All snapshots are of the storage mode  *)
(* 'source', the one that preparePromotion writes.  The calls of           *)
(* packages/service read the project and assert its revision in their      *)
(* batch, so that such a call is one step.                                 *)
(***************************************************************************)
EXTENDS Integers, FiniteSets

CONSTANTS
  Runs,       \* the runs of the project
  Mains,      \* those of the main branch
  First,      \* the run of the baseline that the project starts with, or None
  Workers,    \* the passes that delete images
  Pages,      \* the pages of images that a run stores
  MaxFaults,  \* stopped passes and leases that end too early
  None

ASSUME ConstantsAssumption ==
  /\ Mains \subseteq Runs
  /\ None \notin Runs \cup Workers
  /\ First \in Mains \cup {None}
  /\ Pages \in Nat \ {0}
  /\ MaxFaults \in Nat

VARIABLES
  current,     \* the run of the current baseline
  stage,       \* the staged row of a run
  chosen,      \* the reference of a run
  seen,        \* the baseline that the selection of a reference read
  run,         \* the row of a run
  uses,        \* the runs whose images its capture list names
  comparison,  \* its comparison
  snapshot,    \* its baseline snapshot
  eligible,    \* the snapshot can be a reference
  pins,        \* the rows of work_retention_pins
  old,         \* 30 days have passed since the run closed
  summary,     \* its closed summary is ready
  released,    \* references_released_at
  retained,    \* its row of work_retained_runs
  objects,     \* the pages of its images in the store
  worker,      \* what a deleting pass does
  faults

housekeeping == <<old, summary, released>>
deletion == <<retained, objects, worker, faults>>
vars == <<current, stage, chosen, seen, run, uses, comparison, snapshot, eligible, pins,
          housekeeping, deletion>>

Kinds == {"review", "submit", "inherited", "comparison", "promotion", "baseline"}

Live(r) == retained[r].state = "live"

Pins(owned, kind, owner) == {[run |-> r, kind |-> kind, of |-> owner] : r \in owned}

PinsOf(kind, owner) == {pin \in pins : pin.kind = kind /\ pin.of = owner}

PinnedBy(r, kinds) == \E pin \in pins : pin.run = r /\ pin.kind \in kinds

\* The images that a reference needs: those that its capture list names.
Named(reference) == IF reference = None THEN {} ELSE uses[reference]

Idle == [at |-> "idle", run |-> None]

\* Some attempts may have ended already without a submission, and some of the
\* faults may be spent.
Init ==
  /\ current = First
  /\ stage \in [Runs -> {"none", "ended"}]
  /\ First # None => stage[First] = "ended"
  /\ chosen = [r \in Runs |-> None]
  /\ seen = [r \in Runs |-> None]
  /\ run = [r \in Runs |-> IF r = First THEN "closed" ELSE "none"]
  /\ uses = [r \in Runs |-> IF r = First THEN {r} ELSE {}]
  /\ comparison = [r \in Runs |-> IF r = First THEN "attached" ELSE "none"]
  /\ snapshot = [r \in Runs |-> IF r = First THEN "accepted" ELSE "none"]
  /\ eligible = [r \in Runs |-> r = First]
  /\ pins = IF First = None THEN {} ELSE Pins({First}, "baseline", First)
  /\ old = [r \in Runs |-> FALSE]
  /\ summary = [r \in Runs |-> FALSE]
  /\ released = [r \in Runs |-> FALSE]
  /\ retained = [r \in Runs |-> [state |-> IF r = First THEN "live" ELSE "none",
                                 token |-> None, leased |-> FALSE]]
  /\ objects = [r \in Runs |-> IF r = First THEN Pages ELSE 0]
  /\ worker = [w \in Workers |-> Idle]
  /\ faults \in 0..MaxFaults

(***************************************************************************)
(* The life of a run.                                                      *)
(***************************************************************************)
\* The first request of an attempt stores its row, and its selection of a
\* reference reads the candidates: the baseline for a main run, and for another
\* run also an older snapshot, when the baseline is not its ancestor.
Candidates(r) ==
  IF current = None THEN {None}
  ELSE {c \in Runs : eligible[c] /\ (r \in Mains => c = current)}

ReadCandidates(r) ==
  /\ stage[r] \in {"none", "reading"}
  /\ \E candidate \in Candidates(r) : chosen' = [chosen EXCEPT ![r] = candidate]
  /\ seen' = [seen EXCEPT ![r] = current]
  /\ stage' = [stage EXCEPT ![r] = "reading"]
  /\ UNCHANGED <<current, run, uses, comparison, snapshot, eligible, pins, housekeeping, deletion>>

\* The batch of the selection: the baseline is the one that it read, the images
\* that the reference names are live, and the run pins them.
SelectReference(r) ==
  /\ stage[r] = "reading"
  /\ current = seen[r]
  /\ \A named \in Named(chosen[r]) : Live(named)
  /\ pins' = pins \cup Pins(Named(chosen[r]), "submit", r)
  /\ stage' = [stage EXCEPT ![r] = "live"]
  /\ seen' = [seen EXCEPT ![r] = None]
  /\ UNCHANGED <<current, chosen, run, uses, comparison, snapshot, eligible, housekeeping, deletion>>

\* The submission is admitted: the run owns its images and is open for review.
Reserve(r) ==
  /\ stage[r] = "live" /\ run[r] = "none"
  /\ run' = [run EXCEPT ![r] = "open"]
  /\ retained' = [retained EXCEPT ![r].state = "live"]
  /\ objects' = [objects EXCEPT ![r] = Pages]
  /\ pins' = pins \cup Pins({r}, "review", r)
  /\ UNCHANGED <<current, stage, chosen, seen, uses, comparison, snapshot, eligible, housekeeping,
                 worker, faults>>

\* The run is sealed with its capture list: captures that did not change name
\* the image of the reference, the others an image of the run.
Commit(r) ==
  /\ stage[r] = "live" /\ run[r] = "open" /\ uses[r] = {}
  /\ \E named \in SUBSET (Named(chosen[r]) \cup {r}) \ {{}} :
       /\ \A owner \in named : Live(owner)
       /\ uses' = [uses EXCEPT ![r] = named]
       /\ pins' = pins \cup Pins(named \ {r}, "inherited", r)
  /\ UNCHANGED <<current, stage, chosen, seen, run, comparison, snapshot, eligible, housekeeping, deletion>>

\* The guards that the batches of a comparison share.
Comparable(r) ==
  /\ run[r] = "open" /\ uses[r] # {}
  /\ chosen[r] = None => r \notin Mains \/ current = None
  /\ chosen[r] # None => eligible[chosen[r]] /\ (r \in Mains => current = chosen[r])

\* The first batch of a comparison pins its reference.  Its rows follow, and
\* the last batch attaches it to the run.
CompareOwners(r) == IF chosen[r] = None THEN {} ELSE {chosen[r]} \cup uses[chosen[r]]

BeginComparison(r) ==
  /\ Comparable(r) /\ comparison[r] = "none"
  /\ \A owner \in CompareOwners(r) : Live(owner)
  /\ comparison' = [comparison EXCEPT ![r] = "comparing"]
  /\ pins' = pins \cup Pins(CompareOwners(r), "comparison", r)
  /\ UNCHANGED <<current, stage, chosen, seen, run, uses, snapshot, eligible, housekeeping, deletion>>

AttachComparison(r) ==
  /\ Comparable(r) /\ comparison[r] = "comparing"
  /\ comparison' = [comparison EXCEPT ![r] = "attached"]
  /\ UNCHANGED <<current, stage, chosen, seen, run, uses, snapshot, eligible, pins, housekeeping, deletion>>

\* A main run that was compared with the baseline can become the next one.
Promotable(r) ==
  /\ r \in Mains /\ run[r] = "open" /\ comparison[r] = "attached"
  /\ chosen[r] = current

\* Mutant: a preparation that pins its own run alone.
PreparePromotionOwn(r) ==
  /\ Promotable(r) /\ snapshot[r] \in {"none", "revoked"}
  /\ snapshot' = [snapshot EXCEPT ![r] = "copying"]
  /\ pins' = pins \cup Pins({r}, "promotion", r)
  /\ UNCHANGED <<current, stage, chosen, seen, run, uses, comparison, eligible, housekeeping, deletion>>

PreparePromotion(r) ==
  /\ Promotable(r) /\ snapshot[r] \in {"none", "revoked"}
  /\ \A owner \in uses[r] \cup {r} : Live(owner)
  /\ snapshot' = [snapshot EXCEPT ![r] = "copying"]
  /\ pins' = pins \cup Pins(uses[r] \cup {r}, "promotion", r)
  /\ UNCHANGED <<current, stage, chosen, seen, run, uses, comparison, eligible, housekeeping, deletion>>

CancelPreparedPromotion(r) ==
  /\ snapshot[r] = "copying"
  /\ snapshot' = [snapshot EXCEPT ![r] = "revoked"]
  /\ pins' = pins \ PinsOf("promotion", r)
  /\ UNCHANGED <<current, stage, chosen, seen, run, uses, comparison, eligible, housekeeping, deletion>>

\* The promotion turns the pins of the preparation into pins of the baseline,
\* closes the run, and ends the review of the run that it replaces.
Promote(r) ==
  /\ Promotable(r) /\ snapshot[r] = "copying"
  /\ current # None => eligible[current]
  /\ \A pin \in PinsOf("promotion", r) : Live(pin.run)
  /\ current' = r
  /\ run' = [run EXCEPT ![r] = "closed"]
  /\ snapshot' = [snapshot EXCEPT ![r] = "accepted"]
  /\ eligible' = [eligible EXCEPT ![r] = TRUE]
  /\ pins' = (pins \ (PinsOf("promotion", r) \cup PinsOf("review", r) \cup PinsOf("review", current)))
               \cup {[pin EXCEPT !.kind = "baseline"] : pin \in PinsOf("promotion", r)}
  /\ UNCHANGED <<stage, chosen, seen, uses, comparison, housekeeping, deletion>>

\* A run is replaced, its pull request closes, or its incomplete submission
\* expires.
Retire(r) ==
  /\ run[r] = "open" /\ r # current
  /\ run' = [run EXCEPT ![r] = "closed"]
  /\ pins' = pins \ PinsOf("review", r)
  /\ UNCHANGED <<current, stage, chosen, seen, uses, comparison, snapshot, eligible, housekeeping, deletion>>

\* Staged retention ends the row of an attempt and takes its pins: the run was
\* never admitted, is closed, or has its comparison.
\* Mutant: a sealed run ends its staged row before its comparison.
StageDoneSealed(r) == run[r] # "open" \/ uses[r] # {}

StageDone(r) == run[r] # "open" \/ (uses[r] # {} /\ comparison[r] = "attached")

EndStage(r) ==
  /\ stage[r] \in {"reading", "live"} /\ StageDone(r)
  /\ stage' = [stage EXCEPT ![r] = "ended"]
  /\ pins' = pins \ PinsOf("submit", r)
  /\ seen' = [seen EXCEPT ![r] = None]
  /\ chosen' = [chosen EXCEPT ![r] = IF stage[r] = "live" THEN @ ELSE None]
  /\ UNCHANGED <<current, run, uses, comparison, snapshot, eligible, housekeeping, deletion>>

(***************************************************************************)
(* The passes over closed runs.                                            *)
(***************************************************************************)
GetOld(r) ==
  /\ run[r] = "closed" /\ ~old[r]
  /\ old' = [old EXCEPT ![r] = TRUE]
  /\ UNCHANGED <<current, stage, chosen, seen, run, uses, comparison, snapshot, eligible, pins,
                 summary, released, deletion>>

SummarizeClosedRun(r) ==
  /\ old[r] /\ ~summary[r] /\ retained[r].state # "deleting"
  /\ summary' = [summary EXCEPT ![r] = TRUE]
  /\ UNCHANGED <<current, stage, chosen, seen, run, uses, comparison, snapshot, eligible, pins,
                 old, released, deletion>>

\* The references that an old run names are not kept for it any longer.
\* Mutant: the pins of the comparison stay.
ReferencePinsInherited(r) == PinsOf("inherited", r)

ReferencePins(r) == PinsOf("inherited", r) \cup PinsOf("comparison", r)

ReleaseReferences(r) ==
  /\ old[r] /\ summary[r] /\ ~released[r]
  /\ ~PinnedBy(r, {"review", "promotion"})
  /\ pins' = pins \ ReferencePins(r)
  /\ released' = [released EXCEPT ![r] = TRUE]
  /\ UNCHANGED <<current, stage, chosen, seen, run, uses, comparison, snapshot, eligible,
                 old, summary, deletion>>

\* What still reads a snapshot: the project, an open run that was compared with
\* it, a promotion of its images, or a staged run that selected it.
Root(r) ==
  \/ current = r
  \/ run[r] = "open"
  \/ \E other \in Runs : run[other] = "open" /\ comparison[other] # "none" /\ chosen[other] = r
  \/ PinnedBy(r, {"promotion"})
  \/ \E other \in Runs : stage[other] = "live" /\ chosen[other] = r

RetireSourceBaseline(r) ==
  /\ snapshot[r] # "copying" /\ eligible[r] /\ old[r]
  /\ ~Root(r)
  /\ eligible' = [eligible EXCEPT ![r] = FALSE]
  /\ pins' = pins \ (PinsOf("baseline", r) \cup PinsOf("review", r))
  /\ UNCHANGED <<current, stage, chosen, seen, run, uses, comparison, snapshot, housekeeping, deletion>>

(***************************************************************************)
(* The deletion of the images of a run.                                    *)
(***************************************************************************)
\* Mutant: a claim that asks for the current baseline, not for older ones.
DeletableReplaced(r) ==
  /\ summary[r]
  /\ ~PinnedBy(r, Kinds \ {"baseline"}) /\ r \notin Named(current) \cup {current}
  /\ Live(r) => run[r] = "closed" /\ old[r]
  /\ ~Live(r) => retained[r].state = "deleting" /\ ~retained[r].leased

Deletable(r) ==
  /\ summary[r]
  /\ ~PinnedBy(r, Kinds)
  /\ Live(r) => run[r] = "closed" /\ old[r]
  /\ ~Live(r) => retained[r].state = "deleting" /\ ~retained[r].leased

ClaimExpiredRun(w, r) ==
  /\ worker[w] = Idle /\ Deletable(r)
  /\ retained' = [retained EXCEPT ![r] = [state |-> "deleting", token |-> w, leased |-> TRUE]]
  /\ worker' = [worker EXCEPT ![w] = [at |-> "claimed", run |-> r]]
  /\ UNCHANGED <<current, stage, chosen, seen, run, uses, comparison, snapshot, eligible, pins,
                 housekeeping, objects, faults>>

DeletePage(w) ==
  LET r == worker[w].run IN
  /\ worker[w].at = "claimed"
  /\ objects' = [objects EXCEPT ![r] = IF @ > 0 THEN @ - 1 ELSE 0]
  /\ worker' = [worker EXCEPT ![w].at = "deleted"]
  /\ UNCHANGED <<current, stage, chosen, seen, run, uses, comparison, snapshot, eligible, pins,
                 housekeeping, retained, faults>>

Holds(w, r) == retained[r].state = "deleting" /\ retained[r].token = w

\* More images are left than one pass may delete: the lease ends at once.
Requeue(w) ==
  LET r == worker[w].run IN
  /\ worker[w].at = "deleted" /\ objects[r] > 0
  /\ retained' = [retained EXCEPT ![r].leased = @ /\ ~Holds(w, r)]
  /\ worker' = [worker EXCEPT ![w] = Idle]
  /\ UNCHANGED <<current, stage, chosen, seen, run, uses, comparison, snapshot, eligible, pins,
                 housekeeping, objects, faults>>

\* The images are gone.  The batch passes only under the lease of the claim.
CompleteRunDeletion(w) ==
  LET r == worker[w].run IN
  /\ worker[w].at = "deleted" /\ objects[r] = 0
  /\ worker' = [worker EXCEPT ![w] = Idle]
  /\ IF Holds(w, r) /\ retained[r].leased
     THEN /\ retained' = [retained EXCEPT ![r].state = "deleted", ![r].leased = FALSE]
          /\ released' = [released EXCEPT ![r] = TRUE]
          /\ pins' = pins \ ReferencePins(r)
     ELSE UNCHANGED <<retained, released, pins>>
  /\ UNCHANGED <<current, stage, chosen, seen, run, uses, comparison, snapshot, eligible, old, summary,
                 objects, faults>>

\* A pass stops, or a request to the store fails; the lease stays until its end.
StopPass(w) ==
  /\ worker[w] # Idle /\ faults < MaxFaults
  /\ worker' = [worker EXCEPT ![w] = Idle]
  /\ faults' = faults + 1
  /\ UNCHANGED <<current, stage, chosen, seen, run, uses, comparison, snapshot, eligible, pins,
                 housekeeping, retained, objects>>

\* A lease ends.  That it ends under a pass that still works costs a fault.
LeaseEnds(r) ==
  LET held == \E w \in Workers : Holds(w, r) /\ worker[w].run = r IN
  /\ retained[r].leased
  /\ held => faults < MaxFaults
  /\ retained' = [retained EXCEPT ![r].leased = FALSE]
  /\ faults' = IF held THEN faults + 1 ELSE faults
  /\ UNCHANGED <<current, stage, chosen, seen, run, uses, comparison, snapshot, eligible, pins,
                 housekeeping, objects, worker>>

LifeStep(r) ==
  \/ ReadCandidates(r) \/ SelectReference(r) \/ Reserve(r) \/ Commit(r)
  \/ BeginComparison(r) \/ AttachComparison(r)
  \/ PreparePromotion(r) \/ CancelPreparedPromotion(r) \/ Promote(r)
  \/ Retire(r) \/ EndStage(r)

PassStep(r) ==
  GetOld(r) \/ SummarizeClosedRun(r) \/ ReleaseReferences(r) \/ RetireSourceBaseline(r) \/ LeaseEnds(r)

WorkerStep(w) ==
  \/ \E r \in Runs : ClaimExpiredRun(w, r)
  \/ DeletePage(w) \/ Requeue(w) \/ CompleteRunDeletion(w)

Next ==
  \/ \E r \in Runs : LifeStep(r) \/ PassStep(r)
  \/ \E w \in Workers : WorkerStep(w) \/ StopPass(w)

Spec == Init /\ [][Next]_vars

(***************************************************************************)
(* The passes run on a schedule, and time passes.  Each of their steps     *)
(* happens a bounded number of times for a run.  A staged row is retired,  *)
(* and the prepared promotion of a closed run is cancelled, by passes too. *)
(* The pass over old baselines gets strong fairness: a promotion that is   *)
(* prepared and cancelled again and again closes and opens its guard.      *)
(***************************************************************************)
Housekeeping ==
  \/ \E r \in Runs : PassStep(r) \/ EndStage(r) \/ (run[r] = "closed" /\ CancelPreparedPromotion(r))
  \/ \E w \in Workers : WorkerStep(w)

Fairness == WF_vars(Housekeeping) /\ SF_vars(\E r \in Runs : RetireSourceBaseline(r))

FairSpec == Spec /\ Fairness

(***************************************************************************)
(* Properties.                                                             *)
(***************************************************************************)
TypeOK ==
  /\ current \in Mains \cup {None}
  /\ stage \in [Runs -> {"none", "reading", "live", "ended"}]
  /\ chosen \in [Runs -> Runs \cup {None}]
  /\ seen \in [Runs -> Mains \cup {None}]
  /\ run \in [Runs -> {"none", "open", "closed"}]
  /\ uses \in [Runs -> SUBSET Runs]
  /\ comparison \in [Runs -> {"none", "comparing", "attached"}]
  /\ snapshot \in [Runs -> {"none", "copying", "accepted", "revoked"}]
  /\ eligible \in [Runs -> BOOLEAN]
  /\ pins \subseteq [run : Runs, kind : Kinds, of : Runs]
  /\ old \in [Runs -> BOOLEAN]
  /\ summary \in [Runs -> BOOLEAN]
  /\ released \in [Runs -> BOOLEAN]
  /\ retained \in [Runs -> [state : {"none", "live", "deleting", "deleted"},
                            token : Workers \cup {None}, leased : BOOLEAN]]
  /\ objects \in [Runs -> 0..Pages]
  /\ worker \in [Workers -> [at : {"idle", "claimed", "deleted"}, run : Runs \cup {None}]]
  /\ faults \in 0..MaxFaults

\* The runs whose images somebody still needs: the baseline, an open run, its
\* reference from the selection on, and a prepared promotion.
NeededBy(r) ==
  (IF current = r \/ snapshot[r] = "copying" THEN uses[r] \cup {r} ELSE {})
  \cup (IF run[r] = "open" THEN uses[r] \cup {r} ELSE {})
  \cup (IF stage[r] = "live" \/ (run[r] = "open" /\ comparison[r] # "none") THEN Named(chosen[r]) ELSE {})
  \cup (IF run[r] = "open" /\ comparison[r] # "none" THEN CompareOwners(r) ELSE {})

Needed == UNION {NeededBy(r) : r \in Runs}

\* No image that the baseline, an open run, its reference or a prepared
\* promotion names is deleted: each change of who needs it moves the pins in
\* the same batch, and a deletion that has begun can not be pinned.  (With the
\* types of the rows.)
NeededIsKept == TypeOK /\ \A r \in Needed : Live(r) /\ objects[r] = Pages

\* The images that an eligible snapshot holds for the runs that may select it.
Offered(r) == IF eligible[r] THEN uses[r] \cup {r} ELSE {}

Fates == [r \in Runs |-> retained[r].state]
Needs == [r \in Runs |-> NeededBy(r)]
Offers == [r \in Runs |-> Offered(r)]

Promise == INSTANCE ImageStore WITH
  fate <- Fates, pages <- objects, needs <- Needs, offers <- Offers

\* Whatever admissions, promotions and passes overlap, and wherever one stops:
\* images are taken, offered, marked and erased as ImageStore promises. What
\* somebody needs is not marked, and what is marked is not taken again.
ImplementsStore == Promise!Spec

StillCompares(r) ==
  /\ chosen[r] # None
  /\ run[r] = "open" \/ (run[r] = "none" /\ stage[r] = "live")

\* A run that selected a reference can be compared with it as long as the run
\* can be compared at all: no pass retires the reference between the
\* selection, the end of the staged row, and the end of the review.
ReferenceStaysEligible ==
  [][\A r \in Runs : StillCompares(r) /\ StillCompares(r)' /\ eligible[chosen[r]]
       => eligible'[chosen[r]]]_vars

\* The images of a closed run that nobody needs are deleted, through stopped
\* passes and lost leases, although closed runs and old baselines pin each
\* other's images.
GarbageGoes ==
  \A r \in Runs : (run[r] = "closed" /\ r \notin Needed) ~> (retained[r].state = "deleted" \/ r \in Needed)
=============================================================================
