-------------------------- MODULE RetentionProofs --------------------------
(***************************************************************************)
(* NeededIsKept for every set of runs, passes and pages.  The invariant    *)
(* says that whoever needs images pins them, that only live images are     *)
(* pinned, and that a pass deletes only images that are not live.  It is   *)
(* inductive because every batch that makes somebody need an image adds    *)
(* the pin, because a pin is taken only from one who needs nothing by it   *)
(* any longer, and because a claim asks for no pin at all.  The end of the *)
(* module shows that each batch is a step of the promise of ImageStore.    *)
(***************************************************************************)
EXTENDS Retention, TLAPS

Pin(r, kind, owner) == [run |-> r, kind |-> kind, of |-> owner]

Pinned(owned, kind, owner) == \A r \in owned : Pin(r, kind, owner) \in pins

PinsAreLive == \A pin \in pins : Live(pin.run)

LiveIsWhole == \A r \in Runs : Live(r) => objects[r] = Pages

\* A pass works on images that are not live, and those are of a closed run.
DeletedIsClosed == \A r \in Runs : retained[r].state \in {"deleting", "deleted"} => run[r] = "closed"

PassDeletes ==
  \A w \in Workers : worker[w].at # "idle" =>
    /\ worker[w].run \in Runs
    /\ retained[worker[w].run].state \in {"deleting", "deleted"}

\* An admitted attempt keeps its staged row until it has a comparison, and
\* before its admission it has nothing.
OpenIsStaged ==
  \A r \in Runs :
    /\ run[r] = "open" => stage[r] = "live" \/ (stage[r] = "ended" /\ comparison[r] # "none")
    /\ run[r] = "none" => uses[r] = {} /\ comparison[r] = "none"

OldIsClosed == \A r \in Runs : old[r] => run[r] = "closed"

\* What a run names does not change once somebody can refer to it.
Committed ==
  \A r \in Runs :
    /\ chosen[r] # None => uses[chosen[r]] # {}
    /\ comparison[r] # "none" \/ eligible[r] \/ snapshot[r] = "copying" => uses[r] # {}

CurrentIsEligible == current # None => eligible[current] /\ run[current] = "closed"

BaselinePinned == \A r \in Runs : eligible[r] => Pinned(uses[r] \cup {r}, "baseline", r)

CopyPinned == \A r \in Runs : snapshot[r] = "copying" => Pinned(uses[r] \cup {r}, "promotion", r)

StagePinned == \A r \in Runs : stage[r] = "live" => Pinned(Named(chosen[r]), "submit", r)

OpenPinned ==
  \A r \in Runs : run[r] = "open" =>
    /\ Pinned({r}, "review", r)
    /\ Pinned(uses[r] \ {r}, "inherited", r)
    /\ comparison[r] # "none" => Pinned(CompareOwners(r), "comparison", r)

Shape == DeletedIsClosed /\ PassDeletes /\ OpenIsStaged /\ OldIsClosed /\ Committed /\ CurrentIsEligible

IInv ==
  /\ TypeOK /\ Shape
  /\ PinsAreLive /\ LiveIsWhole
  /\ BaselinePinned /\ CopyPinned /\ StagePinned /\ OpenPinned

-----------------------------------------------------------------------------
\* A pin that a batch adds is there, and only those it adds are new.
LEMMA PinsAdded ==
  ASSUME NEW owned, NEW kind, NEW owner
  PROVE  \A r, k, o : Pin(r, k, o) \in Pins(owned, kind, owner)
           <=> (r \in owned /\ k = kind /\ o = owner)
  BY DEF Pin, Pins

\* The rows that a batch deletes are those of one kind and one owner.
LEMMA PinsTaken ==
  ASSUME NEW kind, NEW owner
  PROVE  \A r, k, o : Pin(r, k, o) \in PinsOf(kind, owner)
           <=> (Pin(r, k, o) \in pins /\ k = kind /\ o = owner)
  BY DEF Pin, PinsOf

\* The images that somebody needs are pinned, hence live, hence whole.
LEMMA InvariantSuffices == IInv => NeededIsKept
<1> SUFFICES ASSUME IInv, NEW x \in Needed PROVE Live(x) /\ objects[x] = Pages
  BY DEF NeededIsKept, IInv
<1>1. PICK r \in Runs : x \in NeededBy(r)
  BY DEF Needed
<1>2. \E kind, owner : Pin(x, kind, owner) \in pins
  <2>1. CASE (current = r \/ snapshot[r] = "copying") /\ x \in uses[r] \cup {r}
    BY <2>1, ConstantsAssumption DEF IInv, Shape, CurrentIsEligible, BaselinePinned, CopyPinned, Pinned
  <2>2. CASE run[r] = "open" /\ x \in uses[r] \cup {r}
    BY <2>2 DEF IInv, OpenPinned, Pinned
  <2>3. CASE stage[r] = "live" /\ x \in Named(chosen[r])
    BY <2>3 DEF IInv, StagePinned, Pinned
  <2>4. CASE run[r] = "open" /\ comparison[r] # "none" /\ x \in Named(chosen[r]) \cup CompareOwners(r)
    BY <2>4 DEF IInv, OpenPinned, Pinned, Named, CompareOwners
  <2> QED BY <1>1, <2>1, <2>2, <2>3, <2>4 DEF NeededBy
<1>3. Live(x)
  BY <1>2 DEF IInv, PinsAreLive, Pin
<1>4. x \in Runs
  BY <1>2 DEF IInv, TypeOK, Pin
<1> QED BY <1>3, <1>4 DEF IInv, LiveIsWhole

RetainedRows ==
  [state : {"none", "live", "deleting", "deleted"}, token : Workers \cup {None}, leased : BOOLEAN]

\* A field of one row changes.
LEMMA RowChanges ==
  ASSUME NEW rows \in [Runs -> RetainedRows], NEW r \in Runs,
         NEW state \in {"none", "live", "deleting", "deleted"}, NEW leased \in BOOLEAN
  PROVE  /\ [rows EXCEPT ![r].state = state] \in [Runs -> RetainedRows]
         /\ [rows EXCEPT ![r].leased = leased] \in [Runs -> RetainedRows]
<1>1. rows[r] \in RetainedRows
  OBVIOUS
<1>2. [rows[r] EXCEPT !.state = state] \in RetainedRows
  BY <1>1 DEF RetainedRows
<1>3. [rows[r] EXCEPT !.leased = leased] \in RetainedRows
  BY <1>1 DEF RetainedRows
<1> QED BY <1>2, <1>3

LEMMA TypeStep == TypeOK /\ [Next]_vars => TypeOK'
<1> SUFFICES ASSUME TypeOK, [Next]_vars PROVE TypeOK'
  OBVIOUS
<1> DEFINE WorkerType == [at : {"idle", "claimed", "deleted"}, run : Runs \cup {None}]
<1>a. retained \in [Runs -> RetainedRows] /\ worker \in [Workers -> WorkerType]
      /\ objects \in [Runs -> 0..Pages]
  BY DEF TypeOK, RetainedRows
<1> USE ConstantsAssumption DEF TypeOK
<1>1. ASSUME NEW r \in Runs, LifeStep(r) PROVE TypeOK'
  <2>1. CASE ReadCandidates(r) BY <2>1 DEF ReadCandidates, Candidates, housekeeping, deletion
  <2>2. CASE SelectReference(r) BY <2>2 DEF SelectReference, housekeeping, deletion, Pins, Named, Kinds
  <2>3. CASE Reserve(r) 
    <3>1. retained' \in [Runs -> RetainedRows]
      BY <1>a, <2>3, RowChanges DEF Reserve
    <3>2. objects' \in [Runs -> 0..Pages]
      BY <1>a, <2>3 DEF Reserve
    <3>3. pins' \subseteq [run : Runs, kind : Kinds, of : Runs]
      BY <2>3 DEF Reserve, Pins, Kinds
    <3> QED BY <2>3, <3>1, <3>2, <3>3 DEF Reserve, housekeeping, RetainedRows
  <2>4. CASE Commit(r) BY <2>4 DEF Commit, housekeeping, deletion, Pins, Named, Kinds
  <2>5. CASE BeginComparison(r)
    BY <2>5 DEF BeginComparison, CompareOwners, housekeeping, deletion, Pins, Kinds
  <2>6. CASE AttachComparison(r) BY <2>6 DEF AttachComparison, housekeeping, deletion
  <2>7. CASE PreparePromotion(r) BY <2>7 DEF PreparePromotion, housekeeping, deletion, Pins, Kinds
  <2>8. CASE CancelPreparedPromotion(r) BY <2>8 DEF CancelPreparedPromotion, housekeeping, deletion
  <2>9. CASE Promote(r) 
    <3>1. ASSUME NEW pin \in PinsOf("promotion", r)
          PROVE  [pin EXCEPT !.kind = "baseline"] \in [run : Runs, kind : Kinds, of : Runs]
      <4>1. pin \in [run : Runs, kind : Kinds, of : Runs] /\ "baseline" \in Kinds
        BY DEF PinsOf, Kinds
      <4> QED BY <4>1
    <3>2. pins' \subseteq [run : Runs, kind : Kinds, of : Runs]
      BY <2>9, <3>1 DEF Promote
    <3> QED BY <2>9, <3>2 DEF Promote, Promotable, housekeeping, deletion
  <2>10. CASE Retire(r) BY <2>10 DEF Retire, housekeeping, deletion
  <2>11. CASE EndStage(r) BY <2>11 DEF EndStage, housekeeping, deletion
  <2> QED BY <1>1, <2>1, <2>2, <2>3, <2>4, <2>5, <2>6, <2>7, <2>8, <2>9, <2>10, <2>11 DEF LifeStep
<1>2. ASSUME NEW r \in Runs, PassStep(r) PROVE TypeOK'
  <2>1. CASE GetOld(r) BY <2>1 DEF GetOld, deletion
  <2>2. CASE SummarizeClosedRun(r) BY <2>2 DEF SummarizeClosedRun, deletion
  <2>3. CASE ReleaseReferences(r) BY <2>3 DEF ReleaseReferences, deletion
  <2>4. CASE RetireSourceBaseline(r) BY <2>4 DEF RetireSourceBaseline, housekeeping, deletion
  <2>5. CASE LeaseEnds(r) 
    <3>1. retained' \in [Runs -> RetainedRows]
      BY <1>a, <2>5, RowChanges DEF LeaseEnds
    <3>2. faults' \in 0..MaxFaults
      BY <2>5 DEF LeaseEnds
    <3> QED BY <2>5, <3>1, <3>2 DEF LeaseEnds, housekeeping, RetainedRows
  <2> QED BY <1>2, <2>1, <2>2, <2>3, <2>4, <2>5 DEF PassStep
<1>3. ASSUME NEW w \in Workers, WorkerStep(w) \/ StopPass(w) PROVE TypeOK'
  <2>1. ASSUME NEW r \in Runs, ClaimExpiredRun(w, r) PROVE TypeOK'
    BY <2>1 DEF ClaimExpiredRun, housekeeping
  <2>2. CASE DeletePage(w) 
    <3>1. objects' \in [Runs -> 0..Pages]
      <4> DEFINE left == IF objects[worker[w].run] > 0 THEN objects[worker[w].run] - 1 ELSE 0
      <4>1. objects' = [objects EXCEPT ![worker[w].run] = left]
        BY <2>2 DEF DeletePage
      <4>2. worker[w].run \in Runs => left \in 0..Pages
        BY <1>a
      <4> HIDE DEF left
      <4> QED BY <1>a, <4>1, <4>2
    <3>2. worker' \in [Workers -> WorkerType]
      BY <1>a, <2>2 DEF DeletePage
    <3> HIDE DEF WorkerType
    <3> QED BY <2>2, <3>1, <3>2 DEF DeletePage, housekeeping, WorkerType
  <2>3. CASE Requeue(w) 
    <3>1. worker[w].run \in Runs => retained' \in [Runs -> RetainedRows]
      <4> DEFINE leased == retained[worker[w].run].leased /\ ~Holds(w, worker[w].run)
      <4>1. worker[w].run \in Runs => leased \in BOOLEAN
        BY <1>a DEF RetainedRows, Holds
      <4>2. retained' = [retained EXCEPT ![worker[w].run].leased = leased]
        BY <2>3 DEF Requeue
      <4> HIDE DEF leased
      <4> QED BY <1>a, <4>1, <4>2, RowChanges
    <3>3. worker[w].run \notin Runs => retained' = retained
      BY <1>a, <2>3 DEF Requeue
    <3>2. worker' \in [Workers -> WorkerType]
      BY <1>a, <2>3 DEF Requeue, Idle
    <3> HIDE DEF WorkerType
    <3> QED BY <2>3, <3>1, <3>2, <3>3 DEF Requeue, housekeeping, WorkerType, RetainedRows
  <2>4. CASE CompleteRunDeletion(w) BY <2>4 DEF CompleteRunDeletion, Idle, housekeeping
  <2>5. CASE StopPass(w) BY <2>5 DEF StopPass, Idle, housekeeping
  <2> QED BY <1>3, <2>1, <2>2, <2>3, <2>4, <2>5 DEF WorkerStep
<1>4. CASE UNCHANGED vars
  BY <1>4 DEF vars, housekeeping, deletion
<1> QED BY <1>1, <1>2, <1>3, <1>4 DEF Next

\* Every step keeps the order in which a run is opened, closed and deleted.
LEMMA ShapeStep == IInv /\ TypeOK' /\ [Next]_vars => Shape'
<1> SUFFICES ASSUME IInv, TypeOK', [Next]_vars PROVE Shape'
  OBVIOUS
<1> USE ConstantsAssumption
<1>1. ASSUME NEW r \in Runs, LifeStep(r) PROVE Shape'
  <2>1. CASE ReadCandidates(r)
    BY <2>1
    DEF ReadCandidates, Candidates, housekeeping, deletion, IInv, Shape, DeletedIsClosed, PassDeletes,
        OpenIsStaged, OldIsClosed, Committed, CurrentIsEligible, TypeOK
  <2>2. CASE SelectReference(r)
    BY <2>2
    DEF SelectReference, housekeeping, deletion, IInv, Shape, DeletedIsClosed, PassDeletes,
        OpenIsStaged, OldIsClosed, Committed, CurrentIsEligible, TypeOK
  <2>3. CASE Reserve(r)
    BY <2>3
    DEF Reserve, housekeeping, deletion, IInv, Shape, DeletedIsClosed, PassDeletes, OpenIsStaged,
        OldIsClosed, Committed, CurrentIsEligible, TypeOK
  <2>4. CASE Commit(r)
    BY <2>4
    DEF Commit, housekeeping, deletion, IInv, Shape, DeletedIsClosed, PassDeletes, OpenIsStaged,
        OldIsClosed, Committed, CurrentIsEligible, TypeOK
  <2>5. CASE BeginComparison(r)
    BY <2>5
    DEF BeginComparison, Comparable, housekeeping, deletion, IInv, Shape, DeletedIsClosed,
        PassDeletes, OpenIsStaged, OldIsClosed, Committed, CurrentIsEligible, TypeOK
  <2>6. CASE AttachComparison(r)
    BY <2>6
    DEF AttachComparison, Comparable, housekeeping, deletion, IInv, Shape, DeletedIsClosed,
        PassDeletes, OpenIsStaged, OldIsClosed, Committed, CurrentIsEligible, TypeOK
  <2>7. CASE PreparePromotion(r)
    BY <2>7
    DEF PreparePromotion, Promotable, housekeeping, deletion, IInv, Shape, DeletedIsClosed,
        PassDeletes, OpenIsStaged, OldIsClosed, Committed, CurrentIsEligible, TypeOK
  <2>8. CASE CancelPreparedPromotion(r)
    BY <2>8
    DEF CancelPreparedPromotion, housekeeping, deletion, IInv, Shape, DeletedIsClosed, PassDeletes,
        OpenIsStaged, OldIsClosed, Committed, CurrentIsEligible, TypeOK
  <2>9. CASE Promote(r)
    BY <2>9
    DEF Promote, Promotable, housekeeping, deletion, IInv, Shape, DeletedIsClosed, PassDeletes,
        OpenIsStaged, OldIsClosed, Committed, CurrentIsEligible, TypeOK
  <2>10. CASE Retire(r)
    BY <2>10
    DEF Retire, housekeeping, deletion, IInv, Shape, DeletedIsClosed, PassDeletes, OpenIsStaged,
        OldIsClosed, Committed, CurrentIsEligible, TypeOK
  <2>11. CASE EndStage(r)
    BY <2>11
    DEF EndStage, StageDone, housekeeping, deletion, IInv, Shape, DeletedIsClosed, PassDeletes,
        OpenIsStaged, OldIsClosed, Committed, CurrentIsEligible, TypeOK
  <2> QED BY <1>1, <2>1, <2>2, <2>3, <2>4, <2>5, <2>6, <2>7, <2>8, <2>9, <2>10, <2>11 DEF LifeStep
<1>2. ASSUME NEW r \in Runs, PassStep(r) PROVE Shape'
  <2>1. CASE GetOld(r)
    BY <2>1
    DEF GetOld, housekeeping, deletion, IInv, Shape, DeletedIsClosed, PassDeletes, OpenIsStaged,
        OldIsClosed, Committed, CurrentIsEligible, TypeOK
  <2>2. CASE SummarizeClosedRun(r)
    BY <2>2
    DEF SummarizeClosedRun, housekeeping, deletion, IInv, Shape, DeletedIsClosed, PassDeletes,
        OpenIsStaged, OldIsClosed, Committed, CurrentIsEligible, TypeOK
  <2>3. CASE ReleaseReferences(r)
    BY <2>3
    DEF ReleaseReferences, ReferencePins, housekeeping, deletion, IInv, Shape, DeletedIsClosed,
        PassDeletes, OpenIsStaged, OldIsClosed, Committed, CurrentIsEligible, TypeOK
  <2>4. CASE RetireSourceBaseline(r)
    BY <2>4
    DEF RetireSourceBaseline, Root, housekeeping, deletion, IInv, Shape, DeletedIsClosed, PassDeletes,
        OpenIsStaged, OldIsClosed, Committed, CurrentIsEligible, TypeOK
  <2>5. CASE LeaseEnds(r)
    BY <2>5
    DEF LeaseEnds, Holds, housekeeping, deletion, IInv, Shape, DeletedIsClosed, PassDeletes,
        OpenIsStaged, OldIsClosed, Committed, CurrentIsEligible, TypeOK
  <2> QED BY <1>2, <2>1, <2>2, <2>3, <2>4, <2>5 DEF PassStep
<1>3. ASSUME NEW w \in Workers, WorkerStep(w) \/ StopPass(w) PROVE Shape'
  <2>1. ASSUME NEW r \in Runs, ClaimExpiredRun(w, r) PROVE Shape'
    BY <2>1
    DEF ClaimExpiredRun, Deletable, PinnedBy, Kinds, housekeeping, deletion, IInv, Shape,
        DeletedIsClosed, PassDeletes, OpenIsStaged, OldIsClosed, Committed, CurrentIsEligible, TypeOK
  <2>2. CASE DeletePage(w)
    BY <2>2
    DEF DeletePage, housekeeping, deletion, IInv, Shape, DeletedIsClosed, PassDeletes, OpenIsStaged,
        OldIsClosed, Committed, CurrentIsEligible, TypeOK
  <2>3. CASE Requeue(w)
    BY <2>3
    DEF Requeue, Holds, Idle, housekeeping, deletion, IInv, Shape, DeletedIsClosed, PassDeletes,
        OpenIsStaged, OldIsClosed, Committed, CurrentIsEligible, TypeOK
  <2>4. CASE CompleteRunDeletion(w)
    <3>1. \A x \in Runs : retained'[x].state = retained[x].state
                         \/ (retained[x].state = "deleting" /\ retained'[x].state = "deleted")
      <4>1. worker[w].run \in Runs
        BY <2>4 DEF CompleteRunDeletion, IInv, Shape, PassDeletes
      <4>2. CASE Holds(w, worker[w].run) /\ retained[worker[w].run].leased
        <5>1. retained \in [Runs -> RetainedRows]
          BY DEF IInv, TypeOK, RetainedRows
        <5> QED BY <2>4, <4>1, <4>2, <5>1 DEF CompleteRunDeletion, Holds, RetainedRows
      <4>3. CASE ~(Holds(w, worker[w].run) /\ retained[worker[w].run].leased)
        BY <2>4, <4>3 DEF CompleteRunDeletion
      <4> QED BY <4>2, <4>3
    <3>2. PassDeletes'
      BY <2>4, <3>1 DEF CompleteRunDeletion, IInv, Shape, PassDeletes, Idle, TypeOK
    <3>3. DeletedIsClosed'
      BY <2>4, <3>1 DEF CompleteRunDeletion, IInv, Shape, DeletedIsClosed
    <3> QED
      BY <2>4, <3>2, <3>3
      DEF CompleteRunDeletion, IInv, Shape, OpenIsStaged, OldIsClosed, Committed, CurrentIsEligible
  <2>5. CASE StopPass(w)
    BY <2>5
    DEF StopPass, Idle, housekeeping, deletion, IInv, Shape, DeletedIsClosed, PassDeletes,
        OpenIsStaged, OldIsClosed, Committed, CurrentIsEligible, TypeOK
  <2> QED BY <1>3, <2>1, <2>2, <2>3, <2>4, <2>5 DEF WorkerStep
<1>4. CASE UNCHANGED vars
  BY <1>4
  DEF vars, housekeeping, deletion, IInv, Shape, DeletedIsClosed, PassDeletes, OpenIsStaged,
      OldIsClosed, Committed, CurrentIsEligible, TypeOK
<1> QED BY <1>1, <1>2, <1>3, <1>4 DEF Next

\* Every step keeps the pinned images live and the live images whole.
LEMMA LiveStep == IInv /\ TypeOK' /\ [Next]_vars => (PinsAreLive /\ LiveIsWhole)'
<1> SUFFICES ASSUME IInv, TypeOK', [Next]_vars PROVE (PinsAreLive /\ LiveIsWhole)'
  OBVIOUS
<1> USE ConstantsAssumption
<1>1. ASSUME NEW r \in Runs, LifeStep(r) PROVE (PinsAreLive /\ LiveIsWhole)'
  <2>1. CASE ReadCandidates(r)
    BY <2>1
    DEF ReadCandidates, Candidates, housekeeping, deletion, IInv, Shape, DeletedIsClosed, PassDeletes,
        PinsAreLive, LiveIsWhole, Live, TypeOK, Pins, PinsOf
  <2>2. CASE SelectReference(r)
    BY <2>2
    DEF SelectReference, housekeeping, deletion, IInv, Shape, DeletedIsClosed, PassDeletes,
        PinsAreLive, LiveIsWhole, Live, TypeOK, Pins, PinsOf
  <2>3. CASE Reserve(r)
    BY <2>3
    DEF Reserve, housekeeping, deletion, IInv, Shape, DeletedIsClosed, PassDeletes, PinsAreLive,
        LiveIsWhole, Live, TypeOK, Pins, PinsOf
  <2>4. CASE Commit(r)
    BY <2>4
    DEF Commit, housekeeping, deletion, IInv, Shape, DeletedIsClosed, PassDeletes, PinsAreLive,
        LiveIsWhole, Live, TypeOK, Pins, PinsOf
  <2>5. CASE BeginComparison(r)
    BY <2>5
    DEF BeginComparison, Comparable, housekeeping, deletion, IInv, Shape, DeletedIsClosed,
        PassDeletes, PinsAreLive, LiveIsWhole, Live, TypeOK, Pins, PinsOf
  <2>6. CASE AttachComparison(r)
    BY <2>6
    DEF AttachComparison, Comparable, housekeeping, deletion, IInv, Shape, DeletedIsClosed,
        PassDeletes, PinsAreLive, LiveIsWhole, Live, TypeOK, Pins, PinsOf
  <2>7. CASE PreparePromotion(r)
    BY <2>7
    DEF PreparePromotion, Promotable, housekeeping, deletion, IInv, Shape, DeletedIsClosed,
        PassDeletes, PinsAreLive, LiveIsWhole, Live, TypeOK, Pins, PinsOf
  <2>8. CASE CancelPreparedPromotion(r)
    BY <2>8
    DEF CancelPreparedPromotion, housekeeping, deletion, IInv, Shape, DeletedIsClosed, PassDeletes,
        PinsAreLive, LiveIsWhole, Live, TypeOK, Pins, PinsOf
  <2>9. CASE Promote(r)
    <3>1. \A pin \in pins' : \E other \in pins : pin.run = other.run
      <4>1. ASSUME NEW pin \in PinsOf("promotion", r)
            PROVE  pin \in pins /\ [pin EXCEPT !.kind = "baseline"].run = pin.run
        BY DEF PinsOf, TypeOK, IInv
      <4> QED BY <2>9, <4>1 DEF Promote
    <3> QED BY <2>9, <3>1 DEF Promote, IInv, PinsAreLive, LiveIsWhole, Live, deletion
  <2>10. CASE Retire(r)
    BY <2>10
    DEF Retire, housekeeping, deletion, IInv, Shape, DeletedIsClosed, PassDeletes, PinsAreLive,
        LiveIsWhole, Live, TypeOK, Pins, PinsOf
  <2>11. CASE EndStage(r)
    BY <2>11
    DEF EndStage, StageDone, housekeeping, deletion, IInv, Shape, DeletedIsClosed, PassDeletes,
        PinsAreLive, LiveIsWhole, Live, TypeOK, Pins, PinsOf
  <2> QED BY <1>1, <2>1, <2>2, <2>3, <2>4, <2>5, <2>6, <2>7, <2>8, <2>9, <2>10, <2>11 DEF LifeStep
<1>2. ASSUME NEW r \in Runs, PassStep(r) PROVE (PinsAreLive /\ LiveIsWhole)'
  <2>1. CASE GetOld(r)
    BY <2>1
    DEF GetOld, housekeeping, deletion, IInv, Shape, DeletedIsClosed, PassDeletes, PinsAreLive,
        LiveIsWhole, Live, TypeOK, Pins, PinsOf
  <2>2. CASE SummarizeClosedRun(r)
    BY <2>2
    DEF SummarizeClosedRun, housekeeping, deletion, IInv, Shape, DeletedIsClosed, PassDeletes,
        PinsAreLive, LiveIsWhole, Live, TypeOK, Pins, PinsOf
  <2>3. CASE ReleaseReferences(r)
    BY <2>3
    DEF ReleaseReferences, ReferencePins, housekeeping, deletion, IInv, Shape, DeletedIsClosed,
        PassDeletes, PinsAreLive, LiveIsWhole, Live, TypeOK, Pins, PinsOf
  <2>4. CASE RetireSourceBaseline(r)
    BY <2>4
    DEF RetireSourceBaseline, Root, housekeeping, deletion, IInv, Shape, DeletedIsClosed, PassDeletes,
        PinsAreLive, LiveIsWhole, Live, TypeOK, Pins, PinsOf
  <2>5. CASE LeaseEnds(r)
    BY <2>5
    DEF LeaseEnds, Holds, housekeeping, deletion, IInv, Shape, DeletedIsClosed, PassDeletes,
        PinsAreLive, LiveIsWhole, Live, TypeOK, Pins, PinsOf
  <2> QED BY <1>2, <2>1, <2>2, <2>3, <2>4, <2>5 DEF PassStep
<1>3. ASSUME NEW w \in Workers, WorkerStep(w) \/ StopPass(w) PROVE (PinsAreLive /\ LiveIsWhole)'
  <2>1. ASSUME NEW r \in Runs, ClaimExpiredRun(w, r) PROVE (PinsAreLive /\ LiveIsWhole)'
    BY <2>1
    DEF ClaimExpiredRun, Deletable, PinnedBy, Kinds, housekeeping, deletion, IInv, Shape,
        DeletedIsClosed, PassDeletes, PinsAreLive, LiveIsWhole, Live, TypeOK, Pins, PinsOf
  <2>2. CASE DeletePage(w)
    <3>1. worker[w].run \in Runs /\ ~Live(worker[w].run)
      BY <2>2 DEF DeletePage, Live, IInv, Shape, PassDeletes
    <3>2. \A x \in Runs : Live(x) => objects'[x] = objects[x]
      BY <2>2, <3>1 DEF DeletePage, IInv, TypeOK
    <3> QED BY <2>2, <3>2 DEF DeletePage, IInv, PinsAreLive, LiveIsWhole, Live
  <2>3. CASE Requeue(w)
    BY <2>3
    DEF Requeue, Holds, Idle, housekeeping, deletion, IInv, Shape, DeletedIsClosed, PassDeletes,
        PinsAreLive, LiveIsWhole, Live, TypeOK, Pins, PinsOf
  <2>4. CASE CompleteRunDeletion(w)
    <3>1. worker[w].run \in Runs /\ ~Live(worker[w].run)
      BY <2>4 DEF CompleteRunDeletion, Live, IInv, Shape, PassDeletes
    <3>2. \A x \in Runs : Live(x)' <=> Live(x)
      <4>1. CASE Holds(w, worker[w].run) /\ retained[worker[w].run].leased
        <5>1. retained \in [Runs -> RetainedRows]
          BY DEF IInv, TypeOK, RetainedRows
        <5> QED BY <2>4, <3>1, <4>1, <5>1 DEF CompleteRunDeletion, Holds, Live, RetainedRows
      <4>2. CASE ~(Holds(w, worker[w].run) /\ retained[worker[w].run].leased)
        BY <2>4, <4>2 DEF CompleteRunDeletion, Live
      <4> QED BY <4>1, <4>2
    <3>3. pins' \subseteq pins /\ objects' = objects
      BY <2>4 DEF CompleteRunDeletion
    <3>4. \A pin \in pins : pin.run \in Runs
      BY DEF IInv, TypeOK
    <3> QED BY <3>2, <3>3, <3>4 DEF IInv, PinsAreLive, LiveIsWhole
  <2>5. CASE StopPass(w)
    BY <2>5
    DEF StopPass, Idle, housekeeping, deletion, IInv, Shape, DeletedIsClosed, PassDeletes,
        PinsAreLive, LiveIsWhole, Live, TypeOK, Pins, PinsOf
  <2> QED BY <1>3, <2>1, <2>2, <2>3, <2>4, <2>5 DEF WorkerStep
<1>4. CASE UNCHANGED vars
  BY <1>4
  DEF vars, housekeeping, deletion, IInv, Shape, DeletedIsClosed, PassDeletes, PinsAreLive,
      LiveIsWhole, Live, TypeOK, Pins, PinsOf
<1> QED BY <1>1, <1>2, <1>3, <1>4 DEF Next

\* Every step keeps the pins of whoever needs an image.
LEMMA OwnersStep == IInv /\ TypeOK' /\ [Next]_vars => (BaselinePinned /\ CopyPinned /\ StagePinned /\ OpenPinned)'
<1> SUFFICES ASSUME IInv, TypeOK', [Next]_vars PROVE (BaselinePinned /\ CopyPinned /\ StagePinned /\ OpenPinned)'
  OBVIOUS
<1> USE ConstantsAssumption, PinsAdded, PinsTaken
<1>1. ASSUME NEW r \in Runs, LifeStep(r) PROVE (BaselinePinned /\ CopyPinned /\ StagePinned /\ OpenPinned)'
  <2>1. CASE ReadCandidates(r)
    <3>1. \A x \in Runs : x # r => chosen'[x] = chosen[x] /\ stage'[x] = stage[x]
      BY <2>1 DEF ReadCandidates, IInv, TypeOK
    <3>2. stage'[r] = "reading" /\ run[r] # "open"
      <4>1. stage'[r] = "reading"
        BY <2>1 DEF ReadCandidates, IInv, TypeOK
      <4>2. stage[r] \notin {"live", "ended"}
        BY <2>1 DEF ReadCandidates
      <4> QED BY <4>1, <4>2 DEF IInv, Shape, OpenIsStaged
    <3>3. UNCHANGED <<run, uses, comparison, snapshot, eligible, pins>>
      BY <2>1 DEF ReadCandidates
    <3> HIDE PinsAdded, PinsTaken
    <3>4. BaselinePinned' /\ CopyPinned'
      BY <3>3 DEF IInv, BaselinePinned, CopyPinned, Pinned
    <3>5. StagePinned'
      BY <3>1, <3>2, <3>3 DEF IInv, StagePinned, Pinned, Named
    <3>6. OpenPinned'
      BY <3>1, <3>2, <3>3 DEF IInv, OpenPinned, Pinned, CompareOwners
    <3> QED BY <3>4, <3>5, <3>6
  <2>2. CASE SelectReference(r)
    BY <2>2
    DEF SelectReference, housekeeping, deletion, IInv, Shape, Committed, OpenIsStaged, OldIsClosed,
        DeletedIsClosed, CurrentIsEligible, BaselinePinned, CopyPinned, StagePinned, OpenPinned,
        Pinned, Named, CompareOwners, TypeOK, Pin
  <2>3. CASE Reserve(r)
    BY <2>3
    DEF Reserve, housekeeping, deletion, IInv, Shape, Committed, OpenIsStaged, OldIsClosed,
        DeletedIsClosed, CurrentIsEligible, BaselinePinned, CopyPinned, StagePinned, OpenPinned,
        Pinned, Named, CompareOwners, TypeOK, Pin
  <2>4. CASE Commit(r)
    BY <2>4
    DEF Commit, housekeeping, deletion, IInv, Shape, Committed, OpenIsStaged, OldIsClosed,
        DeletedIsClosed, CurrentIsEligible, BaselinePinned, CopyPinned, StagePinned, OpenPinned,
        Pinned, Named, CompareOwners, TypeOK, Pin
  <2>5. CASE BeginComparison(r)
    BY <2>5
    DEF BeginComparison, Comparable, housekeeping, deletion, IInv, Shape, Committed, OpenIsStaged,
        OldIsClosed, DeletedIsClosed, CurrentIsEligible, BaselinePinned, CopyPinned, StagePinned,
        OpenPinned, Pinned, Named, CompareOwners, TypeOK, Pin
  <2>6. CASE AttachComparison(r)
    BY <2>6
    DEF AttachComparison, Comparable, housekeeping, deletion, IInv, Shape, Committed, OpenIsStaged,
        OldIsClosed, DeletedIsClosed, CurrentIsEligible, BaselinePinned, CopyPinned, StagePinned,
        OpenPinned, Pinned, Named, CompareOwners, TypeOK, Pin
  <2>7. CASE PreparePromotion(r)
    BY <2>7
    DEF PreparePromotion, Promotable, housekeeping, deletion, IInv, Shape, Committed, OpenIsStaged,
        OldIsClosed, DeletedIsClosed, CurrentIsEligible, BaselinePinned, CopyPinned, StagePinned,
        OpenPinned, Pinned, Named, CompareOwners, TypeOK, Pin
  <2>8. CASE CancelPreparedPromotion(r)
    BY <2>8
    DEF CancelPreparedPromotion, housekeeping, deletion, IInv, Shape, Committed, OpenIsStaged,
        OldIsClosed, DeletedIsClosed, CurrentIsEligible, BaselinePinned, CopyPinned, StagePinned,
        OpenPinned, Pinned, Named, CompareOwners, TypeOK, Pin
  <2>9. CASE Promote(r)
    <3>1. \A x, o : Pin(x, "baseline", o) \in pins => Pin(x, "baseline", o) \in pins'
      BY <2>9, PinsTaken DEF Promote
    <3>2. \A x, o : o # r /\ Pin(x, "promotion", o) \in pins => Pin(x, "promotion", o) \in pins'
      BY <2>9, PinsTaken DEF Promote
    <3>3. \A x, o : o # r /\ o # current /\ Pin(x, "review", o) \in pins => Pin(x, "review", o) \in pins'
      BY <2>9, PinsTaken DEF Promote
    <3>4. \A x, k, o : k \notin {"review", "promotion", "baseline"} /\ Pin(x, k, o) \in pins =>
                   Pin(x, k, o) \in pins'
      BY <2>9, PinsTaken DEF Promote
    <3>5. \A x : Pin(x, "promotion", r) \in pins => Pin(x, "baseline", r) \in pins'
      <4>1. ASSUME NEW x, Pin(x, "promotion", r) \in pins
            PROVE  Pin(x, "baseline", r) \in pins'
        <5>1. Pin(x, "promotion", r) \in PinsOf("promotion", r)
          BY <4>1, PinsTaken
        <5>2. [Pin(x, "promotion", r) EXCEPT !.kind = "baseline"] = Pin(x, "baseline", r)
          BY DEF Pin
        <5> QED BY <2>9, <5>1, <5>2 DEF Promote
      <4> QED BY <4>1
    <3>6. \A x \in Runs : run'[x] = "open" => x # r /\ x # current /\ run[x] = "open"
      BY <2>9 DEF Promote, IInv, TypeOK, Shape, CurrentIsEligible
    <3>7. UNCHANGED <<stage, chosen, uses, comparison>>
      BY <2>9 DEF Promote
    <3>8. \A x \in Runs : eligible'[x] => x = r \/ eligible[x]
      BY <2>9 DEF Promote, IInv, TypeOK
    <3>9. \A x \in Runs : snapshot'[x] = "copying" => x # r /\ snapshot[x] = "copying"
      BY <2>9 DEF Promote, IInv, TypeOK
    <3>10. snapshot[r] = "copying"
      BY <2>9 DEF Promote
    <3> HIDE PinsAdded, PinsTaken
    <3>11. BaselinePinned'
      BY <3>1, <3>5, <3>7, <3>8, <3>10 DEF IInv, BaselinePinned, CopyPinned, Pinned
    <3>12. CopyPinned'
      BY <3>2, <3>7, <3>9 DEF IInv, CopyPinned, Pinned
    <3>13. StagePinned'
      BY <3>4, <3>7 DEF IInv, StagePinned, Pinned, Named
    <3>14. OpenPinned'
      BY <3>3, <3>4, <3>6, <3>7 DEF IInv, OpenPinned, Pinned, CompareOwners
    <3> QED BY <3>11, <3>12, <3>13, <3>14
  <2>10. CASE Retire(r)
    BY <2>10
    DEF Retire, housekeeping, deletion, IInv, Shape, Committed, OpenIsStaged, OldIsClosed,
        DeletedIsClosed, CurrentIsEligible, BaselinePinned, CopyPinned, StagePinned, OpenPinned,
        Pinned, Named, CompareOwners, TypeOK, Pin
  <2>11. CASE EndStage(r)
    BY <2>11
    DEF EndStage, StageDone, housekeeping, deletion, IInv, Shape, Committed, OpenIsStaged,
        OldIsClosed, DeletedIsClosed, CurrentIsEligible, BaselinePinned, CopyPinned, StagePinned,
        OpenPinned, Pinned, Named, CompareOwners, TypeOK, Pin
  <2> QED BY <1>1, <2>1, <2>2, <2>3, <2>4, <2>5, <2>6, <2>7, <2>8, <2>9, <2>10, <2>11 DEF LifeStep
<1>2. ASSUME NEW r \in Runs, PassStep(r) PROVE (BaselinePinned /\ CopyPinned /\ StagePinned /\ OpenPinned)'
  <2>1. CASE GetOld(r)
    BY <2>1
    DEF GetOld, housekeeping, deletion, IInv, Shape, Committed, OpenIsStaged, OldIsClosed,
        DeletedIsClosed, CurrentIsEligible, BaselinePinned, CopyPinned, StagePinned, OpenPinned,
        Pinned, Named, CompareOwners, TypeOK, Pin
  <2>2. CASE SummarizeClosedRun(r)
    BY <2>2
    DEF SummarizeClosedRun, housekeeping, deletion, IInv, Shape, Committed, OpenIsStaged, OldIsClosed,
        DeletedIsClosed, CurrentIsEligible, BaselinePinned, CopyPinned, StagePinned, OpenPinned,
        Pinned, Named, CompareOwners, TypeOK, Pin
  <2>3. CASE ReleaseReferences(r)
    BY <2>3
    DEF ReleaseReferences, ReferencePins, housekeeping, deletion, IInv, Shape, Committed,
        OpenIsStaged, OldIsClosed, DeletedIsClosed, CurrentIsEligible, BaselinePinned, CopyPinned,
        StagePinned, OpenPinned, Pinned, Named, CompareOwners, TypeOK, Pin
  <2>4. CASE RetireSourceBaseline(r)
    BY <2>4
    DEF RetireSourceBaseline, Root, housekeeping, deletion, IInv, Shape, Committed, OpenIsStaged,
        OldIsClosed, DeletedIsClosed, CurrentIsEligible, BaselinePinned, CopyPinned, StagePinned,
        OpenPinned, Pinned, Named, CompareOwners, TypeOK, Pin
  <2>5. CASE LeaseEnds(r)
    BY <2>5
    DEF LeaseEnds, Holds, housekeeping, deletion, IInv, Shape, Committed, OpenIsStaged, OldIsClosed,
        DeletedIsClosed, CurrentIsEligible, BaselinePinned, CopyPinned, StagePinned, OpenPinned,
        Pinned, Named, CompareOwners, TypeOK, Pin
  <2> QED BY <1>2, <2>1, <2>2, <2>3, <2>4, <2>5 DEF PassStep
<1>3. ASSUME NEW w \in Workers, WorkerStep(w) \/ StopPass(w) PROVE (BaselinePinned /\ CopyPinned /\ StagePinned /\ OpenPinned)'
  <2>1. ASSUME NEW r \in Runs, ClaimExpiredRun(w, r) PROVE (BaselinePinned /\ CopyPinned /\ StagePinned /\ OpenPinned)'
    BY <2>1
    DEF ClaimExpiredRun, Deletable, PinnedBy, Kinds, housekeeping, deletion, IInv, Shape, Committed,
        OpenIsStaged, OldIsClosed, DeletedIsClosed, CurrentIsEligible, BaselinePinned, CopyPinned,
        StagePinned, OpenPinned, Pinned, Named, CompareOwners, TypeOK, Pin
  <2>2. CASE DeletePage(w)
    BY <2>2
    DEF DeletePage, housekeeping, deletion, IInv, Shape, Committed, OpenIsStaged, OldIsClosed,
        DeletedIsClosed, CurrentIsEligible, BaselinePinned, CopyPinned, StagePinned, OpenPinned,
        Pinned, Named, CompareOwners, TypeOK, Pin
  <2>3. CASE Requeue(w)
    BY <2>3
    DEF Requeue, Holds, Idle, housekeeping, deletion, IInv, Shape, Committed, OpenIsStaged,
        OldIsClosed, DeletedIsClosed, CurrentIsEligible, BaselinePinned, CopyPinned, StagePinned,
        OpenPinned, Pinned, Named, CompareOwners, TypeOK, Pin
  <2>4. CASE CompleteRunDeletion(w)
    <3> DEFINE done == worker[w].run
    <3>1. \A x, k, o :
            /\ k \in {"baseline", "promotion", "submit", "review"} \/ o # done
            /\ Pin(x, k, o) \in pins
            => Pin(x, k, o) \in pins'
      BY <2>4, PinsTaken DEF CompleteRunDeletion, ReferencePins
    <3>2. done \in Runs /\ run[done] # "open"
      BY <2>4 DEF CompleteRunDeletion, IInv, Shape, PassDeletes, DeletedIsClosed
    <3>3. UNCHANGED <<stage, chosen, run, uses, comparison, snapshot, eligible>>
      BY <2>4 DEF CompleteRunDeletion
    <3> HIDE PinsAdded, PinsTaken
    <3> HIDE DEF done
    <3>4. BaselinePinned' /\ CopyPinned'
      BY <3>1, <3>3 DEF IInv, BaselinePinned, CopyPinned, Pinned
    <3>5. StagePinned'
      BY <3>1, <3>3 DEF IInv, StagePinned, Pinned, Named
    <3>6. OpenPinned'
      BY <3>1, <3>2, <3>3 DEF IInv, OpenPinned, Pinned, CompareOwners
    <3> QED BY <3>4, <3>5, <3>6
  <2>5. CASE StopPass(w)
    BY <2>5
    DEF StopPass, Idle, housekeeping, deletion, IInv, Shape, Committed, OpenIsStaged, OldIsClosed,
        DeletedIsClosed, CurrentIsEligible, BaselinePinned, CopyPinned, StagePinned, OpenPinned,
        Pinned, Named, CompareOwners, TypeOK, Pin
  <2> QED BY <1>3, <2>1, <2>2, <2>3, <2>4, <2>5 DEF WorkerStep
<1>4. CASE UNCHANGED vars
  BY <1>4
  DEF vars, housekeeping, deletion, IInv, Shape, Committed, OpenIsStaged, OldIsClosed,
      DeletedIsClosed, CurrentIsEligible, BaselinePinned, CopyPinned, StagePinned, OpenPinned, Pinned,
      Named, CompareOwners, TypeOK, Pin
<1> QED BY <1>1, <1>2, <1>3, <1>4 DEF Next

\* Whoever needs images pins them, in every state of every behaviour.
THEOREM InvariantHolds == Spec => []IInv
<1>1. ASSUME Init PROVE IInv
  <2>1. TypeOK
    BY <1>1, ConstantsAssumption DEF Init, TypeOK, Pins, Kinds, Idle
  <2>2. Shape
    BY <1>1, ConstantsAssumption
    DEF Init, Shape, DeletedIsClosed, PassDeletes, OpenIsStaged, OldIsClosed, Committed, CurrentIsEligible, Idle
  <2>3. PinsAreLive
    BY <1>1, ConstantsAssumption DEF Init, PinsAreLive, Pins, Live
  <2>4. LiveIsWhole
    BY <1>1 DEF Init, LiveIsWhole, Live
  <2>5. BaselinePinned
    <3>1. ASSUME NEW r \in Runs, eligible[r]
          PROVE  r = First /\ First # None /\ uses[r] = {r}
      BY <1>1, <3>1, ConstantsAssumption DEF Init
    <3>2. First # None => Pin(First, "baseline", First) \in pins
      BY <1>1, PinsAdded DEF Init
    <3> QED BY <3>1, <3>2 DEF BaselinePinned, Pinned
  <2>6. CopyPinned /\ StagePinned /\ OpenPinned
    BY <1>1 DEF Init, CopyPinned, StagePinned, OpenPinned
  <2> QED BY <2>1, <2>2, <2>3, <2>4, <2>5, <2>6 DEF IInv
<1>2. IInv /\ [Next]_vars => IInv'
  <2>1. TypeOK /\ [Next]_vars => TypeOK'
    BY TypeStep
  <2> QED BY <2>1, ShapeStep, LiveStep, OwnersStep DEF IInv
<1> QED BY <1>1, <1>2, PTL DEF Spec

\* The types, for every set of runs, passes and pages.
THEOREM TypeCorrect == Spec => []TypeOK
<1>1. IInv => TypeOK
  BY DEF IInv
<1> QED BY <1>1, InvariantHolds, PTL

\* No image that the baseline, an open run, its reference or a prepared
\* promotion names is ever deleted.
THEOREM NeededIsAlwaysKept == Spec => []NeededIsKept
BY InvariantHolds, InvariantSuffices, PTL

\* A pass retires no snapshot that a run can still be compared with.
THEOREM ReferencesStayEligible == Spec => ReferenceStaysEligible
<1> DEFINE Stays == \A r \in Runs : StillCompares(r) /\ StillCompares(r)' /\ eligible[chosen[r]]
                                    => eligible'[chosen[r]]
<1>1. IInv /\ [Next]_vars => [Stays]_vars
  <2> SUFFICES ASSUME IInv, Next, NEW r \in Runs, StillCompares(r), eligible[chosen[r]]
               PROVE  eligible'[chosen[r]]
    OBVIOUS
  <2>1. chosen[r] \in Runs
    BY DEF StillCompares, IInv, TypeOK
  <2>2. ASSUME NEW x \in Runs, RetireSourceBaseline(x) PROVE eligible'[chosen[r]]
    <3>1. stage[r] = "live" \/ (run[r] = "open" /\ comparison[r] # "none")
      BY DEF StillCompares, IInv, Shape, OpenIsStaged
    <3>2. Root(chosen[r])
      BY <3>1 DEF Root
    <3>3. x # chosen[r]
      BY <2>2, <3>2 DEF RetireSourceBaseline
    <3> QED BY <2>1, <2>2, <3>3 DEF RetireSourceBaseline, IInv, TypeOK
  <2>3. ASSUME NEW x \in Runs, LifeStep(x) PROVE eligible'[chosen[r]]
    <3>1. CASE Promote(x)
      BY <2>1, <3>1 DEF Promote, IInv, TypeOK
    <3>2. CASE ~Promote(x)
      BY <2>3, <3>2
      DEF LifeStep, ReadCandidates, SelectReference, Reserve, Commit, BeginComparison, AttachComparison,
          PreparePromotion, CancelPreparedPromotion, Retire, EndStage
    <3> QED BY <3>1, <3>2
  <2>4. CASE \E x \in Runs : PassStep(x) /\ ~RetireSourceBaseline(x)
    BY <2>4 DEF PassStep, GetOld, SummarizeClosedRun, ReleaseReferences, LeaseEnds, housekeeping
  <2>5. CASE \E w \in Workers : WorkerStep(w) \/ StopPass(w)
    BY <2>5 DEF WorkerStep, ClaimExpiredRun, DeletePage, Requeue, CompleteRunDeletion, StopPass
  <2> QED BY <2>2, <2>3, <2>4, <2>5 DEF Next
<1> QED BY <1>1, InvariantHolds, PTL DEF Spec, ReferenceStaysEligible

-----------------------------------------------------------------------------
(* The promise of the image store.                                         *)

\* What a run is before it is admitted, and that no run comes to need itself
\* through its reference.
StoreOK(r) ==
  /\ retained[r].state = "none" <=> run[r] = "none"
  /\ run[r] # "none" => stage[r] \in {"live", "ended"}
  /\ \A named \in uses[r] : run[named] # "none"
  /\ chosen[r] # r /\ r \notin Named(chosen[r])
  /\ retained[r].state = "deleted" => objects[r] = 0

StoreInv == \A r \in Runs : StoreOK(r)

\* The row of the images of a run, as each step leaves it.
RowKept(r) == retained'[r].state = retained[r].state /\ objects'[r] = objects[r]
RowMarked(r) == run[r] = "closed" /\ retained'[r].state = "deleting" /\ objects'[r] = objects[r]
RowErased(r) ==
  /\ retained[r].state \in {"deleting", "deleted"} /\ retained'[r].state = retained[r].state
  /\ objects'[r] = IF objects[r] > 0 THEN objects[r] - 1 ELSE 0
RowForgotten(r) ==
  /\ retained[r].state = "deleting" /\ retained'[r].state = "deleted"
  /\ objects[r] = 0 /\ objects'[r] = 0

\* What a deletion leaves alone.
life == <<current, stage, chosen, seen, run, uses, comparison, snapshot, eligible>>

LEMMA DeletionStep ==
  ASSUME IInv, NEW w \in Workers, WorkerStep(w) \/ StopPass(w)
  PROVE  /\ UNCHANGED life
         /\ \/ \A q \in Runs : RowKept(q)
            \/ \E r \in Runs :
                 /\ \A q \in Runs \ {r} : RowKept(q)
                 /\ RowErased(r) \/ RowForgotten(r)
                    \/ (RowMarked(r) /\ Deletable(r))
<1>0. /\ retained \in [Runs -> RetainedRows] /\ objects \in [Runs -> 0..Pages] /\ Pages \in Nat
      /\ worker[w].at # "idle" => worker[w].run \in Runs
                                  /\ retained[worker[w].run].state \in {"deleting", "deleted"}
      /\ worker[w].at # "idle" => worker[w] # Idle
  BY ConstantsAssumption DEF IInv, TypeOK, RetainedRows, Shape, PassDeletes, Idle
<1> DEFINE r == worker[w].run
<1>1. ASSUME NEW x \in Runs, ClaimExpiredRun(w, x)
      PROVE  /\ UNCHANGED life /\ \A q \in Runs \ {x} : RowKept(q)
             /\ RowMarked(x) /\ Deletable(x)
  <2>1. run[x] = "closed"
    BY <1>1 DEF ClaimExpiredRun, Deletable, IInv, Shape, DeletedIsClosed
  <2> QED BY <1>0, <1>1, <2>1 DEF ClaimExpiredRun, RowKept, RowMarked, life
<1>2. ASSUME DeletePage(w)
      PROVE  /\ UNCHANGED life /\ r \in Runs
             /\ \A q \in Runs \ {r} : RowKept(q)
             /\ RowErased(r)
  BY <1>0, <1>2 DEF DeletePage, RowKept, RowErased, life
<1>3. ASSUME Requeue(w) PROVE UNCHANGED life /\ \A q \in Runs : RowKept(q)
  BY <1>0, <1>3 DEF Requeue, RowKept, life, RetainedRows
<1>4. ASSUME CompleteRunDeletion(w)
      PROVE  /\ UNCHANGED life
             /\ \/ \A q \in Runs : RowKept(q)
                \/ r \in Runs /\ (\A q \in Runs \ {r} : RowKept(q)) /\ RowForgotten(r)
  <2>1. UNCHANGED <<life, objects>> /\ r \in Runs /\ objects[r] = 0
    BY <1>0, <1>4 DEF CompleteRunDeletion, life
  <2>2. CASE Holds(w, r) /\ retained[r].leased
    <3>1. retained' = [retained EXCEPT ![r] = [[retained[r] EXCEPT !.state = "deleted"] EXCEPT !.leased = FALSE]]
      BY <1>4, <2>2 DEF CompleteRunDeletion
    <3>2. retained'[r].state = "deleted" /\ \A q \in Runs \ {r} : retained'[q] = retained[q]
      BY <1>0, <2>1, <3>1 DEF RetainedRows
    <3> QED BY <2>1, <2>2, <3>2 DEF RowKept, RowForgotten, Holds
  <2>3. CASE ~(Holds(w, r) /\ retained[r].leased)
    BY <1>4, <2>1, <2>3 DEF CompleteRunDeletion, RowKept
  <2> QED BY <2>1, <2>2, <2>3
<1>5. ASSUME StopPass(w) PROVE UNCHANGED life /\ \A q \in Runs : RowKept(q)
  BY <1>5 DEF StopPass, RowKept, life, housekeeping
<1>6. CASE \E x \in Runs : ClaimExpiredRun(w, x)
  BY <1>1, <1>6
<1> QED BY <1>1, <1>2, <1>3, <1>4, <1>5, <1>6 DEF WorkerStep

\* The passes over closed runs change no row of images.
LEMMA PassLeavesRows ==
  ASSUME IInv, NEW r \in Runs, PassStep(r)
  PROVE  /\ \A q \in Runs : RowKept(q)
         /\ UNCHANGED <<current, stage, chosen, seen, run, uses, comparison, snapshot>>
         /\ UNCHANGED eligible \/ RetireSourceBaseline(r)
<1>0. retained \in [Runs -> RetainedRows]
  BY DEF IInv, TypeOK, RetainedRows
<1>1. CASE LeaseEnds(r)
  <2>1. retained' = [retained EXCEPT ![r] = [retained[r] EXCEPT !.leased = FALSE]]
    BY <1>1 DEF LeaseEnds
  <2>2. \A q \in Runs : retained'[q].state = retained[q].state
    BY <1>0, <2>1 DEF RetainedRows
  <2> QED BY <1>1, <2>2 DEF LeaseEnds, RowKept, housekeeping
<1>2. CASE GetOld(r) \/ SummarizeClosedRun(r) \/ ReleaseReferences(r) \/ RetireSourceBaseline(r)
  BY <1>2 DEF GetOld, SummarizeClosedRun, ReleaseReferences, RetireSourceBaseline, deletion, RowKept,
              housekeeping
<1> QED BY <1>1, <1>2 DEF PassStep

\* The life of a run changes a row of images at its admission alone.
LEMMA LifeLeavesRows ==
  ASSUME IInv, NEW r \in Runs, LifeStep(r)
  PROVE  Reserve(r) \/ UNCHANGED <<retained, objects>>
BY DEF LifeStep, ReadCandidates, SelectReference, Commit, BeginComparison, AttachComparison,
       PreparePromotion, CancelPreparedPromotion, Promote, Retire, EndStage, deletion

-----------------------------------------------------------------------------
\* A deletion keeps StoreInv.
LEMMA RowStep ==
  ASSUME IInv, StoreInv, NEW r \in Runs, UNCHANGED <<stage, chosen, run, uses>>,
         RowKept(r) \/ RowMarked(r) \/ RowErased(r) \/ RowForgotten(r)
  PROVE  StoreOK(r)'
<1>1. objects[r] \in Nat /\ run[r] \in {"none", "open", "closed"}
  BY ConstantsAssumption DEF IInv, TypeOK
<1>3. StoreOK(r)
  BY DEF StoreInv
<1>2. /\ retained'[r].state = "none" <=> run[r] = "none"
      /\ retained'[r].state = "deleted" => objects'[r] = 0
  BY <1>1, <1>3 DEF RowKept, RowMarked, RowErased, RowForgotten, StoreOK
<1> QED BY <1>2, <1>3 DEF StoreOK, Named

\* The images that a run can select are those of other runs, that are admitted.
LEMMA CandidatesAreOthers ==
  ASSUME IInv, StoreInv, NEW r \in Runs, run[r] = "none", NEW c \in Candidates(r)
  PROVE  c # r /\ r \notin Named(c)
<1>1. CASE c = None
  BY <1>1, ConstantsAssumption DEF Named
<1>2. CASE c # None
  <2>1. c \in Runs /\ eligible[c]
    BY <1>2 DEF Candidates
  <2>2. uses[c] # {}
    BY <2>1 DEF IInv, Shape, Committed
  <2>3. run[c] # "none"
    BY <2>1, <2>2 DEF IInv, Shape, OpenIsStaged
  <2> QED BY <1>2, <2>1, <2>3 DEF StoreInv, StoreOK, Named
<1> QED BY <1>1, <1>2

LEMMA StoreStep == IInv /\ StoreInv /\ [Next]_vars => StoreInv'
<1> SUFFICES ASSUME IInv, StoreInv, [Next]_vars, NEW q \in Runs PROVE StoreOK(q)'
  BY DEF StoreInv
<1>0. StoreOK(q) /\ TypeOK
  BY DEF StoreInv, IInv
<1>1. ASSUME NEW r \in Runs, LifeStep(r) PROVE StoreOK(q)'
  <2>1. CASE ReadCandidates(r)
    <3>1. run[r] = "none"
      BY <2>1, <1>0 DEF ReadCandidates, StoreInv, StoreOK, TypeOK
    <3>2. PICK c \in Candidates(r) : chosen' = [chosen EXCEPT ![r] = c]
      BY <2>1 DEF ReadCandidates
    <3>3. c # r /\ r \notin Named(c)
      BY <3>1, CandidatesAreOthers
    <3>4. UNCHANGED <<run, uses, retained, objects>>
      BY <2>1 DEF ReadCandidates, deletion
    <3>5. CASE q = r
      BY <1>0, <2>1, <3>1, <3>2, <3>3, <3>4, <3>5 DEF StoreOK, Named, TypeOK
    <3>6. CASE q # r
      BY <1>0, <2>1, <3>2, <3>4, <3>6 DEF StoreOK, Named, TypeOK, ReadCandidates
    <3> QED BY <3>5, <3>6
  <2>2. CASE SelectReference(r)
    BY <1>0, <2>2 DEF SelectReference, StoreOK, Named, TypeOK, deletion
  <2>3. CASE Reserve(r)
    <3>1. /\ retained'[r].state = "live" /\ \A x \in Runs \ {r} : retained'[x] = retained[x]
          /\ \A x \in Runs \ {r} : objects'[x] = objects[x]
      BY <1>0, <2>3 DEF Reserve, TypeOK
    <3>2. /\ run'[r] = "open" /\ \A x \in Runs \ {r} : run'[x] = run[x]
          /\ UNCHANGED <<stage, chosen, uses>> /\ stage[r] = "live"
      BY <1>0, <2>3 DEF Reserve, TypeOK
    <3>3. \A x \in uses[q] : x \in Runs
      BY <1>0 DEF TypeOK
    <3>4. CASE q = r
      BY <1>0, <3>1, <3>2, <3>3, <3>4 DEF StoreOK, Named
    <3>5. CASE q # r
      BY <1>0, <3>1, <3>2, <3>3, <3>5 DEF StoreOK, Named
    <3> QED BY <3>4, <3>5
  <2>4. CASE Commit(r)
    <3>1. PICK named \in SUBSET (Named(chosen[r]) \cup {r}) : uses' = [uses EXCEPT ![r] = named]
      BY <2>4 DEF Commit
    <3>2. UNCHANGED <<stage, chosen, run, retained, objects>> /\ run[r] = "open" /\ uses[r] = {}
      BY <2>4 DEF Commit, deletion
    <3>3. \A x \in named : run[x] # "none"
      <4>1. \A x \in Named(chosen[r]) : run[x] # "none"
        BY <1>0 DEF Named, StoreInv, StoreOK, TypeOK
      <4> QED BY <3>2, <4>1
    <3>4. chosen[q] # r
      BY <3>2, ConstantsAssumption DEF IInv, Shape, Committed, TypeOK
    <3>5. chosen[q] \in Runs \cup {None}
      BY <1>0 DEF TypeOK
    <3>6. Named(chosen[q])' = Named(chosen[q])
      BY <1>0, <3>1, <3>2, <3>4, <3>5 DEF Named, TypeOK
    <3>7. uses'[q] = uses[q] \/ (q = r /\ uses'[q] = named)
      BY <1>0, <3>1 DEF TypeOK
    <3> QED BY <1>0, <3>2, <3>3, <3>6, <3>7 DEF StoreOK
  <2>5. CASE BeginComparison(r) \/ AttachComparison(r) \/ PreparePromotion(r) \/ CancelPreparedPromotion(r)
    BY <1>0, <2>5 DEF BeginComparison, AttachComparison, PreparePromotion, CancelPreparedPromotion,
                      StoreOK, Named, deletion
  <2>6. CASE Promote(r) \/ Retire(r)
    <3>1. /\ UNCHANGED <<stage, chosen, uses, retained, objects>>
          /\ run' = [run EXCEPT ![r] = "closed"] /\ run[r] = "open"
      BY <2>6 DEF Promote, Promotable, Retire, deletion
    <3>2. \A x \in Runs : run'[x] = "none" <=> run[x] = "none"
      BY <1>0, <3>1 DEF TypeOK
    <3>3. \A x \in uses[q] : x \in Runs
      BY <1>0 DEF TypeOK
    <3> QED BY <1>0, <3>1, <3>2, <3>3 DEF StoreOK, Named
  <2>7. CASE EndStage(r)
    <3>1. /\ UNCHANGED <<run, uses, retained, objects>>
          /\ stage' = [stage EXCEPT ![r] = "ended"]
          /\ chosen'[q] = chosen[q] \/ chosen'[q] = None
      BY <1>0, <2>7 DEF EndStage, deletion, TypeOK
    <3>2. CASE chosen'[q] = chosen[q]
      BY <1>0, <3>1, <3>2 DEF StoreOK, Named, TypeOK
    <3>3. CASE chosen'[q] = None
      BY <1>0, <3>1, <3>3, ConstantsAssumption DEF StoreOK, Named, TypeOK
    <3> QED BY <3>1, <3>2, <3>3
  <2> QED BY <1>1, <2>1, <2>2, <2>3, <2>4, <2>5, <2>6, <2>7 DEF LifeStep
<1>2. ASSUME NEW r \in Runs, PassStep(r) PROVE StoreOK(q)'
  BY <1>2, PassLeavesRows, RowStep
<1>3. ASSUME NEW w \in Workers, WorkerStep(w) \/ StopPass(w) PROVE StoreOK(q)'
  <2>1. UNCHANGED life
    BY <1>3, DeletionStep
  <2>2. RowKept(q) \/ RowMarked(q) \/ RowErased(q) \/ RowForgotten(q)
    BY <1>3, DeletionStep
  <2> QED BY <2>1, <2>2, RowStep DEF life
<1>4. CASE UNCHANGED vars
  BY <1>0, <1>4 DEF vars, deletion, StoreOK, Named
<1> QED BY <1>1, <1>2, <1>3, <1>4 DEF Next

-----------------------------------------------------------------------------
(* What a step does to who needs images, and to who offers them.           *)

\* The claims of q are those of before.
SameClaims(q) == NeededBy(q)' = NeededBy(q) /\ Offered(q)' = Offered(q)

\* Who needs images pins them, so that they are live.
ClaimsLive == \A q \in Runs : \A x \in NeededBy(q) : x \in Runs /\ Live(x)

LEMMA NeededIsLive == IInv => ClaimsLive
<1> SUFFICES ASSUME IInv, NEW q \in Runs, NEW x \in NeededBy(q) PROVE x \in Runs /\ Live(x)
  BY DEF ClaimsLive
<1>1. x \in Needed
  BY DEF Needed
<1>2. x \in Runs
  BY ConstantsAssumption DEF NeededBy, Named, CompareOwners, IInv, TypeOK
<1> QED BY <1>1, <1>2, InvariantSuffices DEF NeededIsKept

LEMMA OfferedIsPinned ==
  ASSUME IInv, NEW q \in Runs, NEW x \in Offered(q)
  PROVE  PinnedBy(x, Kinds)
<1>1. eligible[q] /\ x \in uses[q] \cup {q}
  BY DEF Offered
<1>2. Pin(x, "baseline", q) \in pins
  BY <1>1 DEF IInv, BaselinePinned, Pinned
<1> QED BY <1>2 DEF PinnedBy, Pin, Kinds

LEMMA NeededIsPinned ==
  ASSUME IInv, NEW q \in Runs, NEW x \in NeededBy(q)
  PROVE  PinnedBy(x, Kinds)
<1>1. \E kind \in Kinds : Pin(x, kind, q) \in pins
  <2>1. CASE (current = q \/ snapshot[q] = "copying") /\ x \in uses[q] \cup {q}
    BY <2>1, ConstantsAssumption
    DEF IInv, Shape, CurrentIsEligible, BaselinePinned, CopyPinned, Pinned, Kinds
  <2>2. CASE run[q] = "open" /\ x \in uses[q] \cup {q}
    BY <2>2 DEF IInv, OpenPinned, Pinned, Kinds
  <2>3. CASE stage[q] = "live" /\ x \in Named(chosen[q])
    BY <2>3 DEF IInv, StagePinned, Pinned, Kinds
  <2>4. CASE run[q] = "open" /\ comparison[q] # "none" /\ x \in Named(chosen[q]) \cup CompareOwners(q)
    BY <2>4 DEF IInv, OpenPinned, Pinned, Named, CompareOwners, Kinds
  <2> QED BY <2>1, <2>2, <2>3, <2>4 DEF NeededBy
<1> QED BY <1>1 DEF PinnedBy, Pin

\* A run that is not admitted, or that is open, may take images.
LEMMA MayTake ==
  ASSUME IInv, StoreInv, NEW r \in Runs, run[r] = "none" \/ run[r] = "open"
  PROVE  ~Promise!GaveUp(r)
BY DEF Promise!GaveUp, Fates, Needs, NeededBy, StoreInv, StoreOK

\* The claims of one run change.
LEMMA OneTakes ==
  ASSUME NEW r \in Runs, UNCHANGED <<retained, objects>>, ~Promise!GaveUp(r),
         \A q \in Runs : Offered(q)' = Offered(q),
         \A q \in Runs \ {r} : NeededBy(q)' = NeededBy(q),
         NeededBy(r) \subseteq NeededBy(r)', ClaimsLive'
  PROVE  Promise!Take(r)
<1>0. \A x \in NeededBy(r)' : x \in Runs /\ Live(x)
  BY DEF ClaimsLive, Live
<1>1. UNCHANGED <<Fates, objects, Offers>>
  BY DEF Fates, Offers
<1>2. Promise!Only(r, Needs', Needs)
  BY DEF Promise!Only, Needs
<1>3. Needs[r] \subseteq Needs'[r] /\ \A q \in Needs'[r] : Promise!Kept(q)
  BY <1>0 DEF Needs, Promise!Kept, Fates, Live
<1> QED BY <1>1, <1>2, <1>3 DEF Promise!Take

LEMMA OneGivesUp ==
  ASSUME NEW r \in Runs, UNCHANGED <<retained, objects>>,
         \A q \in Runs : Offered(q)' = Offered(q),
         \A q \in Runs \ {r} : NeededBy(q)' = NeededBy(q),
         NeededBy(r)' \subseteq NeededBy(r)
  PROVE  Promise!GiveUp(r)
<1>1. UNCHANGED <<Fates, objects, Offers>>
  BY DEF Fates, Offers
<1>2. Promise!Only(r, Needs', Needs)
  BY DEF Promise!Only, Needs
<1>3. Needs'[r] \subseteq Needs[r]
  BY DEF Needs
<1> QED BY <1>1, <1>2, <1>3 DEF Promise!GiveUp

\* A run that nobody can refer to yet is not named by the reference of another.
LEMMA NoneRefers ==
  ASSUME IInv, NEW r \in Runs, uses[r] = {}, NEW q \in Runs
  PROVE  chosen[q] # r
BY ConstantsAssumption DEF IInv, Shape, Committed, TypeOK

-----------------------------------------------------------------------------
(* The steps of a run.                                                     *)
LEMMA ReadingStays ==
  ASSUME IInv, StoreInv, NEW r \in Runs, ReadCandidates(r)
  PROVE  UNCHANGED Promise!store
<1>1. run[r] = "none" /\ stage[r] # "live" /\ stage'[r] # "live"
  BY DEF ReadCandidates, StoreInv, StoreOK, IInv, TypeOK
<1>2. /\ UNCHANGED <<current, run, uses, comparison, snapshot, eligible, retained, objects>>
      /\ \A q \in Runs \ {r} : chosen'[q] = chosen[q] /\ stage'[q] = stage[q]
  BY DEF ReadCandidates, deletion, IInv, TypeOK
<1>3. ASSUME NEW q \in Runs PROVE SameClaims(q)
  <2>1. CASE q = r
    BY <1>1, <1>2, <2>1 DEF SameClaims, NeededBy, Offered
  <2>2. CASE q # r
    BY <1>2, <2>2 DEF SameClaims, NeededBy, Offered, Named, CompareOwners
  <2> QED BY <2>1, <2>2
<1> QED BY <1>2, <1>3 DEF SameClaims, Promise!store, Fates, Needs, Offers

LEMMA SelectionTakes ==
  ASSUME IInv, StoreInv, ClaimsLive', NEW r \in Runs, SelectReference(r)
  PROVE  Promise!Take(r)
<1>1. run[r] = "none" /\ stage[r] = "reading" /\ stage'[r] = "live"
  BY DEF SelectReference, StoreInv, StoreOK, IInv, TypeOK
<1>2. /\ UNCHANGED <<current, run, uses, comparison, snapshot, eligible, chosen, retained, objects>>
      /\ \A q \in Runs \ {r} : stage'[q] = stage[q]
  BY DEF SelectReference, deletion, IInv, TypeOK
<1>3. \A q \in Runs \ {r} : NeededBy(q)' = NeededBy(q)
  BY <1>2 DEF NeededBy, Named, CompareOwners
<1>4. \A q \in Runs : Offered(q)' = Offered(q)
  BY <1>2 DEF Offered
<1>5. NeededBy(r) \subseteq NeededBy(r)'
  BY <1>1, <1>2 DEF NeededBy, Named, CompareOwners
<1>6. ~Promise!GaveUp(r)
  BY <1>1, MayTake
<1> QED BY <1>2, <1>3, <1>4, <1>5, <1>6, OneTakes

LEMMA AdmissionStores ==
  ASSUME IInv, StoreInv, NEW r \in Runs, Reserve(r)
  PROVE  Promise!Store(r)
<1>0. retained \in [Runs -> RetainedRows]
  BY DEF IInv, TypeOK, RetainedRows
<1>1. /\ run[r] = "none" /\ run'[r] = "open" /\ stage[r] = "live" /\ retained[r].state = "none"
      /\ \A q \in Runs \ {r} : run'[q] = run[q]
      /\ UNCHANGED <<current, stage, chosen, uses, comparison, snapshot, eligible>>
      /\ objects' = [objects EXCEPT ![r] = Pages]
  BY DEF Reserve, StoreInv, StoreOK, IInv, TypeOK
<1>2. uses[r] = {} /\ comparison[r] = "none" /\ current # r /\ snapshot[r] # "copying"
  BY <1>1, ConstantsAssumption DEF IInv, Shape, OpenIsStaged, Committed, CurrentIsEligible
<1>3. NeededBy(r)' = NeededBy(r) \cup {r}
  BY <1>1, <1>2 DEF NeededBy, Named, CompareOwners
<1>4. \A q \in Runs \ {r} : NeededBy(q)' = NeededBy(q)
  BY <1>1 DEF NeededBy, Named, CompareOwners
<1>5. Needs' = [Needs EXCEPT ![r] = @ \cup {r}]
  BY <1>3, <1>4 DEF Needs
<1>6. Offers' = Offers
  BY <1>1 DEF Offers, Offered
<1>7. Fates[r] = "none" /\ Fates' = [Fates EXCEPT ![r] = "live"]
  <2>1. retained' = [retained EXCEPT ![r] = [retained[r] EXCEPT !.state = "live"]]
    BY DEF Reserve
  <2>2. retained'[r].state = "live" /\ \A q \in Runs \ {r} : retained'[q] = retained[q]
    BY <1>0, <2>1 DEF RetainedRows
  <2> QED BY <1>1, <2>2 DEF Fates
<1> QED BY <1>1, <1>5, <1>6, <1>7 DEF Promise!Store

LEMMA SealTakes ==
  ASSUME IInv, StoreInv, ClaimsLive', NEW r \in Runs, Commit(r)
  PROVE  Promise!Take(r)
<1>1. /\ run[r] = "open" /\ uses[r] = {} /\ \A q \in Runs \ {r} : uses'[q] = uses[q]
      /\ UNCHANGED <<current, stage, chosen, run, comparison, snapshot, eligible, retained, objects>>
  BY DEF Commit, deletion, IInv, TypeOK
<1>2. \A q \in Runs : chosen[q] # r /\ chosen[q] \in Runs \cup {None}
  BY <1>1, NoneRefers DEF IInv, TypeOK
<1>3. \A q \in Runs : Named(chosen[q])' = Named(chosen[q]) /\ CompareOwners(q)' = CompareOwners(q)
  BY <1>1, <1>2 DEF Named, CompareOwners
<1>4. \A q \in Runs \ {r} : NeededBy(q)' = NeededBy(q)
  BY <1>1, <1>3 DEF NeededBy
<1>5. ~eligible[r]
  BY <1>1 DEF IInv, Shape, Committed
<1>6. \A q \in Runs : Offered(q)' = Offered(q)
  BY <1>1, <1>5 DEF Offered
<1>7. NeededBy(r) \subseteq NeededBy(r)'
  BY <1>1, <1>3 DEF NeededBy
<1>8. ~Promise!GaveUp(r)
  BY <1>1, MayTake
<1> QED BY <1>1, <1>4, <1>6, <1>7, <1>8, OneTakes

\* The comparison and the preparation of an open run.
LEMMA OpenTakes ==
  ASSUME IInv, StoreInv, ClaimsLive', NEW r \in Runs,
         BeginComparison(r) \/ AttachComparison(r) \/ PreparePromotion(r)
  PROVE  Promise!Take(r)
<1>1. /\ run[r] = "open"
      /\ UNCHANGED <<current, stage, chosen, run, uses, eligible, retained, objects>>
      /\ \A q \in Runs \ {r} : comparison'[q] = comparison[q] /\ snapshot'[q] = snapshot[q]
      /\ comparison[r] # "none" => comparison'[r] # "none"
  BY DEF BeginComparison, AttachComparison, PreparePromotion, Comparable, Promotable, deletion,
         IInv, TypeOK
<1>2. \A q \in Runs \ {r} : NeededBy(q)' = NeededBy(q)
  BY <1>1 DEF NeededBy, Named, CompareOwners
<1>3. \A q \in Runs : Offered(q)' = Offered(q)
  BY <1>1 DEF Offered
<1>4. NeededBy(r) \subseteq NeededBy(r)'
  BY <1>1 DEF NeededBy, Named, CompareOwners
<1>5. ~Promise!GaveUp(r)
  BY <1>1, MayTake
<1> QED BY <1>1, <1>2, <1>3, <1>4, <1>5, OneTakes

LEMMA EndsGiveUp ==
  ASSUME IInv, StoreInv, NEW r \in Runs,
         CancelPreparedPromotion(r) \/ Retire(r) \/ EndStage(r)
  PROVE  Promise!GiveUp(r)
<1>1. /\ UNCHANGED <<current, uses, comparison, eligible, retained, objects>>
      /\ \A q \in Runs \ {r} : /\ run'[q] = run[q] /\ snapshot'[q] = snapshot[q]
                               /\ stage'[q] = stage[q] /\ chosen'[q] = chosen[q]
      /\ run'[r] = "open" => run[r] = "open"
      /\ snapshot'[r] = "copying" => snapshot[r] = "copying"
      /\ stage'[r] = "live" => stage[r] = "live"
  BY DEF CancelPreparedPromotion, Retire, EndStage, deletion, IInv, TypeOK
<1>2. chosen'[r] = chosen[r] \/ (run[r] # "open" /\ stage'[r] # "live" /\ run'[r] # "open")
  <2>1. CASE EndStage(r)
    <3>0. chosen \in [Runs -> Runs \cup {None}] /\ stage \in [Runs -> {"none", "reading", "live", "ended"}]
      BY DEF IInv, TypeOK
    <3>1. CASE stage[r] = "live"
      BY <2>1, <3>0, <3>1 DEF EndStage
    <3>2. CASE stage[r] # "live"
      <4>1. stage[r] = "reading" /\ stage'[r] = "ended" /\ run' = run
        BY <2>1, <3>0, <3>2 DEF EndStage
      <4>2. run[r] = "none"
        BY <4>1 DEF StoreInv, StoreOK
      <4> QED BY <4>1, <4>2
    <3> QED BY <3>1, <3>2
  <2>2. CASE CancelPreparedPromotion(r) \/ Retire(r)
    BY <2>2 DEF CancelPreparedPromotion, Retire
  <2> QED BY <2>1, <2>2
<1>3. \A q \in Runs \ {r} : NeededBy(q)' = NeededBy(q)
  BY <1>1 DEF NeededBy, Named, CompareOwners
<1>4. \A q \in Runs : Offered(q)' = Offered(q)
  BY <1>1 DEF Offered
<1>5. NeededBy(r)' \subseteq NeededBy(r)
  BY <1>1, <1>2 DEF NeededBy, Named, CompareOwners
<1> QED BY <1>1, <1>3, <1>4, <1>5, OneGivesUp

\* The accepted run offers what it needs, and what it replaced needs less.
LEMMA PromotionOffers ==
  ASSUME IInv, StoreInv, NEW r \in Runs, Promote(r)
  PROVE  Promise!Offer(r)
<1>1. /\ run[r] = "open" /\ run'[r] = "closed" /\ snapshot[r] = "copying" /\ current' = r
      /\ eligible'[r] /\ UNCHANGED <<stage, chosen, uses, comparison, retained, objects>>
      /\ \A q \in Runs \ {r} : /\ run'[q] = run[q] /\ snapshot'[q] = snapshot[q]
                               /\ eligible'[q] = eligible[q]
  BY DEF Promote, Promotable, deletion, IInv, TypeOK
<1>2. Needs[r] = NeededBy(r) /\ r \in NeededBy(r)
  BY <1>1 DEF Needs, NeededBy
<1>3. Offers'[r] = uses[r] \cup {r} /\ Promise!Only(r, Offers', Offers)
  BY <1>1 DEF Offers, Offered, Promise!Only
<1>4. uses[r] \cup {r} \subseteq Needs'[r]
  BY <1>1 DEF Needs, NeededBy
<1>5. ASSUME NEW q \in Runs PROVE Needs'[q] \subseteq Needs[q]
  <2>1. CASE q = r
    BY <1>1, <2>1 DEF Needs, NeededBy, Named, CompareOwners
  <2>2. CASE q # r
    BY <1>1, <2>2 DEF Needs, NeededBy, Named, CompareOwners
  <2> QED BY <2>1, <2>2
<1>6. UNCHANGED <<Fates, objects>>
  BY <1>1 DEF Fates
<1> QED BY <1>2, <1>3, <1>4, <1>5, <1>6 DEF Promise!Offer

-----------------------------------------------------------------------------
(* The steps of the passes.                                                *)

\* Who needs and who offers images depends on the life of the runs alone.
LEMMA ClaimsStay ==
  ASSUME UNCHANGED <<current, stage, chosen, run, uses, comparison, snapshot>>
  PROVE  UNCHANGED Needs /\ (UNCHANGED eligible => UNCHANGED Offers)
BY DEF Needs, NeededBy, Named, CompareOwners, Offers, Offered

LEMMA RetirementWithdraws ==
  ASSUME IInv, StoreInv, NEW r \in Runs, RetireSourceBaseline(r)
  PROVE  Promise!Withdraw(r)
<1>1. /\ UNCHANGED <<current, stage, chosen, run, uses, comparison, snapshot, retained, objects>>
      /\ eligible' = [eligible EXCEPT ![r] = FALSE]
      /\ current # r /\ snapshot[r] # "copying" /\ run[r] # "open"
  BY DEF RetireSourceBaseline, Root, deletion
<1>2. r \notin Needs[r]
  BY <1>1 DEF Needs, NeededBy, StoreInv, StoreOK
<1>3. Offers' = [Offers EXCEPT ![r] = {}]
  <2>1. \A q \in Runs : Offered(q)' = IF q = r THEN {} ELSE Offered(q)
    BY <1>1 DEF Offered, IInv, TypeOK
  <2> QED BY <2>1 DEF Offers
<1>4. UNCHANGED <<Fates, objects, Needs>>
  BY <1>1, ClaimsStay DEF Fates
<1> QED BY <1>2, <1>3, <1>4 DEF Promise!Withdraw

\* Rows that stay leave what the store shows of them.
LEMMA RowsStay ==
  ASSUME IInv, IInv', \A q \in Runs : RowKept(q)
  PROVE  UNCHANGED <<Fates, objects>>
BY DEF RowKept, Fates, IInv, TypeOK

LEMMA PassIsPromised ==
  ASSUME IInv, StoreInv, IInv', NEW r \in Runs, PassStep(r)
  PROVE  Promise!Next \/ UNCHANGED Promise!store
<1>1. CASE RetireSourceBaseline(r)
  BY <1>1, RetirementWithdraws DEF Promise!Next
<1>2. CASE ~RetireSourceBaseline(r)
  <2>1. UNCHANGED <<Fates, objects>>
    BY PassLeavesRows, RowsStay
  <2>2. UNCHANGED <<current, stage, chosen, run, uses, comparison, snapshot, eligible>>
    BY <1>2, PassLeavesRows
  <2> QED BY <2>1, <2>2, ClaimsStay DEF Promise!store
<1> QED BY <1>1, <1>2

LEMMA DeletionIsPromised ==
  ASSUME IInv, StoreInv, IInv', NEW w \in Workers, WorkerStep(w) \/ StopPass(w)
  PROVE  Promise!Next \/ UNCHANGED Promise!store
<1>1. UNCHANGED <<Needs, Offers>>
  BY DeletionStep, ClaimsStay DEF life
<1>2. CASE \A q \in Runs : RowKept(q)
  BY <1>1, <1>2, RowsStay DEF Promise!store
<1>3. ASSUME NEW r \in Runs, \A q \in Runs \ {r} : RowKept(q),
             RowErased(r) \/ RowForgotten(r) \/ (RowMarked(r) /\ Deletable(r))
      PROVE  Promise!Next \/ UNCHANGED Promise!store
  <2>1. /\ objects \in [Runs -> 0..Pages] /\ objects' \in [Runs -> 0..Pages] /\ Pages \in Nat
        /\ DOMAIN Fates = Runs /\ DOMAIN Fates' = Runs
    BY ConstantsAssumption DEF IInv, TypeOK, Fates
  <2>2. \A q \in Runs : Fates[q] = retained[q].state /\ Fates'[q] = retained'[q].state
    BY DEF Fates
  <2>3. /\ Fates' = [Fates EXCEPT ![r] = retained'[r].state]
        /\ objects' = [objects EXCEPT ![r] = objects'[r]]
    <3>1. \A q \in Runs \ {r} : Fates'[q] = Fates[q] /\ objects'[q] = objects[q]
      BY <1>3, <2>2 DEF RowKept
    <3>2. Fates' = [q \in Runs |-> IF q = r THEN retained'[r].state ELSE Fates[q]]
      BY <2>2, <3>1 DEF Fates
    <3>3. Fates = [q \in Runs |-> Fates[q]]
      BY DEF Fates
    <3>4. objects' = [objects EXCEPT ![r] = objects'[r]]
      BY <2>1, <3>1
    <3> QED BY <3>2, <3>3, <3>4
  <2>4. retained'[r].state = retained[r].state => Fates' = Fates
    BY <1>3 DEF Fates, RowKept
  <2>5. CASE RowForgotten(r)
    <3>1. Fates[r] = "deleting" /\ objects[r] = 0 /\ objects' = objects
          /\ Fates' = [Fates EXCEPT ![r] = "deleted"]
      BY <2>1, <2>2, <2>3, <2>5 DEF RowForgotten
    <3> QED BY <1>1, <3>1 DEF Promise!Forget, Promise!Next
  <2>6. CASE RowErased(r)
    <3>1. Fates' = Fates
      BY <2>6, <2>4 DEF RowErased
    <3>2. CASE objects[r] = 0
      <4>1. objects' = objects
        BY <2>1, <2>3, <2>6, <3>2 DEF RowErased
      <4> QED BY <1>1, <3>1, <4>1 DEF Promise!store
    <3>3. CASE objects[r] # 0
      <4>1. objects[r] > 0 /\ objects' = [objects EXCEPT ![r] = @ - 1]
        BY <2>1, <2>3, <2>6, <3>3 DEF RowErased
      <4>2. Fates[r] = "deleting"
        BY <2>2, <2>6, <3>3 DEF RowErased, StoreInv, StoreOK
      <4> QED BY <1>1, <3>1, <4>1, <4>2 DEF Promise!Erase, Promise!Next
    <3> QED BY <3>2, <3>3
  <2>7. CASE RowMarked(r) /\ Deletable(r)
    <3>1. objects' = objects /\ Fates' = [Fates EXCEPT ![r] = "deleting"]
      BY <2>1, <2>3, <2>7 DEF RowMarked
    <3>2. CASE Live(r)
      <4>1. Promise!Kept(r)
        BY <2>2, <3>2 DEF Promise!Kept, Live
      <4>2. ~Promise!Wanted(r)
        <5>1. ~PinnedBy(r, Kinds)
          BY <2>7 DEF Deletable
        <5>2. \A q \in Runs : r \notin NeededBy(q) /\ r \notin Offered(q)
          BY <5>1, NeededIsPinned, OfferedIsPinned
        <5> QED BY <5>2 DEF Promise!Wanted, Needs, Offers
      <4> QED BY <1>1, <3>1, <4>1, <4>2 DEF Promise!Mark, Promise!Next
    <3>3. CASE ~Live(r)
      <4>1. Fates[r] = "deleting"
        BY <2>2, <2>7, <3>3 DEF Deletable
      <4>2. Fates' = Fates
        BY <2>2, <2>7, <2>4, <4>1 DEF RowMarked
      <4> QED BY <1>1, <3>1, <4>2 DEF Promise!store
    <3> QED BY <3>2, <3>3
  <2> QED BY <1>3, <2>5, <2>6, <2>7
<1> QED BY <1>2, <1>3, DeletionStep

LEMMA EachStepIsPromised ==
  ASSUME IInv, StoreInv, IInv', ClaimsLive', [Next]_vars
  PROVE  Promise!Next \/ UNCHANGED Promise!store
<1>1. ASSUME NEW r \in Runs, LifeStep(r) PROVE Promise!Next \/ UNCHANGED Promise!store
  <2>1. CASE ReadCandidates(r)
    BY <2>1, ReadingStays
  <2>2. CASE SelectReference(r) \/ Commit(r) \/ BeginComparison(r) \/ AttachComparison(r)
             \/ PreparePromotion(r)
    BY <2>2, SelectionTakes, SealTakes, OpenTakes DEF Promise!Next
  <2>3. CASE Reserve(r)
    BY <2>3, AdmissionStores DEF Promise!Next
  <2>4. CASE CancelPreparedPromotion(r) \/ Retire(r) \/ EndStage(r)
    BY <2>4, EndsGiveUp DEF Promise!Next
  <2>5. CASE Promote(r)
    BY <2>5, PromotionOffers DEF Promise!Next
  <2> QED BY <1>1, <2>1, <2>2, <2>3, <2>4, <2>5 DEF LifeStep
<1>2. ASSUME UNCHANGED vars PROVE UNCHANGED Promise!store
  <2>1. UNCHANGED <<Fates, objects, Needs, Offers>>
    BY <1>2, ClaimsStay DEF vars, deletion, Fates
  <2> QED BY <2>1 DEF Promise!store
<1> QED BY <1>1, <1>2, PassIsPromised, DeletionIsPromised DEF Next

LEMMA StoreBegins == Init => StoreInv /\ Promise!Init
<1> SUFFICES ASSUME Init PROVE StoreInv /\ Promise!Init
  OBVIOUS
<1> DEFINE first == {r \in Runs : r = First}
<1>1. StoreInv
  BY ConstantsAssumption DEF Init, StoreInv, StoreOK, Named
<1>2. first \in SUBSET Runs
  OBVIOUS
<1>3. Fates = [r \in Runs |-> IF r \in first THEN "live" ELSE "none"]
  BY DEF Init, Fates
<1>4. objects = [r \in Runs |-> IF r \in first THEN Pages ELSE 0]
  BY DEF Init
<1>5. \A r \in Runs : NeededBy(r) = IF r \in first THEN {r} ELSE {}
  BY DEF Init, NeededBy, Named, CompareOwners
<1>6. \A r \in Runs : Offered(r) = IF r \in first THEN {r} ELSE {}
  BY DEF Init, Offered
<1>7. Needs = [r \in Runs |-> IF r \in first THEN {r} ELSE {}] /\ Offers = Needs
  BY <1>5, <1>6 DEF Needs, Offers
<1> HIDE DEF first
<1> QED BY <1>1, <1>2, <1>3, <1>4, <1>7 DEF Promise!Init

\* Before its admission a run has no images, a run never comes to need itself
\* through its reference, and of what is deleted no page is left.
THEOREM StoreStays == Spec => [](IInv /\ StoreInv)
<1>1. IInv /\ StoreInv /\ [Next]_vars => StoreInv'
  BY StoreStep
<1> QED BY <1>1, StoreBegins, InvariantHolds, PTL DEF Spec

\* The batches of packages/service and the passes over closed runs keep the
\* promise of ImageStore, whatever they overlap with and wherever one stops.
THEOREM RetentionImplementsStore == Spec => ImplementsStore
<1>1. Init => Promise!Init
  BY StoreBegins
<1>2. IInv /\ StoreInv /\ IInv' /\ ClaimsLive' /\ [Next]_vars => [Promise!Next]_(Promise!store)
  BY EachStepIsPromised
<1>3. IInv => ClaimsLive
  BY NeededIsLive
<1> QED BY <1>1, <1>2, <1>3, StoreStays, PTL DEF Spec, ImplementsStore, Promise!Spec
=============================================================================
