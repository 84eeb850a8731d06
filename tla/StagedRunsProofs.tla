-------------------------- MODULE StagedRunsProofs --------------------------
(***************************************************************************)
(* Staged submissions, for every number of attempts, sweeps, retention     *)
(* passes and faults: the originals of a run are kept, a deleted stage is  *)
(* gone, and only the newest attempt is sealed.                            *)
(*                                                                         *)
(* A stage goes one way: it is live until retention claims it, which needs *)
(* a Submit job and requests that are over.  A run is admitted only for a  *)
(* live stage with an index, and so with all its originals; a deletion     *)
(* reads whether there is a run after its claim, when none can be admitted *)
(* any more.                                                               *)
(***************************************************************************)
EXTENDS StagedRuns, TLAPS

\* What the writes of an attempt rely on.
AttemptOK(a) ==
  /\ run[a].state # None => Images \subseteq objects[a] \cup lost[a]
  /\ stage[a].state \in {None, "live"} => stage[a].complete \subseteq objects[a] \cup lost[a]
  /\ stage[a].state = "live" /\ stage[a].index => stage[a].complete = Images
  /\ stage[a].old => client[a] = "over"
  /\ stage[a].state \in {"deleting", "deleted"} => stage[a].old
  /\ stage[a].state = "deleted" =>
       /\ files[a] = {} /\ stage[a].rows = {} /\ ~stage[a].job
       /\ run[a].state = None => objects[a] = {}
  /\ stage[a].state = None =>
       /\ files[a] = {} /\ stage[a].rows = {} /\ ~stage[a].index /\ ~stage[a].job
  /\ run[a].shard => run[a].images = Images

\* The newest run is the only active one.
NewestIsActive == \A a, b \in Attempts : Active(a) /\ b > a => run[b].state = None

RequestOK(r) ==
  /\ ~stage[r.attempt].old
  /\ r.kind = "upload" => r.image \in objects[r.attempt] \cup lost[r.attempt]

\* What a sweep or a deletion read before is still so.
WorkerOK(w) ==
  LET me == worker[w]
      a == me.attempt
  IN /\ me.place = "reserve" =>
          stage[a].state \in {"deleting", "deleted"} \/ (stage[a].state = "live" /\ stage[a].index)
     /\ me.place \in Deleting => stage[a].state \in {"deleting", "deleted"}
     /\ me.place \in Deleting \ {"claimed"} => (me.converted <=> run[a].state # None)
     /\ me.place \in {"claimed", "originals"} => ~me.more
     /\ me.place = "files" /\ ~me.converted /\ ~me.more => objects[a] = {}
     /\ me.place = "rows" => files[a] = {} /\ (~me.converted => objects[a] = {})

StagedInv ==
  /\ TypeOK
  /\ \A a \in Attempts : AttemptOK(a)
  /\ NewestIsActive
  /\ \A r \in request : RequestOK(r)
  /\ \A w \in Workers : WorkerOK(w)

-----------------------------------------------------------------------------
(* What a step may do.                                                     *)

StageFields ==
  {"state", "old", "lease", "job", "reference", "rows", "complete", "index", "submitted",
   "failures", "missing", "token", "until"}

\* A write of a stage that leaves the other fields alone.
Wrote(row, new, fields) ==
  new \in Stages /\ \A f \in StageFields \ fields : new[f] = row[f]

\* Fields of a stage on which nothing here depends.
Quiet == {"lease", "reference", "submitted", "failures", "missing", "token", "until"}

StageMoves(a) ==
  LET old == stage[a]
      new == stage'[a]
      same == new.state = old.state /\ new.index = old.index /\ new.complete = old.complete
                /\ new.rows = old.rows
  IN \/ same /\ new.old = old.old /\ (new.job = old.job \/ old.state = "live")
     \/ /\ old.state = None /\ new.state = "live" /\ ~new.index /\ new.complete = {} /\ ~new.old
     \/ /\ old.state = "live" /\ new.state = "live" /\ new.old = old.old
        /\ new.complete \subseteq objects[a] \cup lost[a]
        /\ old.index => new.index
        /\ new.index => new.complete = Images
     \/ /\ same /\ new.job = old.job /\ new.old
        /\ client'[a] = "over" /\ \A r \in request' : r.attempt # a
     \/ /\ old.state \in {"live", "deleting"} /\ new.state = "deleting" /\ old.old /\ new.old
     \/ /\ old.state = "deleting" /\ new.state = "deleted" /\ old.old /\ new.old
        /\ files'[a] = {} /\ new.rows = {} /\ ~new.job
        /\ run'[a].state = None => objects'[a] = {}

RunMoves(a) ==
  /\ \/ run'[a].state = None <=> run[a].state = None
     \/ run'[a].state # None /\ stage[a].state = "live" /\ stage[a].index
          /\ UNCHANGED <<stage, objects, lost>>
  /\ run'[a].shard => run'[a].images = Images
  /\ run'[a].sealed => run[a].sealed \/ (run[a].state = "uploading" /\ run[a].shard)

\* What is stored is kept, but for the originals of a deletion without a run.
Stores(a) ==
  /\ \/ objects[a] \cup lost[a] \subseteq objects'[a] \cup lost'[a]
     \/ stage[a].state \in {"deleting", "deleted"} /\ run[a].state = None
  /\ objects'[a] \subseteq objects[a] \/ stage[a].state = "live"
  /\ files'[a] \subseteq files[a] \/ stage[a].state = "live"
  /\ client[a] = "over" => client'[a] = "over"

RequestMoves(r) ==
  \/ r \in request
  \/ /\ client[r.attempt] = "running" /\ UNCHANGED stage
     /\ r.kind = "upload" => r.image \in objects'[r.attempt]

Moves ==
  /\ TypeOK' /\ NewestIsActive'
  /\ \A a \in Attempts : StageMoves(a) /\ RunMoves(a) /\ Stores(a)
  /\ \A r \in request' : RequestMoves(r)
  /\ \A w \in Workers : worker'[w] = worker[w] \/ WorkerOK(w)'

LEMMA TypesOK ==
  ASSUME StagedInv
  PROVE  /\ client \in [Attempts -> {"waiting", "running", "over"}]
         /\ request \subseteq Requests
         /\ stage \in [Attempts -> Stages]
         /\ objects \in [Attempts -> SUBSET Images] /\ lost \in [Attempts -> SUBSET Images]
         /\ files \in [Attempts -> SUBSET {"page", "index"}]
         /\ run \in [Attempts -> Runs]
         /\ check \in [Attempts -> {"active", "failed"}]
         /\ stale \subseteq Attempts
         /\ worker \in [Workers -> Locals]
         /\ \A w \in Workers : worker[w] \in Locals /\ At(w) \in Attempts
         /\ faults \in 0..MaxFaults
         /\ \A a \in Attempts : stage[a] \in Stages /\ run[a] \in Runs
  BY DEF StagedInv, TypeOK, At, Locals

-----------------------------------------------------------------------------
(* The steps keep the invariant.                                           *)
LEMMA AttemptKept ==
  ASSUME StagedInv, Moves, NEW a \in Attempts
  PROVE  AttemptOK(a)'
<1>1. AttemptOK(a) /\ StageMoves(a) /\ RunMoves(a) /\ Stores(a)
  BY DEF StagedInv, Moves
<1>2. run'[a].state # None => Images \subseteq objects'[a] \cup lost'[a]
  BY <1>1 DEF AttemptOK, RunMoves, Stores, None
<1>3. stage'[a].state \in {None, "live"} => stage'[a].complete \subseteq objects'[a] \cup lost'[a]
  BY <1>1 DEF AttemptOK, StageMoves, Stores, None
<1>4. stage'[a].state = "live" /\ stage'[a].index => stage'[a].complete = Images
  BY <1>1 DEF AttemptOK, StageMoves, None
<1>5. stage'[a].old => client'[a] = "over"
  BY <1>1 DEF AttemptOK, StageMoves, Stores
<1>6. stage'[a].state \in {"deleting", "deleted"} => stage'[a].old
  BY <1>1 DEF AttemptOK, StageMoves, None
<1>7. stage'[a].state = "deleted" =>
        /\ files'[a] = {} /\ stage'[a].rows = {} /\ ~stage'[a].job
        /\ run'[a].state = None => objects'[a] = {}
  BY <1>1 DEF AttemptOK, StageMoves, RunMoves, Stores, None
<1>8. stage'[a].state = None =>
        /\ files'[a] = {} /\ stage'[a].rows = {} /\ ~stage'[a].index /\ ~stage'[a].job
  BY <1>1 DEF AttemptOK, StageMoves, Stores, None
<1> QED BY <1>1, <1>2, <1>3, <1>4, <1>5, <1>6, <1>7, <1>8 DEF AttemptOK, RunMoves

LEMMA RequestKept ==
  ASSUME StagedInv, Moves, NEW r \in request'
  PROVE  RequestOK(r)'
<1>1. r.attempt \in Attempts
  BY DEF Moves, TypeOK, Requests
<1>2. /\ AttemptOK(r.attempt) /\ StageMoves(r.attempt) /\ Stores(r.attempt)
      /\ stage[r.attempt].old \in BOOLEAN
  BY <1>1, TypesOK DEF StagedInv, Moves, Stages
<1>3. CASE r \in request
  <2>1. RequestOK(r)
    BY <1>3 DEF StagedInv
  <2> QED BY <1>2, <2>1 DEF AttemptOK, StageMoves, Stores, RequestOK, None
<1>4. CASE r \notin request
  <2>1. /\ client[r.attempt] = "running" /\ UNCHANGED stage
        /\ r.kind = "upload" => r.image \in objects'[r.attempt]
    BY <1>4 DEF Moves, RequestMoves
  <2> QED BY <1>2, <2>1 DEF AttemptOK, RequestOK
<1> QED BY <1>3, <1>4

LEMMA WorkerKept ==
  ASSUME StagedInv, Moves, NEW w \in Workers
  PROVE  WorkerOK(w)'
<1>1. CASE worker'[w] = worker[w]
  <2>1. PICK me \in Locals : me = worker[w]
    BY TypesOK
  <2>2. PICK a \in Attempts : a = me.attempt
    BY <2>1 DEF Locals
  <2>3. /\ AttemptOK(a) /\ StageMoves(a) /\ RunMoves(a) /\ Stores(a) /\ WorkerOK(w)
    BY DEF StagedInv, Moves
  <2>4. stage[a].state \in {"deleting", "deleted"} =>
          /\ stage'[a].state \in {"deleting", "deleted"}
          /\ run'[a].state = None <=> run[a].state = None
          /\ objects'[a] \subseteq objects[a] /\ files'[a] \subseteq files[a]
    BY <2>3 DEF StageMoves, RunMoves, Stores, None
  <2>5. stage[a].state = "live" /\ stage[a].index =>
          stage'[a].state \in {"deleting", "deleted"} \/ (stage'[a].state = "live" /\ stage'[a].index)
    BY <2>3 DEF StageMoves, None
  <2>6. me.place = "reserve" =>
          stage'[a].state \in {"deleting", "deleted"} \/ (stage'[a].state = "live" /\ stage'[a].index)
    BY <2>1, <2>2, <2>3, <2>4, <2>5 DEF WorkerOK
  <2>7. me.place \in Deleting =>
          /\ stage'[a].state \in {"deleting", "deleted"}
          /\ objects'[a] \subseteq objects[a] /\ files'[a] \subseteq files[a]
          /\ me.place # "claimed" => (me.converted <=> run'[a].state # None)
    BY <2>1, <2>2, <2>3, <2>4 DEF WorkerOK
  <2>8. /\ me.place \in {"claimed", "originals"} => ~me.more
        /\ me.place = "files" /\ ~me.converted /\ ~me.more => objects[a] = {}
        /\ me.place = "rows" => files[a] = {} /\ (~me.converted => objects[a] = {})
    BY <2>1, <2>2, <2>3 DEF WorkerOK
  <2>9. /\ me.place = "files" /\ ~me.converted /\ ~me.more => objects'[a] = {}
        /\ me.place = "rows" => files'[a] = {} /\ (~me.converted => objects'[a] = {})
    BY <2>7, <2>8 DEF Deleting
  <2> QED BY <1>1, <2>1, <2>2, <2>6, <2>7, <2>8, <2>9 DEF WorkerOK
<1>2. CASE worker'[w] # worker[w]
  BY <1>2 DEF Moves
<1> QED BY <1>1, <1>2

LEMMA MovesKeep == StagedInv /\ Moves => StagedInv'
  BY AttemptKept, RequestKept, WorkerKept DEF StagedInv, Moves

LEMMA MovesSeal ==
  ASSUME StagedInv, Moves, NEW a \in Attempts, run'[a].sealed, ~run[a].sealed
  PROVE  run[a].images = Images /\ \A b \in Attempts : b > a => run[b].state = None
<1>1. run[a].state = "uploading" /\ run[a].shard
  BY DEF Moves, RunMoves
<1>2. Active(a)
  BY <1>1 DEF Active, None
<1> QED BY <1>1, <1>2 DEF StagedInv, AttemptOK, NewestIsActive
-----------------------------------------------------------------------------
(* One field of a stage is written.                                        *)
LEMMA StageWritten ==
  ASSUME NEW row \in Stages
  PROVE  /\ \A x \in {None, "live", "deleting", "deleted"} :
              LET u == [row EXCEPT !.state = x] IN Wrote(row, u, {"state"}) /\ u.state = x
         /\ \A x \in BOOLEAN :
              LET u == [row EXCEPT !.old = x] IN Wrote(row, u, {"old"}) /\ u.old = x
         /\ \A x \in BOOLEAN :
              LET u == [row EXCEPT !.lease = x] IN Wrote(row, u, {"lease"}) /\ u.lease = x
         /\ \A x \in BOOLEAN :
              LET u == [row EXCEPT !.job = x] IN Wrote(row, u, {"job"}) /\ u.job = x
         /\ \A x \in BOOLEAN :
              LET u == [row EXCEPT !.reference = x] IN Wrote(row, u, {"reference"}) /\ u.reference = x
         /\ \A x \in SUBSET Images :
              LET u == [row EXCEPT !.rows = x] IN Wrote(row, u, {"rows"}) /\ u.rows = x
         /\ \A x \in SUBSET Images :
              LET u == [row EXCEPT !.complete = x] IN Wrote(row, u, {"complete"}) /\ u.complete = x
         /\ \A x \in BOOLEAN :
              LET u == [row EXCEPT !.index = x] IN Wrote(row, u, {"index"}) /\ u.index = x
         /\ \A x \in BOOLEAN :
              LET u == [row EXCEPT !.submitted = x] IN Wrote(row, u, {"submitted"}) /\ u.submitted = x
         /\ \A x \in 0..Burst :
              LET u == [row EXCEPT !.failures = x] IN Wrote(row, u, {"failures"}) /\ u.failures = x
         /\ \A x \in 0..Burst :
              LET u == [row EXCEPT !.missing = x] IN Wrote(row, u, {"missing"}) /\ u.missing = x
         /\ \A x \in Workers \cup {None} :
              LET u == [row EXCEPT !.token = x] IN Wrote(row, u, {"token"}) /\ u.token = x
         /\ \A x \in BOOLEAN :
              LET u == [row EXCEPT !.until = x] IN Wrote(row, u, {"until"}) /\ u.until = x
  BY DEF Stages, Wrote, StageFields

(* A step that leaves a part of an attempt alone moves it well.            *)
LEMMA QuietStage ==
  ASSUME NEW a \in Attempts, Wrote(stage[a], stage'[a], Quiet)
  PROVE  StageMoves(a)
  BY DEF Wrote, Quiet, StageFields, StageMoves

LEMMA SameStage ==
  ASSUME NEW a \in Attempts, stage'[a] = stage[a]
  PROVE  StageMoves(a)
  BY DEF StageMoves

LEMMA SameRun ==
  ASSUME StagedInv, NEW a \in Attempts, run'[a] = run[a]
  PROVE  RunMoves(a)
  BY DEF StagedInv, AttemptOK, RunMoves

LEMMA SameStores ==
  ASSUME NEW a \in Attempts, UNCHANGED <<objects, lost, files, client>>
  PROVE  Stores(a)
  BY DEF Stores

LEMMA SameActive ==
  ASSUME StagedInv, UNCHANGED run
  PROVE  NewestIsActive'
  BY DEF StagedInv, NewestIsActive, Active

\* A step that writes one stage.
LEMMA StageStep ==
  ASSUME StagedInv, NEW a \in Attempts, NEW row \in Stages, stage' = [stage EXCEPT ![a] = row],
         StageMoves(a), faults' \in 0..MaxFaults,
         UNCHANGED <<client, request, objects, files, run, check, stale, worker, lost>>
  PROVE  Moves
<1>1. stage' \in [Attempts -> Stages] /\ \A b \in Attempts : b # a => stage'[b] = stage[b]
  BY TypesOK
<1>2. TypeOK'
  BY <1>1 DEF StagedInv, TypeOK
<1>3. \A b \in Attempts : StageMoves(b)
  BY <1>1, SameStage
<1>4. \A b \in Attempts : RunMoves(b) /\ Stores(b)
  BY SameRun, SameStores
<1>5. \A r \in request' : RequestMoves(r)
  BY DEF RequestMoves
<1> QED BY <1>2, <1>3, <1>4, <1>5, SameActive DEF Moves

LEMMA QuietStageStep ==
  ASSUME StagedInv, NEW a \in Attempts, NEW row, stage' = [stage EXCEPT ![a] = row],
         Wrote(stage[a], row, Quiet), faults' \in 0..MaxFaults,
         UNCHANGED <<client, request, objects, files, run, check, stale, worker, lost>>
  PROVE  Moves
<1>1. row \in Stages /\ stage'[a] = row
  BY TypesOK DEF Wrote
<1>2. StageMoves(a)
  BY <1>1, QuietStage
<1> QED BY <1>1, <1>2, StageStep

LEMMA NoStageOK == NoStage \in Stages
  BY StagedRunsAssumption DEF NoStage, Stages, None

LEMMA ReserveStagedMoves ==
  ASSUME StagedInv, NEW a \in Attempts, ReserveStagedRun(a)
  PROVE  Moves
<1> DEFINE row == [NoStage EXCEPT !.state = "live"]
<1>1. row \in Stages /\ row.state = "live" /\ ~row.index /\ row.complete = {} /\ ~row.old
  BY NoStageOK DEF NoStage, Stages
<1>2. stage' = [stage EXCEPT ![a] = row] /\ stage[a].state = None
  BY DEF ReserveStagedRun
<1> HIDE DEF row
<1>3. stage'[a] = row
  BY <1>2, TypesOK
<1>4. StageMoves(a)
  BY <1>1, <1>2, <1>3 DEF StageMoves
<1>5. faults' \in 0..MaxFaults
  BY TypesOK DEF ReserveStagedRun
<1> QED BY <1>1, <1>2, <1>4, <1>5, StageStep DEF ReserveStagedRun

LEMMA AddJobMoves ==
  ASSUME StagedInv, NEW a \in Attempts, AddJob(a)
  PROVE  Moves
<1> DEFINE row == [stage[a] EXCEPT !.job = TRUE]
<1>1. Wrote(stage[a], row, {"job"})
  <2>1. stage[a] \in Stages /\ TRUE \in BOOLEAN
    BY TypesOK
  <2> QED BY <2>1, StageWritten
<1>2. stage' = [stage EXCEPT ![a] = row] /\ stage[a].state = "live"
  BY DEF AddJob, Open
<1> HIDE DEF row
<1>3. row \in Stages /\ stage'[a] = row
  BY <1>1, <1>2, TypesOK DEF Wrote
<1>4. StageMoves(a)
  BY <1>1, <1>2, <1>3 DEF StageMoves, Wrote, StageFields
<1>5. faults' \in 0..MaxFaults
  BY TypesOK DEF AddJob
<1> QED BY <1>2, <1>3, <1>4, <1>5, StageStep DEF AddJob

LEMMA QuietMoves ==
  ASSUME StagedInv, NEW a \in Attempts,
         SelectReference(a) \/ SubmitStaged(a) \/ LeaseEnds(a) \/ DeletionLeaseEnds(a)
  PROVE  Moves
<1>1. stage[a] \in Stages /\ TRUE \in BOOLEAN /\ FALSE \in BOOLEAN /\ faults \in 0..MaxFaults
  BY TypesOK
<1>2. UNCHANGED <<client, request, objects, files, run, check, stale, worker, lost>>
  BY DEF SelectReference, SubmitStaged, LeaseEnds, DeletionLeaseEnds
<1>3. faults' \in 0..MaxFaults
  BY <1>1, StagedRunsAssumption DEF SelectReference, SubmitStaged, LeaseEnds, DeletionLeaseEnds
<1>4. CASE SelectReference(a)
  <2> DEFINE row == [stage[a] EXCEPT !.reference = TRUE]
  <2>1. stage' = [stage EXCEPT ![a] = row]
    BY <1>4 DEF SelectReference
  <2>2. Wrote(stage[a], row, {"reference"})
    BY <1>1, StageWritten
  <2> HIDE DEF row
  <2>3. Wrote(stage[a], row, Quiet)
    BY <2>2 DEF Wrote, Quiet
  <2> QED BY <1>2, <1>3, <2>1, <2>3, QuietStageStep
<1>5. CASE SubmitStaged(a)
  <2> DEFINE row == [stage[a] EXCEPT !.submitted = TRUE]
  <2>1. stage' = [stage EXCEPT ![a] = row]
    BY <1>5 DEF SubmitStaged
  <2>2. Wrote(stage[a], row, {"submitted"})
    BY <1>1, StageWritten
  <2> HIDE DEF row
  <2>3. Wrote(stage[a], row, Quiet)
    BY <2>2 DEF Wrote, Quiet
  <2> QED BY <1>2, <1>3, <2>1, <2>3, QuietStageStep
<1>6. CASE LeaseEnds(a)
  <2> DEFINE row == [stage[a] EXCEPT !.lease = FALSE]
  <2>1. stage' = [stage EXCEPT ![a] = row]
    BY <1>6 DEF LeaseEnds
  <2>2. Wrote(stage[a], row, {"lease"})
    BY <1>1, StageWritten
  <2> HIDE DEF row
  <2>3. Wrote(stage[a], row, Quiet)
    BY <2>2 DEF Wrote, Quiet
  <2> QED BY <1>2, <1>3, <2>1, <2>3, QuietStageStep
<1>7. CASE DeletionLeaseEnds(a)
  <2> DEFINE row == [stage[a] EXCEPT !.until = FALSE]
  <2>1. stage' = [stage EXCEPT ![a] = row]
    BY <1>7 DEF DeletionLeaseEnds
  <2>2. Wrote(stage[a], row, {"until"})
    BY <1>1, StageWritten
  <2> HIDE DEF row
  <2>3. Wrote(stage[a], row, Quiet)
    BY <2>2 DEF Wrote, Quiet
  <2> QED BY <1>2, <1>3, <2>1, <2>3, QuietStageStep
<1> QED BY <1>4, <1>5, <1>6, <1>7

LEMMA GetOldMoves ==
  ASSUME StagedInv, NEW a \in Attempts, GetOld(a)
  PROVE  Moves
<1> DEFINE row == [stage[a] EXCEPT !.old = TRUE]
<1>1. Wrote(stage[a], row, {"old"}) /\ row.old
  <2>1. stage[a] \in Stages /\ TRUE \in BOOLEAN
    BY TypesOK
  <2> QED BY <2>1, StageWritten
<1>2. stage' = [stage EXCEPT ![a] = row]
  BY DEF GetOld
<1> HIDE DEF row
<1>3. row \in Stages /\ stage'[a] = row
  BY <1>1, <1>2, TypesOK DEF Wrote
<1>4. StageMoves(a)
  BY <1>1, <1>2, <1>3 DEF GetOld, StageMoves, Wrote, StageFields
<1>5. faults' \in 0..MaxFaults
  BY TypesOK DEF GetOld
<1> QED BY <1>2, <1>3, <1>4, <1>5, StageStep DEF GetOld

-----------------------------------------------------------------------------
(* Requests, and the steps that write no stage.                            *)
\* A step that writes neither stages nor runs, and deletes nothing.
LEMMA StoreStep ==
  ASSUME StagedInv, UNCHANGED <<stage, run, worker>>, TypeOK',
         \A a \in Attempts : Stores(a), \A r \in request' : RequestMoves(r)
  PROVE  Moves
<1>1. \A a \in Attempts : StageMoves(a) /\ RunMoves(a)
  BY SameStage, SameRun
<1> QED BY <1>1, SameActive DEF Moves

LEMMA PutMoves ==
  ASSUME StagedInv, NEW a \in Attempts,
         \/ PutPage(a) \/ PutIndex(a)
         \/ \E i \in Images : ReuseImage(a, i) \/ PutImage(a, i)
  PROVE  Moves
<1>1. UNCHANGED <<client, stage, run, check, stale, worker, faults, lost>> /\ Served(a)
  BY DEF PutPage, PutIndex, ReuseImage, PutImage
<1>2. /\ objects \in [Attempts -> SUBSET Images] /\ files \in [Attempts -> SUBSET {"page", "index"}]
      /\ request \subseteq Requests
  BY TypesOK
<1>3. stage[a].state = "live" /\ client[a] = "running"
  BY <1>1 DEF Served, Open
<1>4. /\ objects' \in [Attempts -> SUBSET Images]
      /\ \A b \in Attempts : objects[b] \subseteq objects'[b] /\ (b # a => objects'[b] = objects[b])
  BY <1>2 DEF PutPage, PutIndex, ReuseImage, PutImage
<1>5. /\ files' \in [Attempts -> SUBSET {"page", "index"}]
      /\ \A b \in Attempts : b # a => files'[b] = files[b]
  BY <1>2 DEF PutPage, PutIndex, ReuseImage, PutImage
<1>6. PICK kind \in {"declare", "upload", "index"} : \E i \in Images :
        /\ request' = request \cup {[attempt |-> a, kind |-> kind, image |-> i]}
        /\ kind = "upload" => i \in objects'[a]
  <2>1. CASE PutPage(a) \/ PutIndex(a)
    BY <2>1 DEF PutPage, PutIndex
  <2>2. CASE \E i \in Images : ReuseImage(a, i) \/ PutImage(a, i)
    BY <1>2, <2>2 DEF ReuseImage, PutImage
  <2> QED BY <2>1, <2>2
<1>7. PICK i \in Images :
        /\ request' = request \cup {[attempt |-> a, kind |-> kind, image |-> i]}
        /\ kind = "upload" => i \in objects'[a]
  BY <1>6
<1> DEFINE new == [attempt |-> a, kind |-> kind, image |-> i]
<1>8. new \in Requests /\ new.attempt = a /\ new.kind = kind /\ new.image = i
  BY <1>6, <1>7 DEF Requests
<1> HIDE DEF new
<1>9. request' = request \cup {new}
  BY <1>7 DEF new
<1>10. TypeOK'
  BY <1>1, <1>2, <1>4, <1>5, <1>8, <1>9 DEF StagedInv, TypeOK
<1>11. \A b \in Attempts : Stores(b)
  BY <1>1, <1>3, <1>4, <1>5 DEF Stores
<1>12. \A r \in request' : RequestMoves(r)
  BY <1>1, <1>3, <1>7, <1>8, <1>9 DEF RequestMoves
<1> QED BY <1>1, <1>10, <1>11, <1>12, StoreStep

LEMMA RequestEndsMoves ==
  ASSUME StagedInv, NEW r \in request, RequestEnds(r)
  PROVE  Moves
<1>1. request' \subseteq request /\ UNCHANGED <<client, stage, objects, files, run, check, stale,
                                               worker, faults, lost>>
  BY DEF RequestEnds
<1>2. TypeOK'
  BY <1>1 DEF StagedInv, TypeOK
<1>3. \A a \in Attempts : Stores(a)
  BY <1>1, SameStores
<1> QED BY <1>1, <1>2, <1>3, StoreStep DEF RequestMoves

LEMMA OutsideMoves ==
  ASSUME StagedInv, NEW a \in Attempts,
         \/ StartJob(a) \/ EndJob(a) \/ BaselineMoves(a) \/ FailCheck(a)
         \/ \E i \in Images : LoseOriginal(a, i)
  PROVE  Moves
<1>1. UNCHANGED <<request, stage, run, files, worker>>
  BY DEF StartJob, EndJob, BaselineMoves, FailCheck, LoseOriginal
<1>2. \A r \in request' : RequestMoves(r)
  BY <1>1 DEF RequestMoves
<1>3. /\ client \in [Attempts -> {"waiting", "running", "over"}]
      /\ objects \in [Attempts -> SUBSET Images] /\ lost \in [Attempts -> SUBSET Images]
      /\ check \in [Attempts -> {"active", "failed"}] /\ stale \subseteq Attempts
      /\ faults \in 0..MaxFaults
  BY TypesOK
<1>4. /\ client' \in [Attempts -> {"waiting", "running", "over"}]
      /\ \A b \in Attempts : client[b] = "over" => client'[b] = "over"
  BY <1>3 DEF StartJob, EndJob, BaselineMoves, FailCheck, LoseOriginal
<1>5. check' \in [Attempts -> {"active", "failed"}] /\ stale' \subseteq Attempts
  BY <1>3 DEF StartJob, EndJob, BaselineMoves, FailCheck, LoseOriginal
<1>6. faults' \in 0..MaxFaults
  BY <1>3, StagedRunsAssumption DEF StartJob, EndJob, BaselineMoves, FailCheck, LoseOriginal
<1>7. /\ objects' \in [Attempts -> SUBSET Images] /\ lost' \in [Attempts -> SUBSET Images]
      /\ \A b \in Attempts : /\ objects[b] \cup lost[b] \subseteq objects'[b] \cup lost'[b]
                            /\ objects'[b] \subseteq objects[b]
  BY <1>3 DEF StartJob, EndJob, BaselineMoves, FailCheck, LoseOriginal
<1>8. TypeOK'
  BY <1>1, <1>4, <1>5, <1>6, <1>7 DEF StagedInv, TypeOK
<1>9. \A b \in Attempts : Stores(b)
  BY <1>1, <1>4, <1>7 DEF Stores
<1> QED BY <1>1, <1>2, <1>8, <1>9, StoreStep

-----------------------------------------------------------------------------
(* The steps of a worker.                                                  *)
\* Places at which a worker relies on nothing that it read.
Plain == Places \ (Deleting \cup {"reserve"})

LEMMA LocalWritten ==
  ASSUME NEW me \in Locals
  PROVE  /\ \A x \in Places : LET u == [me EXCEPT !.place = x] IN
              /\ u \in Locals /\ u.place = x /\ u.attempt = me.attempt
              /\ u.converted = me.converted /\ u.more = me.more
         /\ \A x \in BOOLEAN : LET u == [me EXCEPT !.uploading = x] IN
              /\ u \in Locals /\ u.place = me.place /\ u.attempt = me.attempt
         /\ \A x \in BOOLEAN : LET u == [me EXCEPT !.converted = x] IN
              /\ u \in Locals /\ u.place = me.place /\ u.attempt = me.attempt
              /\ u.converted = x /\ u.more = me.more
         /\ \A x \in BOOLEAN : LET u == [me EXCEPT !.more = x] IN
              /\ u \in Locals /\ u.place = me.place /\ u.attempt = me.attempt
              /\ u.converted = me.converted /\ u.more = x
         /\ \A x \in Attempts : LET u == [me EXCEPT !.attempt = x] IN
              /\ u \in Locals /\ u.place = me.place /\ u.attempt = x
              /\ u.converted = me.converted /\ u.more = me.more
         /\ \A x \in 0..Burst : LET u == [me EXCEPT !.failures = x] IN
              /\ u \in Locals /\ u.place = me.place /\ u.attempt = me.attempt
         /\ \A x \in 0..Burst : LET u == [me EXCEPT !.missing = x] IN
              /\ u \in Locals /\ u.place = me.place /\ u.attempt = me.attempt
  BY DEF Locals

LEMMA IdleOK == /\ Idle \in Locals /\ Idle.place = "idle" /\ ~Idle.more
                /\ Idle.place \in Plain
<1>1. 1 \in Attempts /\ 0 \in 0..Burst
  BY StagedRunsAssumption DEF Attempts
<1>2. Idle.place = "idle" /\ "idle" \in Places /\ "idle" \notin Deleting /\ ~Idle.more
  BY DEF Idle, Places, Deleting
<1> QED BY <1>1, <1>2 DEF Idle, Locals, Plain

\* A worker that goes on with a new value of its local state.
LEMMA WorkerStep ==
  ASSUME StagedInv, NEW w \in Workers, NEW me \in Locals, worker' = [worker EXCEPT ![w] = me]
  PROVE  /\ worker' \in [Workers -> Locals] /\ worker'[w] = me
         /\ \A v \in Workers : v # w => worker'[v] = worker[v]
         /\ me.place \in Plain => \A v \in Workers : worker'[v] = worker[v] \/ WorkerOK(v)'
<1>1. /\ worker' \in [Workers -> Locals] /\ worker'[w] = me
      /\ \A v \in Workers : v # w => worker'[v] = worker[v]
  BY TypesOK
<1>2. ASSUME me.place \in Plain PROVE WorkerOK(w)'
  BY <1>1, <1>2 DEF Plain, WorkerOK, Deleting
<1> QED BY <1>1, <1>2

LEMMA GotoStep ==
  ASSUME StagedInv, NEW w \in Workers, NEW place \in Places, Goto(w, place)
  PROVE  /\ worker' \in [Workers -> Locals]
         /\ worker'[w].place = place /\ worker'[w].attempt = At(w)
         /\ worker'[w].converted = worker[w].converted /\ worker'[w].more = worker[w].more
         /\ \A v \in Workers : v # w => worker'[v] = worker[v]
         /\ place \in Plain => \A v \in Workers : worker'[v] = worker[v] \/ WorkerOK(v)'
<1> DEFINE me == [worker[w] EXCEPT !.place = place]
<1>1. worker[w] \in Locals
  BY TypesOK
<1>2. /\ me \in Locals /\ me.place = place /\ me.attempt = At(w)
      /\ me.converted = worker[w].converted /\ me.more = worker[w].more
  BY <1>1, LocalWritten DEF At
<1>3. worker' = [worker EXCEPT ![w] = me]
  BY DEF Goto
<1> HIDE DEF me
<1> QED BY <1>2, <1>3, WorkerStep

\* A step of a worker that writes neither stores nor requests.
LEMMA SweepStep ==
  ASSUME StagedInv, UNCHANGED <<client, request, objects, files, lost>>,
         TypeOK', NewestIsActive',
         \A a \in Attempts : StageMoves(a) /\ RunMoves(a),
         \A w \in Workers : worker'[w] = worker[w] \/ WorkerOK(w)'
  PROVE  Moves
<1>1. \A a \in Attempts : Stores(a)
  BY SameStores
<1>2. \A r \in request' : RequestMoves(r)
  BY DEF RequestMoves
<1> QED BY <1>1, <1>2 DEF Moves

LEMMA WorkerOnly ==
  ASSUME StagedInv, UNCHANGED <<client, request, stage, objects, files, run, check, stale, lost>>,
         worker' \in [Workers -> Locals], faults' \in 0..MaxFaults,
         \A w \in Workers : worker'[w] = worker[w] \/ WorkerOK(w)'
  PROVE  Moves
<1>1. TypeOK'
  BY DEF StagedInv, TypeOK
<1>2. \A a \in Attempts : StageMoves(a) /\ RunMoves(a)
  BY SameStage, SameRun
<1> QED BY <1>1, <1>2, SameActive, SweepStep

LEMMA SelectStageMoves ==
  ASSUME StagedInv, NEW w \in Workers, NEW a \in Attempts, SelectStage(w, a)
  PROVE  Moves
<1> DEFINE m1 == [Idle EXCEPT !.place = "read"]
           m2 == [m1 EXCEPT !.attempt = a]
           m3 == [m2 EXCEPT !.failures = stage[a].failures]
           me == [m3 EXCEPT !.missing = stage[a].missing]
<1>1. worker' = [worker EXCEPT ![w] = me]
  BY Zenon DEF SelectStage
<1>2. "read" \in Places /\ "read" \in Plain
  BY DEF Places, Plain, Deleting
<1>3. stage[a].failures \in 0..Burst /\ stage[a].missing \in 0..Burst
  BY TypesOK DEF Stages
<1>4. m1 \in Locals /\ m1.place = "read"
  BY <1>2, IdleOK, LocalWritten
<1> HIDE DEF m1
<1>5. m2 \in Locals /\ m2.place = "read"
  BY <1>4, LocalWritten
<1> HIDE DEF m2
<1>6. m3 \in Locals /\ m3.place = "read"
  BY <1>3, <1>5, LocalWritten
<1> HIDE DEF m3
<1>7. me \in Locals /\ me.place = "read"
  BY <1>3, <1>6, LocalWritten
<1> HIDE DEF me
<1>8. /\ worker' \in [Workers -> Locals]
      /\ \A v \in Workers : worker'[v] = worker[v] \/ WorkerOK(v)'
  BY <1>1, <1>2, <1>7, WorkerStep
<1>9. faults' \in 0..MaxFaults
  BY TypesOK DEF SelectStage
<1> QED BY <1>8, <1>9, WorkerOnly DEF SelectStage

LEMMA ReadRunMoves ==
  ASSUME StagedInv, NEW w \in Workers, ReadRun(w)
  PROVE  Moves
<1>1. PICK x \in BOOLEAN, y \in Plain :
        worker' = [worker EXCEPT ![w].uploading = x, ![w].place = y]
  BY DEF ReadRun, Plain, Places, Converting, Deleting
<1> DEFINE m1 == [worker[w] EXCEPT !.uploading = x]
           me == [m1 EXCEPT !.place = y]
<1>2. worker' = [worker EXCEPT ![w] = me]
  BY <1>1, TypesOK
<1>3. worker[w] \in Locals /\ y \in Places
  BY TypesOK DEF Plain
<1>4. m1 \in Locals
  BY <1>3, LocalWritten
<1> HIDE DEF m1
<1>5. me \in Locals /\ me.place = y
  BY <1>3, <1>4, LocalWritten
<1> HIDE DEF me
<1>6. /\ worker' \in [Workers -> Locals]
      /\ \A v \in Workers : worker'[v] = worker[v] \/ WorkerOK(v)'
  BY <1>1, <1>2, <1>5, WorkerStep
<1>7. faults' \in 0..MaxFaults
  BY TypesOK DEF ReadRun
<1> QED BY <1>6, <1>7, WorkerOnly DEF ReadRun

LEMMA ReconcileMoves ==
  ASSUME StagedInv, NEW w \in Workers, ReconcileJobs(w)
  PROVE  Moves
<1>1. PICK place \in {"reserve", "incomplete"} :
        /\ Goto(w, place)
        /\ place = "reserve" => stage[At(w)].state = "live" /\ stage[At(w)].index
  BY DEF ReconcileJobs
<1>2. place \in Places
  BY DEF Places, Converting
<1>3. /\ worker' \in [Workers -> Locals]
      /\ worker'[w].place = place /\ worker'[w].attempt = At(w)
      /\ \A v \in Workers : v # w => worker'[v] = worker[v]
  BY <1>1, <1>2, GotoStep
<1>4. UNCHANGED <<client, request, stage, objects, files, run, check, stale, faults, lost>>
  BY DEF ReconcileJobs
<1>5. WorkerOK(w)'
  BY <1>1, <1>3, <1>4 DEF WorkerOK, Deleting
<1>6. faults' \in 0..MaxFaults
  BY <1>4, TypesOK
<1> QED BY <1>3, <1>4, <1>5, <1>6, WorkerOnly

LEMMA LookMoves ==
  ASSUME StagedInv, NEW w \in Workers, VerifyImages(w) \/ TransientFailure(w) \/ Stop(w)
  PROVE  Moves
<1>1. faults' \in 0..MaxFaults
  BY TypesOK, StagedRunsAssumption DEF VerifyImages, TransientFailure, Stop
<1>2. UNCHANGED <<client, request, stage, objects, files, run, check, stale, lost>>
  BY DEF VerifyImages, TransientFailure, Stop
<1>3. CASE Stop(w)
  <2>1. worker' = [worker EXCEPT ![w] = Idle]
    BY <1>3 DEF Stop
  <2>2. /\ worker' \in [Workers -> Locals]
        /\ \A v \in Workers : worker'[v] = worker[v] \/ WorkerOK(v)'
    BY <2>1, IdleOK, WorkerStep
  <2> QED BY <1>1, <1>2, <2>2, WorkerOnly
<1>4. CASE VerifyImages(w) \/ TransientFailure(w)
  <2>1. PICK place \in {"stale", "incomplete", "store", "missing"} : Goto(w, place)
    BY <1>4 DEF VerifyImages, TransientFailure
  <2>2. place \in Places /\ place \in Plain
    BY DEF Places, Plain, Converting, Deleting
  <2>3. /\ worker' \in [Workers -> Locals]
        /\ \A v \in Workers : worker'[v] = worker[v] \/ WorkerOK(v)'
    BY <2>1, <2>2, GotoStep
  <2> QED BY <1>1, <1>2, <2>3, WorkerOnly
<1> QED BY <1>3, <1>4

-----------------------------------------------------------------------------
(* The steps that write a run.                                             *)
StagesMove == stage' \in [Attempts -> Stages] /\ \A a \in Attempts : StageMoves(a)
RunsMove ==
  run' \in [Attempts -> Runs] /\ NewestIsActive' /\ \A a \in Attempts : RunMoves(a)
WorkersMove ==
  worker' \in [Workers -> Locals] /\ \A w \in Workers : worker'[w] = worker[w] \/ WorkerOK(w)'

LEMMA Together ==
  ASSUME StagedInv, StagesMove, RunsMove, WorkersMove,
         UNCHANGED <<client, request, objects, files, stale, faults, lost>>,
         check' \in [Attempts -> {"active", "failed"}]
  PROVE  Moves
<1>1. TypeOK'
  BY DEF StagedInv, TypeOK, StagesMove, RunsMove, WorkersMove
<1> QED BY <1>1, SweepStep DEF StagesMove, RunsMove, WorkersMove

LEMMA StagesStay ==
  ASSUME StagedInv, UNCHANGED stage
  PROVE  StagesMove
  BY TypesOK, SameStage DEF StagesMove

LEMMA RunsStay ==
  ASSUME StagedInv, UNCHANGED run
  PROVE  RunsMove
  BY TypesOK, SameRun, SameActive DEF RunsMove

LEMMA WorkersStay ==
  ASSUME StagedInv, UNCHANGED worker
  PROVE  WorkersMove
  BY TypesOK DEF WorkersMove

LEMMA WorkerGoes ==
  ASSUME StagedInv, NEW w \in Workers, NEW place \in Plain, Goto(w, place)
  PROVE  WorkersMove
<1>1. place \in Places
  BY DEF Plain
<1> QED BY <1>1, GotoStep DEF WorkersMove

LEMMA WorkerIdles ==
  ASSUME StagedInv, NEW w \in Workers, worker' = [worker EXCEPT ![w] = Idle]
  PROVE  WorkersMove
  BY IdleOK, WorkerStep DEF WorkersMove

LEMMA OneQuietStage ==
  ASSUME StagedInv, NEW a \in Attempts, NEW row, stage' = [stage EXCEPT ![a] = row],
         Wrote(stage[a], row, Quiet)
  PROVE  StagesMove
<1>1. row \in Stages
  BY DEF Wrote
<1>2. stage' \in [Attempts -> Stages] /\ stage'[a] = row
        /\ \A b \in Attempts : b # a => stage'[b] = stage[b]
  BY <1>1, TypesOK
<1> QED BY <1>2, QuietStage, SameStage DEF StagesMove

LEMMA PlainPlaces ==
  {"idle", "read", "finish", "stale", "missing", "incomplete", "reconcile",
   "register", "store", "commit", "seal", "compare"} \subseteq Plain
  BY DEF Plain, Places, Converting, Deleting

\* A run that was admitted goes on, and is not opened again.
LEMMA RunWrite ==
  ASSUME StagedInv, NEW a \in Attempts, NEW row \in Runs, run' = [run EXCEPT ![a] = row],
         run[a].state # None, row.state # None, row.state # "closed" => run[a].state # "closed",
         row.shard => row.images = Images,
         row.sealed => run[a].sealed \/ (run[a].state = "uploading" /\ run[a].shard)
  PROVE  RunsMove
<1>1. /\ run' \in [Attempts -> Runs] /\ run'[a] = row
      /\ \A b \in Attempts : b # a => run'[b] = run[b]
  BY TypesOK
<1>2. \A b \in Attempts : RunMoves(b)
  BY <1>1, SameRun DEF RunMoves
<1>3. \A b \in Attempts : (Active(b)' => Active(b)) /\ (run[b].state = None => run'[b].state = None)
  BY <1>1 DEF Active
<1>4. NewestIsActive'
  BY <1>3 DEF StagedInv, NewestIsActive
<1> QED BY <1>1, <1>2, <1>4 DEF RunsMove

LEMMA RunWritten ==
  ASSUME NEW row \in Runs
  PROVE  /\ \A x \in RunStates : LET u == [row EXCEPT !.state = x] IN
              /\ u \in Runs /\ u.state = x /\ u.sealed = row.sealed
              /\ u.images = row.images /\ u.shard = row.shard
         /\ LET u == [row EXCEPT !.sealed = TRUE] IN
              /\ u \in Runs /\ u.state = row.state /\ u.sealed
              /\ u.images = row.images /\ u.shard = row.shard
         /\ LET u == [row EXCEPT !.images = Images] IN
              /\ u \in Runs /\ u.state = row.state /\ u.sealed = row.sealed
              /\ u.images = Images /\ u.shard = row.shard
         /\ LET u == [row EXCEPT !.shard = TRUE] IN
              /\ u \in Runs /\ u.state = row.state /\ u.sealed = row.sealed
              /\ u.images = row.images /\ u.shard = TRUE
  BY DEF Runs

\* A run changes its state.
LEMMA RunTurns ==
  ASSUME StagedInv, NEW a \in Attempts, NEW x \in RunStates \ {None},
         run' = [run EXCEPT ![a].state = x], run[a].state # None,
         x # "closed" => run[a].state # "closed"
  PROVE  RunsMove
<1> DEFINE row == [run[a] EXCEPT !.state = x]
<1>1. run[a] \in Runs /\ x \in RunStates
  BY TypesOK
<1>2. /\ row \in Runs /\ row.state = x /\ row.sealed = run[a].sealed
      /\ row.images = run[a].images /\ row.shard = run[a].shard
  BY <1>1, RunWritten
<1>3. run' = [run EXCEPT ![a] = row]
  OBVIOUS
<1> HIDE DEF row
<1>4. run[a].shard => run[a].images = Images
  BY DEF StagedInv, AttemptOK
<1> QED BY <1>2, <1>3, <1>4, RunWrite

LEMMA CloseMoves ==
  ASSUME StagedInv, NEW a \in Attempts, RetireRun(a) \/ ExpireIncomplete(a)
  PROVE  Moves
<1>1. /\ Active(a) /\ run' = [run EXCEPT ![a].state = "closed"]
      /\ UNCHANGED <<client, request, stage, objects, files, stale, worker, faults, lost>>
  BY DEF RetireRun, ExpireIncomplete
<1>2. "closed" \in RunStates \ {None}
  BY DEF RunStates, None
<1>3. RunsMove
  BY <1>1, <1>2, RunTurns DEF Active
<1>4. check' \in [Attempts -> {"active", "failed"}]
  BY TypesOK DEF RetireRun, ExpireIncomplete
<1> QED BY <1>1, <1>3, <1>4, StagesStay, WorkersStay, Together

LEMMA LeaseSourcesMoves ==
  ASSUME StagedInv, NEW w \in Workers, LeaseSources(w)
  PROVE  Moves
<1> DEFINE row == [stage[At(w)] EXCEPT !.lease = TRUE]
<1>1. stage[At(w)] \in Stages /\ TRUE \in BOOLEAN /\ At(w) \in Attempts
  BY TypesOK
<1>2. Wrote(stage[At(w)], row, {"lease"})
  BY <1>1, StageWritten
<1>3. stage' = [stage EXCEPT ![At(w)] = row] \/ UNCHANGED stage
  BY DEF LeaseSources
<1> HIDE DEF row
<1>4. Wrote(stage[At(w)], row, Quiet)
  BY <1>2 DEF Wrote, Quiet
<1>5. StagesMove
  BY <1>1, <1>3, <1>4, OneQuietStage, StagesStay
<1>6. PICK place \in Plain : Goto(w, place)
  BY PlainPlaces DEF LeaseSources
<1>7. WorkersMove
  BY <1>6, WorkerGoes
<1>8. check' \in [Attempts -> {"active", "failed"}]
  BY TypesOK DEF LeaseSources
<1>9. RunsMove
  BY RunsStay DEF LeaseSources
<1> QED BY <1>5, <1>7, <1>8, <1>9, Together DEF LeaseSources

LEMMA RegisterMoves ==
  ASSUME StagedInv, NEW w \in Workers, RegisterImages(w)
  PROVE  Moves
<1>1. PICK place \in Plain : Goto(w, place)
  BY PlainPlaces DEF RegisterImages
<1>2. RunsMove
  <2>1. CASE UNCHANGED run
    BY <2>1, RunsStay
  <2>2. CASE /\ run[At(w)].state = "uploading"
             /\ run' = [run EXCEPT ![At(w)].images = Images]
    <3> DEFINE row == [run[At(w)] EXCEPT !.images = Images]
    <3>1. run[At(w)] \in Runs /\ At(w) \in Attempts
      BY TypesOK
    <3>2. /\ row \in Runs /\ row.state = run[At(w)].state /\ row.images = Images
          /\ row.sealed = run[At(w)].sealed
      BY <3>1, RunWritten
    <3>3. run' = [run EXCEPT ![At(w)] = row]
      BY <2>2
    <3> HIDE DEF row
    <3>4. run[At(w)].state # None
      BY <2>2 DEF None
    <3> QED BY <3>1, <3>2, <3>3, <3>4, RunWrite
  <2> QED BY <2>1, <2>2 DEF RegisterImages
<1>3. WorkersMove
  BY <1>1, WorkerGoes
<1>4. check' \in [Attempts -> {"active", "failed"}]
  BY TypesOK DEF RegisterImages
<1>5. StagesMove
  BY StagesStay DEF RegisterImages
<1> QED BY <1>2, <1>3, <1>4, <1>5, Together DEF RegisterImages

LEMMA CommitMoves ==
  ASSUME StagedInv, NEW w \in Workers, CommitShard(w)
  PROVE  Moves
<1>1. PICK place \in Plain : Goto(w, place)
  BY PlainPlaces DEF CommitShard
<1>2. RunsMove
  <2>1. CASE UNCHANGED run
    BY <2>1, RunsStay
  <2>2. CASE /\ Active(At(w)) /\ run[At(w)].images = Images
             /\ run' = [run EXCEPT ![At(w)].shard = TRUE]
    <3> DEFINE row == [run[At(w)] EXCEPT !.shard = TRUE]
    <3>1. run[At(w)] \in Runs /\ At(w) \in Attempts
      BY TypesOK
    <3>2. /\ row \in Runs /\ row.state = run[At(w)].state /\ row.images = Images
          /\ row.sealed = run[At(w)].sealed
      BY <2>2, <3>1, RunWritten
    <3>3. run' = [run EXCEPT ![At(w)] = row]
      BY <2>2
    <3> HIDE DEF row
    <3>4. run[At(w)].state # None
      BY <2>2 DEF Active
    <3> QED BY <3>1, <3>2, <3>3, <3>4, RunWrite
  <2> QED BY <2>1, <2>2 DEF CommitShard
<1>3. WorkersMove
  BY <1>1, WorkerGoes
<1>4. check' \in [Attempts -> {"active", "failed"}]
  BY TypesOK DEF CommitShard
<1>5. StagesMove
  BY StagesStay DEF CommitShard
<1> QED BY <1>2, <1>3, <1>4, <1>5, Together DEF CommitShard

LEMMA SealMoves ==
  ASSUME StagedInv, NEW w \in Workers, SealRun(w)
  PROVE  Moves
<1>1. PICK place \in Plain : Goto(w, place)
  BY PlainPlaces DEF SealRun
<1>2. RunsMove
  <2>1. CASE UNCHANGED run
    BY <2>1, RunsStay
  <2>2. CASE /\ run[At(w)].state = "uploading" /\ run[At(w)].shard
             /\ run' = [run EXCEPT ![At(w)].state = "comparing", ![At(w)].sealed = TRUE]
    <3> DEFINE turned == [run[At(w)] EXCEPT !.state = "comparing"]
               row == [turned EXCEPT !.sealed = TRUE]
    <3>1. run[At(w)] \in Runs /\ At(w) \in Attempts /\ "comparing" \in RunStates
      BY TypesOK DEF RunStates
    <3>2. /\ turned \in Runs /\ turned.state = "comparing"
          /\ turned.images = run[At(w)].images /\ turned.shard = run[At(w)].shard
      BY <3>1, RunWritten
    <3>3. run' = [run EXCEPT ![At(w)] = row]
      BY <2>2, TypesOK
    <3> HIDE DEF turned
    <3>4. /\ row \in Runs /\ row.state = "comparing"
          /\ row.images = run[At(w)].images /\ row.shard = run[At(w)].shard
      BY <3>2, RunWritten
    <3> HIDE DEF row
    <3>5. run[At(w)].state # None /\ "comparing" # None /\ run[At(w)].images = Images
      BY <2>2, <3>1 DEF None, StagedInv, AttemptOK
    <3> QED BY <2>2, <3>1, <3>3, <3>4, <3>5, RunWrite
  <2> QED BY <2>1, <2>2 DEF SealRun
<1>3. WorkersMove
  BY <1>1, WorkerGoes
<1>4. check' \in [Attempts -> {"active", "failed"}]
  BY TypesOK DEF SealRun
<1>5. StagesMove
  BY StagesStay DEF SealRun
<1> QED BY <1>2, <1>3, <1>4, <1>5, Together DEF SealRun

LEMMA CompareMoves ==
  ASSUME StagedInv, NEW w \in Workers, CreateComparison(w)
  PROVE  Moves
<1>1. PICK place \in Plain : Goto(w, place)
  BY PlainPlaces DEF CreateComparison
<1>2. At(w) \in Attempts /\ "compared" \in RunStates \ {None}
  BY TypesOK DEF RunStates, None
<1>3. \/ UNCHANGED run
      \/ /\ run[At(w)].state = "comparing"
         /\ run' = [run EXCEPT ![At(w)].state = "compared"]
  BY DEF CreateComparison
<1>4. RunsMove
  BY <1>2, <1>3, RunsStay, RunTurns DEF None
<1>5. WorkersMove
  BY <1>1, WorkerGoes
<1>6. check' \in [Attempts -> {"active", "failed"}]
  BY TypesOK DEF CreateComparison
<1>7. StagesMove
  BY StagesStay DEF CreateComparison
<1> QED BY <1>4, <1>5, <1>6, <1>7, Together DEF CreateComparison

LEMMA SweepEndsMoves ==
  ASSUME StagedInv, NEW w \in Workers, Finish(w) \/ CountFailure(w)
  PROVE  Moves
<1>1. worker[w].failures \in 0..Burst /\ worker[w].missing \in 0..Burst /\ 0 \in 0..Burst
  BY TypesOK, StagedRunsAssumption DEF Locals
<1>2. More(worker[w].failures) \in 0..Burst /\ More(worker[w].missing) \in 0..Burst
  BY <1>1, StagedRunsAssumption DEF More
<1>3. PICK f \in 0..Burst, m \in 0..Burst : SweepEnds(w, f, m)
  BY <1>1, <1>2 DEF Finish, CountFailure
<1> DEFINE failed == [stage[At(w)] EXCEPT !.failures = f]
           row == [failed EXCEPT !.missing = m]
<1>4. stage[At(w)] \in Stages /\ At(w) \in Attempts
  BY TypesOK
<1>5. stage' = [stage EXCEPT ![At(w)] = row]
  BY <1>3, <1>4, TypesOK DEF SweepEnds
<1>6. Wrote(stage[At(w)], failed, {"failures"})
  BY <1>4, StageWritten
<1> HIDE DEF failed
<1>7. Wrote(failed, row, {"missing"})
  <2>1. failed \in Stages
    BY <1>6 DEF Wrote
  <2> QED BY <2>1, StageWritten
<1> HIDE DEF row
<1>8. Wrote(stage[At(w)], row, Quiet)
  BY <1>6, <1>7 DEF Wrote, Quiet
<1>9. StagesMove
  BY <1>4, <1>5, <1>8, OneQuietStage
<1>10. "failed" \in RunStates \ {None}
  BY DEF RunStates, None
<1>11. \/ UNCHANGED run
       \/ /\ run[At(w)].state = "uploading"
          /\ run' = [run EXCEPT ![At(w)].state = "failed"]
  BY DEF Finish, CountFailure
<1>12. RunsMove
  BY <1>4, <1>10, <1>11, RunsStay, RunTurns DEF None
<1>13. WorkersMove
  BY <1>3, WorkerIdles DEF SweepEnds
<1>14. UNCHANGED <<client, request, objects, files, check, stale, faults, lost>>
  BY <1>3 DEF SweepEnds
<1>15. check' \in [Attempts -> {"active", "failed"}]
  BY <1>14, TypesOK
<1> QED BY <1>9, <1>12, <1>13, <1>14, <1>15, Together

\* The attempts before the one that is admitted are closed.
LEMMA AdmitMoves ==
  ASSUME StagedInv, NEW a \in Attempts, Admit(a), Admissible(a), stage[a].index,
         run[a].state = None, UNCHANGED <<stage, objects, lost>>
  PROVE  RunsMove
<1> DEFINE opened == [NoRun EXCEPT !.state = "uploading"]
<1>1. opened \in Runs /\ opened.state = "uploading" /\ ~opened.shard /\ ~opened.sealed
  BY DEF NoRun, Runs, RunStates
<1>2. \A b \in Attempts : LET shut == [run[b] EXCEPT !.state = "closed"] IN
        /\ shut \in Runs /\ shut.state = "closed" /\ shut.sealed = run[b].sealed
        /\ shut.images = run[b].images /\ shut.shard = run[b].shard
  BY TypesOK, RunWritten DEF RunStates
<1>3. run'[a] = opened
  BY DEF Admit
<1>4. \A b \in Attempts : b # a => \/ run'[b] = run[b] /\ ~Active(b)
                                   \/ run'[b] = [run[b] EXCEPT !.state = "closed"] /\ Active(b)
  BY DEF Admit
<1> HIDE DEF opened
<1>5. \A b \in Attempts : run'[b] \in Runs
  BY <1>1, <1>2, <1>3, <1>4, TypesOK
<1>6. run' \in [Attempts -> Runs]
  BY <1>5 DEF Admit
<1>7. \A b \in Attempts : b # a => /\ ~Active(b)'
                                   /\ run'[b].state = None <=> run[b].state = None
                                   /\ run'[b].sealed = run[b].sealed
                                   /\ run'[b].images = run[b].images /\ run'[b].shard = run[b].shard
  BY <1>2, <1>4 DEF Active, None
<1>8. NewestIsActive'
  <2>1. \A b \in Attempts : b > a => run[b].state = None /\ b # a
    BY DEF Admissible, Attempts
  <2> QED BY <1>7, <2>1 DEF NewestIsActive
<1>9. \A b \in Attempts : run[b].shard => run[b].images = Images
  BY DEF StagedInv, AttemptOK
<1>10. RunMoves(a)
  BY <1>1, <1>3 DEF RunMoves, Admissible, None
<1>11. \A b \in Attempts : b # a => RunMoves(b)
  BY <1>7, <1>9 DEF RunMoves
<1> QED BY <1>6, <1>8, <1>10, <1>11 DEF RunsMove

LEMMA ReserveMoves ==
  ASSUME StagedInv, NEW w \in Workers, Reserve(w)
  PROVE  Moves
<1>1. /\ worker[w].place = "reserve"
      /\ UNCHANGED <<client, request, stage, objects, files, check, stale, faults, lost>>
  BY DEF Reserve
<1>2. PICK place \in Plain : Goto(w, place)
  BY PlainPlaces DEF Reserve
<1>3. RunsMove
  <2>1. CASE UNCHANGED run
    BY <2>1, RunsStay
  <2>2. CASE run[At(w)].state = None /\ Admissible(At(w)) /\ Admit(At(w))
    <3>1. WorkerOK(w) /\ At(w) \in Attempts
      BY TypesOK DEF StagedInv
    <3>2. stage[At(w)].index
      BY <1>1, <2>2, <3>1 DEF WorkerOK, At, Admissible
    <3> QED BY <1>1, <2>2, <3>1, <3>2, AdmitMoves
  <2> QED BY <2>1, <2>2 DEF Reserve
<1>4. WorkersMove
  BY <1>2, WorkerGoes
<1>5. check' \in [Attempts -> {"active", "failed"}]
  BY <1>1, TypesOK
<1> QED BY <1>1, <1>3, <1>4, <1>5, StagesStay, Together

-----------------------------------------------------------------------------
(* A request settles.                                                      *)
LEMMA SettleMoves ==
  ASSUME StagedInv, NEW r \in request, SettleRequest(r)
  PROVE  Moves
<1> DEFINE a == r.attempt
<1>1. /\ request' \subseteq request
      /\ UNCHANGED <<client, objects, files, run, check, stale, worker, faults, lost>>
  BY DEF SettleRequest
<1>2. a \in Attempts /\ r.image \in Images /\ r \in Requests
  BY TypesOK DEF Requests
<1>3. stage[a] \in Stages /\ stage \in [Attempts -> Stages] /\ TRUE \in BOOLEAN
  BY <1>2, TypesOK
<1>4. AttemptOK(a) /\ RequestOK(r)
  BY <1>2 DEF StagedInv
<1>5. stage[a].rows \in SUBSET Images /\ stage[a].complete \in SUBSET Images
  BY <1>3 DEF Stages
<1>6. stage[a].state = "live" => stage[a].complete \subseteq objects[a] \cup lost[a]
  BY <1>4 DEF AttemptOK
<1>7. PICK row \in Stages :
        /\ stage' = [stage EXCEPT ![a] = row]
        /\ stage[a].state = "live" /\ row.state = "live" /\ row.old = stage[a].old
        /\ row.complete \subseteq objects[a] \cup lost[a]
        /\ stage[a].index => row.index
        /\ row.index => row.complete = Images
  <2>1. ASSUME NEW rows \in SUBSET Images, NEW complete \in SUBSET Images,
               RowsChange(a, rows, complete), complete \subseteq objects[a] \cup lost[a]
        PROVE  \E row \in Stages :
                 /\ stage' = [stage EXCEPT ![a] = row]
                 /\ stage[a].state = "live" /\ row.state = "live" /\ row.old = stage[a].old
                 /\ row.complete \subseteq objects[a] \cup lost[a]
                 /\ stage[a].index => row.index
                 /\ row.index => row.complete = Images
    <3> DEFINE filled == [stage[a] EXCEPT !.rows = rows]
               row == [filled EXCEPT !.complete = complete]
    <3>1. stage' = [stage EXCEPT ![a] = row]
      BY <1>2, <1>3, <2>1 DEF RowsChange
    <3>2. Wrote(stage[a], filled, {"rows"})
      BY <1>3, StageWritten
    <3> HIDE DEF filled
    <3>3. Wrote(filled, row, {"complete"}) /\ row.complete = complete
      <4>1. filled \in Stages
        BY <3>2 DEF Wrote
      <4> QED BY <4>1, StageWritten
    <3> HIDE DEF row
    <3>4. /\ row \in Stages /\ row.state = stage[a].state /\ row.old = stage[a].old
          /\ row.index = stage[a].index
      BY <3>2, <3>3 DEF Wrote, StageFields
    <3>5. stage[a].state = "live" /\ ~stage[a].index
      BY <2>1 DEF RowsChange, Open
    <3> QED BY <2>1, <3>1, <3>3, <3>4, <3>5
  <2>2. CASE r.kind = "declare" /\ RowsChange(a, stage[a].rows \cup {r.image}, stage[a].complete)
    <3>1. stage[a].rows \cup {r.image} \in SUBSET Images
      BY <1>2, <1>5
    <3>2. stage[a].complete \subseteq objects[a] \cup lost[a]
      BY <1>6, <2>2 DEF RowsChange, Open
    <3> QED BY <1>5, <2>1, <2>2, <3>1, <3>2
  <2>3. CASE r.kind = "upload" /\ RowsChange(a, stage[a].rows, stage[a].complete \cup {r.image})
    <3>1. stage[a].complete \cup {r.image} \in SUBSET Images
      BY <1>2, <1>5
    <3>2. stage[a].complete \cup {r.image} \subseteq objects[a] \cup lost[a]
      BY <1>4, <1>6, <2>3 DEF RowsChange, Open, RequestOK
    <3> QED BY <1>5, <2>1, <2>3, <3>1, <3>2
  <2>4. CASE /\ Open(a) /\ PagesAreComplete(a)
             /\ stage' = [stage EXCEPT ![a].index = TRUE]
    <3> DEFINE row == [stage[a] EXCEPT !.index = TRUE]
    <3>1. stage' = [stage EXCEPT ![a] = row]
      BY <2>4
    <3>2. Wrote(stage[a], row, {"index"}) /\ row.index = TRUE
      BY <1>3, StageWritten
    <3> HIDE DEF row
    <3>3. /\ row \in Stages /\ row.state = stage[a].state /\ row.old = stage[a].old
          /\ row.complete = stage[a].complete
      BY <3>2 DEF Wrote, StageFields
    <3>4. stage[a].state = "live" /\ stage[a].complete = Images
      BY <2>4 DEF Open, PagesAreComplete
    <3> QED BY <1>6, <3>1, <3>2, <3>3, <3>4
  <2> QED BY <2>2, <2>3, <2>4 DEF SettleRequest, Settle
<1>8. stage' \in [Attempts -> Stages] /\ stage'[a] = row
        /\ \A b \in Attempts : b # a => stage'[b] = stage[b]
  BY <1>2, <1>3, <1>7
<1>9. \A b \in Attempts : StageMoves(b)
  BY <1>7, <1>8, SameStage DEF StageMoves
<1>10. TypeOK'
  BY <1>1, <1>8 DEF StagedInv, TypeOK
<1>11. \A b \in Attempts : RunMoves(b) /\ Stores(b)
  BY <1>1, SameRun, SameStores
<1>12. NewestIsActive'
  BY <1>1, SameActive
<1> QED BY <1>1, <1>9, <1>10, <1>11, <1>12 DEF Moves, RequestMoves

-----------------------------------------------------------------------------
(* The deletion of a stage.                                                *)
LEMMA DeletionStep ==
  ASSUME StagedInv, StagesMove, WorkersMove,
         UNCHANGED <<client, request, run, check, stale, faults, lost>>,
         objects' \in [Attempts -> SUBSET Images],
         files' \in [Attempts -> SUBSET {"page", "index"}],
         \A a \in Attempts : Stores(a)
  PROVE  Moves
<1>1. RunsMove
  BY RunsStay
<1>2. TypeOK'
  BY <1>1 DEF StagedInv, TypeOK, StagesMove, RunsMove, WorkersMove
<1>3. \A r \in request' : RequestMoves(r)
  BY DEF RequestMoves
<1> QED BY <1>1, <1>2, <1>3 DEF Moves, StagesMove, RunsMove, WorkersMove

LEMMA DeletingPlaces ==
  /\ "claimed" \in Deleting /\ "originals" \in Deleting /\ "files" \in Deleting
  /\ "rows" \in Deleting /\ "release" \in Deleting /\ Deleting \subseteq Places
  /\ "reserve" \notin Deleting
  BY DEF Deleting, Places

LEMMA ClaimMoves ==
  ASSUME StagedInv, NEW w \in Workers, NEW a \in Attempts, ClaimDeletion(w, a)
  PROVE  Moves
<1> DEFINE s1 == [stage[a] EXCEPT !.state = "deleting"]
           s2 == [s1 EXCEPT !.token = w]
           row == [s2 EXCEPT !.until = TRUE]
           m1 == [Idle EXCEPT !.place = "claimed"]
           me == [m1 EXCEPT !.attempt = a]
<1>1. stage' = [stage EXCEPT ![a] = row] /\ worker' = [worker EXCEPT ![w] = me]
  <2>1. stage' = [stage EXCEPT ![a] = row]
    BY TypesOK DEF ClaimDeletion
  <2>2. worker' = [worker EXCEPT ![w] = me]
    BY Zenon DEF ClaimDeletion
  <2> QED BY <2>1, <2>2
<1>2. /\ stage[a].old /\ stage[a].state \in {"live", "deleting"} /\ stage[a] \in Stages
      /\ UNCHANGED <<client, request, objects, files, run, check, stale, faults, lost>>
  BY TypesOK DEF ClaimDeletion, Deletable
<1>3. Wrote(stage[a], s1, {"state"}) /\ s1.state = "deleting"
  <2>1. stage[a] \in Stages /\ "deleting" \in {None, "live", "deleting", "deleted"}
    BY <1>2
  <2> QED BY <2>1, StageWritten
<1> HIDE DEF s1
<1>4. Wrote(s1, s2, {"token"})
  <2>1. s1 \in Stages /\ w \in Workers \cup {None}
    BY <1>3 DEF Wrote
  <2> QED BY <2>1, StageWritten
<1> HIDE DEF s2
<1>5. Wrote(s2, row, {"until"})
  <2>1. s2 \in Stages /\ TRUE \in BOOLEAN
    BY <1>4 DEF Wrote
  <2> QED BY <2>1, StageWritten
<1> HIDE DEF row
<1>6. row \in Stages /\ row.state = "deleting" /\ row.old
  BY <1>2, <1>3, <1>4, <1>5 DEF Wrote, StageFields
<1>7. stage' \in [Attempts -> Stages] /\ stage'[a] = row
        /\ \A b \in Attempts : b # a => stage'[b] = stage[b]
  BY <1>1, <1>6, TypesOK
<1>8. StagesMove
  BY <1>2, <1>6, <1>7, SameStage DEF StagesMove, StageMoves
<1>9. m1 \in Locals /\ m1.place = "claimed" /\ ~m1.more
  BY IdleOK, DeletingPlaces, LocalWritten
<1> HIDE DEF m1
<1>10. me \in Locals /\ me.place = "claimed" /\ me.attempt = a /\ ~me.more
  BY <1>9, LocalWritten
<1> HIDE DEF me
<1>11. /\ worker' \in [Workers -> Locals] /\ worker'[w] = me
       /\ \A v \in Workers : v # w => worker'[v] = worker[v]
  BY <1>1, <1>10, WorkerStep
<1>12. WorkerOK(w)'
  BY <1>6, <1>7, <1>10, <1>11 DEF WorkerOK
<1>13. WorkersMove
  BY <1>11, <1>12 DEF WorkersMove
<1>14. check' \in [Attempts -> {"active", "failed"}]
  BY <1>2, TypesOK
<1> QED BY <1>2, <1>8, <1>13, <1>14, RunsStay, Together

LEMMA ReadMaterializedMoves ==
  ASSUME StagedInv, NEW w \in Workers, ReadMaterialized(w)
  PROVE  Moves
<1>1. PICK x \in BOOLEAN : x = (run[At(w)].state # None)
  OBVIOUS
<1> DEFINE m1 == [worker[w] EXCEPT !.converted = x]
           me == [m1 EXCEPT !.place = "originals"]
<1>2. worker[w] \in Locals /\ WorkerOK(w) /\ worker[w].place = "claimed"
  BY TypesOK DEF StagedInv, ReadMaterialized
<1>3. worker' = [worker EXCEPT ![w] = me]
  BY <1>1, TypesOK DEF ReadMaterialized
<1>4. m1 \in Locals /\ m1.attempt = At(w) /\ m1.converted = x /\ m1.more = worker[w].more
  BY <1>2, LocalWritten DEF At
<1> HIDE DEF m1
<1>5. /\ me \in Locals /\ me.place = "originals" /\ me.attempt = At(w) /\ me.converted = x
      /\ me.more = worker[w].more
  BY <1>4, DeletingPlaces, LocalWritten
<1> HIDE DEF me
<1>6. /\ worker' \in [Workers -> Locals] /\ worker'[w] = me
      /\ \A v \in Workers : v # w => worker'[v] = worker[v]
  BY <1>3, <1>5, WorkerStep
<1>7. UNCHANGED <<client, request, stage, objects, files, run, check, stale, faults, lost>>
  BY DEF ReadMaterialized
<1>8. stage[At(w)].state \in {"deleting", "deleted"}
  BY <1>2, DeletingPlaces DEF WorkerOK, At
<1>9. WorkerOK(w)'
  BY <1>1, <1>2, <1>5, <1>6, <1>7, <1>8 DEF WorkerOK
<1>10. faults' \in 0..MaxFaults
  BY <1>7, TypesOK
<1> QED BY <1>6, <1>7, <1>9, <1>10, WorkerOnly

\* A renewal changes only when the lease of a deletion ends.
LEMMA Renews ==
  ASSUME StagedInv, NEW w \in Workers, stage' = Renewed(w)
  PROVE  StagesMove
<1> DEFINE until == IF Holds(w) THEN TRUE ELSE stage[At(w)].until
           row == [stage[At(w)] EXCEPT !.until = until]
<1>1. stage[At(w)] \in Stages /\ At(w) \in Attempts
  BY TypesOK
<1>2. until \in BOOLEAN
  BY <1>1 DEF Stages
<1>3. stage' = [stage EXCEPT ![At(w)] = row]
  BY <1>1, TypesOK DEF Renewed
<1> HIDE DEF until
<1>4. Wrote(stage[At(w)], row, {"until"})
  BY <1>1, <1>2, StageWritten
<1> HIDE DEF row
<1>5. Wrote(stage[At(w)], row, Quiet)
  BY <1>4 DEF Wrote, Quiet
<1> QED BY <1>1, <1>3, <1>5, OneQuietStage

LEMMA DeleteOriginalsMoves ==
  ASSUME StagedInv, NEW w \in Workers, DeleteOriginals(w)
  PROVE  Moves
<1> DEFINE a == At(w)
<1>1. /\ worker[w] \in Locals /\ a \in Attempts /\ WorkerOK(w) /\ worker[w].place = "originals"
      /\ "files" \in Places
  BY TypesOK, DeletingPlaces DEF StagedInv, DeleteOriginals
<1>2. UNCHANGED <<client, request, files, run, check, stale, faults, lost>>
  BY DEF DeleteOriginals
<1>3. /\ stage[a].state \in {"deleting", "deleted"} /\ ~worker[w].more
      /\ worker[w].converted <=> run[a].state # None
  BY <1>1, DeletingPlaces DEF WorkerOK, At
<1>4. objects \in [Attempts -> SUBSET Images] /\ files' \in [Attempts -> SUBSET {"page", "index"}]
  BY <1>2, TypesOK
<1>5. CASE worker[w].converted
  <2>1. Goto(w, "files") /\ UNCHANGED <<objects, stage>>
    BY <1>5 DEF DeleteOriginals
  <2>2. /\ worker' \in [Workers -> Locals]
        /\ worker'[w].place = "files" /\ worker'[w].attempt = a
        /\ worker'[w].converted = worker[w].converted
        /\ \A v \in Workers : v # w => worker'[v] = worker[v]
    BY <1>1, <2>1, GotoStep
  <2>3. WorkerOK(w)'
    BY <1>2, <1>3, <1>5, <2>1, <2>2 DEF WorkerOK
  <2>4. WorkersMove
    BY <2>2, <2>3 DEF WorkersMove
  <2> QED BY <1>2, <1>4, <2>1, <2>4, StagesStay, SameStores, DeletionStep
<1>6. CASE ~worker[w].converted
  <2>1. PICK page \in SUBSET objects[a] :
          /\ objects' = [objects EXCEPT ![a] = @ \ page]
          /\ stage' = Renewed(w)
          /\ worker' = [worker EXCEPT ![w].place = "files", ![w].more = page # objects[a]]
    BY <1>6 DEF DeleteOriginals
  <2>2. PICK x \in BOOLEAN : x = (page # objects[a])
    OBVIOUS
  <2> DEFINE m1 == [worker[w] EXCEPT !.place = "files"]
             me == [m1 EXCEPT !.more = x]
  <2>3. worker' = [worker EXCEPT ![w] = me]
    BY <2>1, <2>2, TypesOK
  <2>4. m1 \in Locals /\ m1.place = "files" /\ m1.attempt = a
    BY <1>1, LocalWritten DEF At
  <2> HIDE DEF m1
  <2>5. me \in Locals /\ me.place = "files" /\ me.attempt = a /\ me.more = x
        /\ me.converted = worker[w].converted
    <3>1. m1.converted = worker[w].converted
      BY <1>1, LocalWritten DEF m1
    <3> QED BY <2>4, <3>1, LocalWritten
  <2> HIDE DEF me
  <2>6. /\ worker' \in [Workers -> Locals] /\ worker'[w] = me
        /\ \A v \in Workers : v # w => worker'[v] = worker[v]
    BY <2>3, <2>5, WorkerStep
  <2>7. /\ objects' \in [Attempts -> SUBSET Images] /\ objects'[a] = objects[a] \ page
        /\ \A b \in Attempts : b # a => objects'[b] = objects[b]
    BY <1>1, <1>4, <2>1
  <2>8. StagesMove
    BY <2>1, Renews
  <2>9. stage'[a].state \in {"deleting", "deleted"}
    <3>1. stage'[a].state = stage[a].state
      BY <1>1, <2>1, TypesOK DEF Renewed, Stages
    <3> QED BY <1>3, <3>1
  <2>10. WorkerOK(w)'
    BY <1>2, <1>3, <1>6, <2>2, <2>5, <2>6, <2>7, <2>9 DEF WorkerOK
  <2>11. WorkersMove
    BY <2>6, <2>10 DEF WorkersMove
  <2>12. \A b \in Attempts : Stores(b)
    BY <1>2, <1>3, <1>6, <2>7 DEF Stores
  <2> QED BY <1>2, <1>4, <2>7, <2>8, <2>11, <2>12, DeletionStep
<1> QED BY <1>1, <1>5, <1>6 DEF Locals

LEMMA DeleteFilesMoves ==
  ASSUME StagedInv, NEW w \in Workers, DeleteFiles(w)
  PROVE  Moves
<1> DEFINE a == At(w)
<1>1. /\ worker[w] \in Locals /\ a \in Attempts /\ WorkerOK(w) /\ worker[w].place = "files"
      /\ "rows" \in Places /\ "release" \in Places
  BY TypesOK, DeletingPlaces DEF StagedInv, DeleteFiles
<1>2. UNCHANGED <<client, request, objects, run, check, stale, faults, lost>>
  BY DEF DeleteFiles
<1>3. /\ stage[a].state \in {"deleting", "deleted"}
      /\ worker[w].converted <=> run[a].state # None
      /\ ~worker[w].converted /\ ~worker[w].more => objects[a] = {}
  BY <1>1, DeletingPlaces DEF WorkerOK, At
<1>4. PICK page \in SUBSET files[a], place \in {"release", "rows"} :
        /\ files' = [files EXCEPT ![a] = @ \ page]
        /\ stage' = Renewed(w) /\ Goto(w, place)
        /\ place = "rows" => ~worker[w].more /\ page = files[a]
  BY DEF DeleteFiles
<1>5. /\ worker' \in [Workers -> Locals]
      /\ worker'[w].place = place /\ worker'[w].attempt = a
      /\ worker'[w].converted = worker[w].converted
      /\ \A v \in Workers : v # w => worker'[v] = worker[v]
  BY <1>1, <1>4, GotoStep
<1>6. /\ files' \in [Attempts -> SUBSET {"page", "index"}] /\ files'[a] = files[a] \ page
      /\ \A b \in Attempts : b # a => files'[b] = files[b]
  BY <1>1, <1>4, TypesOK
<1>7. StagesMove
  BY <1>4, Renews
<1>8. stage'[a].state = stage[a].state
  BY <1>1, <1>4, TypesOK DEF Renewed, Stages
<1>9. WorkerOK(w)'
  BY <1>2, <1>3, <1>4, <1>5, <1>6, <1>8 DEF WorkerOK
<1>10. WorkersMove
  BY <1>5, <1>9 DEF WorkersMove
<1>11. \A b \in Attempts : Stores(b)
  BY <1>2, <1>6 DEF Stores
<1>12. objects' \in [Attempts -> SUBSET Images]
  BY <1>2, TypesOK
<1> QED BY <1>2, <1>6, <1>7, <1>10, <1>11, <1>12, DeletionStep

LEMMA ReleaseMoves ==
  ASSUME StagedInv, NEW w \in Workers, Release(w)
  PROVE  Moves
<1> DEFINE until == IF stage[At(w)].token = w THEN FALSE ELSE stage[At(w)].until
           row == [stage[At(w)] EXCEPT !.until = until]
<1>1. stage[At(w)] \in Stages /\ At(w) \in Attempts
  BY TypesOK
<1>2. until \in BOOLEAN
  BY <1>1 DEF Stages
<1>3. stage' = [stage EXCEPT ![At(w)] = row]
  BY <1>1, TypesOK DEF Release
<1> HIDE DEF until
<1>4. Wrote(stage[At(w)], row, {"until"})
  BY <1>1, <1>2, StageWritten
<1> HIDE DEF row
<1>5. Wrote(stage[At(w)], row, Quiet)
  BY <1>4 DEF Wrote, Quiet
<1>6. StagesMove
  BY <1>1, <1>3, <1>5, OneQuietStage
<1>7. WorkersMove
  BY WorkerIdles DEF Release
<1>8. check' \in [Attempts -> {"active", "failed"}]
  BY TypesOK DEF Release
<1>9. RunsMove
  BY RunsStay DEF Release
<1> QED BY <1>6, <1>7, <1>8, <1>9, Together DEF Release

LEMMA DeleteRowsMoves ==
  ASSUME StagedInv, NEW w \in Workers, DeleteRows(w)
  PROVE  Moves
<1> DEFINE a == At(w)
<1>1. /\ a \in Attempts /\ WorkerOK(w) /\ AttemptOK(a) /\ stage[a] \in Stages
      /\ worker[w].place = "rows" /\ worker[w] \in Locals
  BY TypesOK DEF StagedInv, DeleteRows
<1>2. UNCHANGED <<client, request, objects, files, run, check, stale, faults, lost>>
  BY DEF DeleteRows
<1>3. /\ files[a] = {} /\ (~worker[w].converted => objects[a] = {})
      /\ worker[w].converted <=> run[a].state # None
  BY <1>1, DeletingPlaces DEF WorkerOK, At
<1>4. WorkersMove
  BY WorkersStay, WorkerIdles DEF DeleteRows
<1>5. stage \in [Attempts -> Stages] /\ {} \in SUBSET Images /\ FALSE \in BOOLEAN
  BY TypesOK
<1>6. stage[a].state = "deleting" => stage[a].old
  BY <1>1 DEF AttemptOK
<1>7. ASSUME UNCHANGED stage
      PROVE  StagesMove
  BY <1>7, StagesStay
<1>8. ASSUME /\ stage[a].state = "deleting" /\ stage[a].rows = {} /\ ~stage[a].job
             /\ stage' = [stage EXCEPT ![a].state = "deleted", ![a].token = None,
                                       ![a].until = FALSE]
      PROVE  StagesMove
  <2> DEFINE s1 == [stage[a] EXCEPT !.state = "deleted"]
             s2 == [s1 EXCEPT !.token = None]
             row == [s2 EXCEPT !.until = FALSE]
  <2>1. stage' = [stage EXCEPT ![a] = row]
    BY <1>1, <1>5, <1>8
  <2>2. Wrote(stage[a], s1, {"state"}) /\ s1.state = "deleted"
    <3>1. stage[a] \in Stages /\ "deleted" \in {None, "live", "deleting", "deleted"}
      BY <1>1
    <3> QED BY <3>1, StageWritten
  <2> HIDE DEF s1
  <2>3. Wrote(s1, s2, {"token"})
    <3>1. s1 \in Stages /\ None \in Workers \cup {None}
      BY <2>2 DEF Wrote
    <3> QED BY <3>1, StageWritten
  <2> HIDE DEF s2
  <2>4. Wrote(s2, row, {"until"})
    <3>1. s2 \in Stages /\ FALSE \in BOOLEAN
      BY <2>3 DEF Wrote
    <3> QED BY <3>1, StageWritten
  <2> HIDE DEF row
  <2>5. /\ row \in Stages /\ row.state = "deleted" /\ row.old = stage[a].old
        /\ row.rows = stage[a].rows /\ row.job = stage[a].job
    BY <2>2, <2>3, <2>4 DEF Wrote, StageFields
  <2>6. stage' \in [Attempts -> Stages] /\ stage'[a] = row
          /\ \A b \in Attempts : b # a => stage'[b] = stage[b]
    BY <1>1, <1>5, <2>1, <2>5
  <2>7. StageMoves(a)
    BY <1>2, <1>3, <1>6, <1>8, <2>5, <2>6 DEF StageMoves
  <2> QED BY <2>6, <2>7, SameStage DEF StagesMove
<1>9. ASSUME /\ stage[a].state = "deleting"
             /\ stage' = [stage EXCEPT ![a].rows = {}, ![a].complete = {},
                                       ![a].index = FALSE, ![a].job = FALSE]
      PROVE  StagesMove
  <2> DEFINE s1 == [stage[a] EXCEPT !.rows = {}]
             s2 == [s1 EXCEPT !.complete = {}]
             s3 == [s2 EXCEPT !.index = FALSE]
             row == [s3 EXCEPT !.job = FALSE]
  <2>1. stage' = [stage EXCEPT ![a] = row]
    BY <1>1, <1>5, <1>9
  <2>2. Wrote(stage[a], s1, {"rows"})
    BY <1>1, <1>5, StageWritten
  <2> HIDE DEF s1
  <2>3. Wrote(s1, s2, {"complete"})
    <3>1. s1 \in Stages
      BY <2>2 DEF Wrote
    <3> QED BY <1>5, <3>1, StageWritten
  <2> HIDE DEF s2
  <2>4. Wrote(s2, s3, {"index"})
    <3>1. s2 \in Stages
      BY <2>3 DEF Wrote
    <3> QED BY <1>5, <3>1, StageWritten
  <2> HIDE DEF s3
  <2>5. Wrote(s3, row, {"job"})
    <3>1. s3 \in Stages
      BY <2>4 DEF Wrote
    <3> QED BY <1>5, <3>1, StageWritten
  <2> HIDE DEF row
  <2>6. row \in Stages /\ row.state = "deleting" /\ row.old = stage[a].old
    BY <1>9, <2>2, <2>3, <2>4, <2>5 DEF Wrote, StageFields
  <2>7. stage' \in [Attempts -> Stages] /\ stage'[a] = row
          /\ \A b \in Attempts : b # a => stage'[b] = stage[b]
    BY <1>1, <1>5, <2>1, <2>6
  <2>8. StageMoves(a)
    BY <1>6, <1>9, <2>6, <2>7 DEF StageMoves
  <2> QED BY <2>7, <2>8, SameStage DEF StagesMove
<1>10. StagesMove
  BY <1>7, <1>8, <1>9 DEF DeleteRows, Holds
<1>11. check' \in [Attempts -> {"active", "failed"}]
  BY <1>2, TypesOK
<1> QED BY <1>2, <1>4, <1>10, <1>11, RunsStay, Together

-----------------------------------------------------------------------------
(* The specification.                                                      *)
LEMMA InitOK == Init => StagedInv
<1> SUFFICES ASSUME Init PROVE StagedInv
  OBVIOUS
<1>1. 0 \in 0..MaxFaults
  BY StagedRunsAssumption
<1>2. NoRun \in Runs /\ NoRun.state = None /\ ~NoRun.shard
  BY DEF NoRun, Runs, RunStates
<1>3. /\ NoStage \in Stages /\ NoStage.state = None /\ ~NoStage.old /\ NoStage.complete = {}
      /\ ~NoStage.index /\ NoStage.rows = {} /\ ~NoStage.job
  BY NoStageOK DEF NoStage
<1>4. TypeOK
  BY <1>1, <1>2, <1>3, IdleOK DEF Init, TypeOK
<1>5. \A a \in Attempts : stage[a] = NoStage /\ run[a] = NoRun /\ files[a] = {}
  BY DEF Init
<1>6. \A a \in Attempts : AttemptOK(a)
  BY <1>2, <1>3, <1>5 DEF AttemptOK, None
<1>7. NewestIsActive
  BY <1>2, <1>5 DEF NewestIsActive
<1>8. request = {} /\ \A w \in Workers : worker[w] = Idle
  BY DEF Init
<1>9. \A w \in Workers : WorkerOK(w)
  BY <1>8, IdleOK DEF WorkerOK, Deleting
<1> QED BY <1>4, <1>6, <1>7, <1>8, <1>9 DEF StagedInv

LEMMA StepMoves ==
  ASSUME StagedInv, [Next]_vars
  PROVE  Moves
<1>1. CASE UNCHANGED vars
  <2>1. /\ UNCHANGED <<stage, run, worker, request, objects, lost, files, client>> /\ TypeOK'
    BY <1>1 DEF vars, StagedInv, TypeOK
  <2> QED BY <2>1, SameStores, StoreStep DEF RequestMoves
<1>2. ASSUME NEW a \in Attempts, Client(a) \/ Environment(a) \/ Time(a) \/ Leases(a)
      PROVE  Moves
  BY <1>2, ReserveStagedMoves, AddJobMoves, QuietMoves, PutMoves, OutsideMoves, GetOldMoves,
     CloseMoves
     DEF Client, Environment, Time, Leases
<1>3. ASSUME NEW r \in request, SettleRequest(r) \/ RequestEnds(r)
      PROVE  Moves
  BY <1>3, SettleMoves, RequestEndsMoves
<1>4. ASSUME NEW w \in Workers, Convert(w)
      PROVE  Moves
  BY <1>4, ReadRunMoves, LeaseSourcesMoves, ReconcileMoves, ReserveMoves, LookMoves,
     RegisterMoves, CommitMoves, SealMoves, CompareMoves, SweepEndsMoves
     DEF Convert
<1>5. ASSUME NEW w \in Workers, Delete(w)
      PROVE  Moves
  BY <1>5, ReadMaterializedMoves, DeleteOriginalsMoves, DeleteFilesMoves, ReleaseMoves,
     DeleteRowsMoves
     DEF Delete
<1>6. ASSUME NEW w \in Workers, TransientFailure(w) \/ Stop(w)
      PROVE  Moves
  BY <1>6, LookMoves
<1>7. ASSUME NEW w \in Workers, NEW a \in Attempts, SelectStage(w, a) \/ ClaimDeletion(w, a)
      PROVE  Moves
  BY <1>7, SelectStageMoves, ClaimMoves
<1> QED BY <1>1, <1>2, <1>3, <1>4, <1>5, <1>6, <1>7 DEF Next

\* The inductive invariant holds in every reachable state: what a request, a
\* sweep and a deletion read before their writes is still so when they write.
THEOREM StagedInvariantHolds == Spec => []StagedInv
<1>1. Init => StagedInv
  BY InitOK
<1>2. StagedInv /\ [Next]_vars => StagedInv'
  BY StepMoves, MovesKeep
<1> QED BY <1>1, <1>2, PTL DEF Spec

\* Staged retention never deletes the originals of a stage that became a run.
THEOREM OriginalsAreKept == Spec => []OriginalsKept
<1>1. StagedInv => OriginalsKept
  BY DEF StagedInv, AttemptOK, OriginalsKept
<1> QED BY <1>1, StagedInvariantHolds, PTL

\* Nothing of a deleted stage is left, except the originals of its run: no
\* request or sweep that was under way writes to it again.
THEOREM DeletedStaysGone == Spec => []DeletedIsGone
<1>1. StagedInv => DeletedIsGone
  BY DEF StagedInv, AttemptOK, DeletedIsGone
<1> QED BY <1>1, StagedInvariantHolds, PTL

\* A run is sealed only with every image of its index registered, and never
\* after a newer attempt was admitted, whichever sweep seals it.
THEOREM NewestSeals == Spec => OnlyNewestSeals
<1> DEFINE Seals == \A a \in Attempts : run'[a].sealed /\ ~run[a].sealed =>
                      /\ run[a].images = Images
                      /\ \A b \in Attempts : b > a => run[b].state = None
<1>1. StagedInv /\ [Next]_vars => Seals
  BY StepMoves, MovesSeal
<1>2. StagedInv /\ [Next]_vars => [Seals]_vars
  BY <1>1
<1> HIDE DEF Seals
<1>3. Spec => [][Seals]_vars
  BY <1>2, StagedInvariantHolds, PTL DEF Spec
<1> QED BY <1>3 DEF OnlyNewestSeals, Seals

-----------------------------------------------------------------------------
(* The ledger of the submissions.                                          *)

\* What a submitter sees of the stages, and of the runs, stays.
SameStages ==
  \A b \in Attempts :
    /\ stage'[b].state = stage[b].state /\ stage'[b].rows = stage[b].rows
    /\ stage'[b].index = stage[b].index /\ stage'[b].job = stage[b].job
SameRuns == \A b \in Attempts : run'[b].state = run[b].state
SameStore == UNCHANGED <<objects, lost, files>>

LEMMA SameStagesView ==
  ASSUME SameStages, UNCHANGED files
  PROVE  StagePlaces' = StagePlaces /\ Traces' = Traces
  BY DEF SameStages, StagePlaces, Traces

LEMMA SameRunsView ==
  ASSUME SameRuns
  PROVE  Outcomes' = Outcomes
  BY DEF SameRuns, Outcomes, Outcome

LEMMA NothingSeen ==
  ASSUME SameStages, SameRuns, SameStore
  PROVE  [Promise!Next]_(Promise!submissions)
  BY SameStagesView, SameRunsView DEF SameStore, Promise!submissions

LEMMA QuietWrite ==
  ASSUME StagedInv, NEW a \in Attempts, NEW x,
         \/ stage' = [stage EXCEPT ![a].lease = x] \/ stage' = [stage EXCEPT ![a].old = x]
         \/ stage' = [stage EXCEPT ![a].until = x] \/ stage' = [stage EXCEPT ![a].reference = x]
         \/ stage' = [stage EXCEPT ![a].submitted = x]
  PROVE  SameStages
<1>1. stage \in [Attempts -> Stages]
  BY TypesOK
<1>2. CASE stage' = [stage EXCEPT ![a].lease = x]
  BY <1>1, <1>2 DEF SameStages, Stages
<1>3. CASE stage' = [stage EXCEPT ![a].old = x]
  BY <1>1, <1>3 DEF SameStages, Stages
<1>4. CASE stage' = [stage EXCEPT ![a].until = x]
  BY <1>1, <1>4 DEF SameStages, Stages
<1>5. CASE stage' = [stage EXCEPT ![a].reference = x]
  BY <1>1, <1>5 DEF SameStages, Stages
<1>6. CASE stage' = [stage EXCEPT ![a].submitted = x]
  BY <1>1, <1>6 DEF SameStages, Stages
<1> QED BY <1>2, <1>3, <1>4, <1>5, <1>6

LEMMA SweepWrite ==
  ASSUME StagedInv, NEW a \in Attempts, NEW failures, NEW missing,
         stage' = [stage EXCEPT ![a].failures = failures, ![a].missing = missing]
  PROVE  SameStages
  BY TypesOK DEF SameStages, Stages

LEMMA RunFieldWrite ==
  ASSUME StagedInv, NEW a \in Attempts, NEW x,
         run' = [run EXCEPT ![a].images = x] \/ run' = [run EXCEPT ![a].shard = x]
  PROVE  SameRuns
  BY TypesOK DEF SameRuns, Runs

\* Steps that no submitter sees.
LEMMA UnseenOutside ==
  ASSUME StagedInv,
         \/ \E a \in Attempts :
              \/ SelectReference(a) \/ SubmitStaged(a) \/ EndJob(a) \/ StartJob(a) \/ GetOld(a)
              \/ LeaseEnds(a) \/ DeletionLeaseEnds(a) \/ BaselineMoves(a) \/ FailCheck(a)
         \/ \E r \in request : RequestEnds(r)
         \/ UNCHANGED vars
  PROVE  SameStages /\ SameRuns /\ SameStore
<1>1. SameRuns /\ SameStore
  BY DEF SelectReference, SubmitStaged, EndJob, StartJob, GetOld, LeaseEnds, DeletionLeaseEnds,
     BaselineMoves, FailCheck, RequestEnds, vars, SameRuns, SameStore
<1>2. ASSUME NEW a \in Attempts,
             \/ SelectReference(a) \/ SubmitStaged(a) \/ GetOld(a) \/ LeaseEnds(a)
             \/ DeletionLeaseEnds(a)
      PROVE  SameStages
  <2>1. CASE SelectReference(a)
    <3>1. stage' = [stage EXCEPT ![a].reference = TRUE]
      BY <2>1 DEF SelectReference
    <3> QED BY <3>1, QuietWrite
  <2>2. CASE SubmitStaged(a)
    <3>1. stage' = [stage EXCEPT ![a].submitted = TRUE]
      BY <2>2 DEF SubmitStaged
    <3> QED BY <3>1, QuietWrite
  <2>3. CASE GetOld(a)
    <3>1. stage' = [stage EXCEPT ![a].old = TRUE]
      BY <2>3 DEF GetOld
    <3> QED BY <3>1, QuietWrite
  <2>4. CASE LeaseEnds(a)
    <3>1. stage' = [stage EXCEPT ![a].lease = FALSE]
      BY <2>4 DEF LeaseEnds
    <3> QED BY <3>1, QuietWrite
  <2>5. CASE DeletionLeaseEnds(a)
    <3>1. stage' = [stage EXCEPT ![a].until = FALSE]
      BY <2>5 DEF DeletionLeaseEnds
    <3> QED BY <3>1, QuietWrite
  <2> QED BY <1>2, <2>1, <2>2, <2>3, <2>4, <2>5
<1>3. ASSUME UNCHANGED stage
      PROVE  SameStages
  BY <1>3 DEF SameStages
<1>4. ASSUME NEW a \in Attempts, EndJob(a) \/ StartJob(a) \/ BaselineMoves(a) \/ FailCheck(a)
      PROVE  UNCHANGED stage
  BY <1>4 DEF EndJob, StartJob, BaselineMoves, FailCheck
<1>5. ASSUME NEW r \in request, RequestEnds(r)
      PROVE  UNCHANGED stage
  BY <1>5 DEF RequestEnds
<1>6. UNCHANGED vars => UNCHANGED stage
  BY DEF vars
<1>7. SameStages
  BY <1>2, <1>3, <1>4, <1>5, <1>6
<1> QED BY <1>1, <1>7

LEMMA UnseenWork ==
  ASSUME StagedInv, NEW w \in Workers,
         \/ \E a \in Attempts : SelectStage(w, a)
         \/ ReadRun(w) \/ LeaseSources(w) \/ ReconcileJobs(w) \/ VerifyImages(w)
         \/ RegisterImages(w) \/ CommitShard(w) \/ Finish(w) \/ TransientFailure(w) \/ Stop(w)
         \/ ReadMaterialized(w) \/ Release(w)
  PROVE  SameStages /\ SameRuns /\ SameStore
<1>1. At(w) \in Attempts
  BY TypesOK
<1>2. SameStore
  BY DEF SelectStage, ReadRun, LeaseSources, ReconcileJobs, VerifyImages, RegisterImages,
     CommitShard, Finish, SweepEnds, TransientFailure, Stop, ReadMaterialized, Release, SameStore
<1>3. CASE \/ \E a \in Attempts : SelectStage(w, a)
           \/ ReadRun(w) \/ ReconcileJobs(w) \/ VerifyImages(w) \/ TransientFailure(w)
           \/ Stop(w) \/ ReadMaterialized(w)
  <2>1. UNCHANGED <<stage, run>>
    BY <1>3 DEF SelectStage, ReadRun, ReconcileJobs, VerifyImages, TransientFailure, Stop,
       ReadMaterialized
  <2> QED BY <1>2, <2>1 DEF SameStages, SameRuns
<1>4. CASE LeaseSources(w) \/ Release(w)
  <2>1. UNCHANGED run
    BY <1>4 DEF LeaseSources, Release
  <2>2. \/ UNCHANGED stage \/ stage' = [stage EXCEPT ![At(w)].lease = TRUE]
        \/ \E x : stage' = [stage EXCEPT ![At(w)].until = x]
    BY <1>4 DEF LeaseSources, Release
  <2>3. SameStages
    BY <1>1, <2>2, QuietWrite DEF SameStages
  <2> QED BY <1>2, <2>1, <2>3 DEF SameRuns
<1>5. CASE RegisterImages(w) \/ CommitShard(w)
  <2>1. UNCHANGED stage
    BY <1>5 DEF RegisterImages, CommitShard
  <2>2. \/ UNCHANGED run \/ run' = [run EXCEPT ![At(w)].images = Images]
        \/ run' = [run EXCEPT ![At(w)].shard = TRUE]
    BY <1>5 DEF RegisterImages, CommitShard
  <2>3. SameRuns
    BY <1>1, <2>2, RunFieldWrite DEF SameRuns
  <2> QED BY <1>2, <2>1, <2>3 DEF SameStages
<1>6. CASE Finish(w)
  <2>1. UNCHANGED run /\ stage' = [stage EXCEPT ![At(w)].failures = 0, ![At(w)].missing = 0]
    BY <1>6 DEF Finish, SweepEnds
  <2>2. SameStages
    BY <1>1, <2>1, SweepWrite
  <2> QED BY <1>2, <2>1, <2>2 DEF SameRuns
<1> QED BY <1>3, <1>4, <1>5, <1>6

\* The run of one attempt turns.
LEMMA OutcomeTurns ==
  ASSUME StagedInv, NEW a \in Attempts, NEW x,
         \/ run' = [run EXCEPT ![a].state = x]
         \/ run' = [run EXCEPT ![a].state = x, ![a].sealed = TRUE]
  PROVE  /\ x = "failed" => Outcomes' = [Outcomes EXCEPT ![a] = "failed"]
         /\ x = "closed" => Outcomes' = [Outcomes EXCEPT ![a] = "closed"]
         /\ x = "comparing" => Outcomes' = [Outcomes EXCEPT ![a] = "sealed"]
<1>1. run \in [Attempts -> Runs]
  BY TypesOK
<1>2. run'[a].state = x /\ \A b \in Attempts : b # a => run'[b] = run[b]
  BY <1>1 DEF Runs
<1>3. \A b \in Attempts : b # a => Outcome(b)' = Outcome(b)
  BY <1>2 DEF Outcome
<1>4. ASSUME NEW y, Outcome(a)' = y PROVE Outcomes' = [Outcomes EXCEPT ![a] = y]
  BY <1>3, <1>4 DEF Outcomes
<1>5. /\ x = "failed" => Outcome(a)' = "failed"
      /\ x = "closed" => Outcome(a)' = "closed"
      /\ x = "comparing" => Outcome(a)' = "sealed"
  BY <1>2 DEF Outcome
<1> QED BY <1>4, <1>5

LEMMA OutcomeOfRun ==
  ASSUME NEW a \in Attempts
  PROVE  /\ Outcomes[a] = Outcome(a)
         /\ run[a].state = "uploading" => Outcome(a) = "open"
         /\ Outcome(a) = "none" <=> run[a].state = None
         /\ run[a].state \in {None, "closed", "compared"} => Outcome(a) \notin {"open", "failed"}
         /\ (\A b \in Attempts : b > a => run[b].state = None) <=> Promise!NoneAfter(a)
  BY DEF Outcomes, Outcome, None, Promise!NoneAfter

LEMMA TurnIsStep ==
  ASSUME StagedInv, UNCHANGED <<stage, objects, lost, files>> \/ (SameStages /\ SameStore),
         NEW a \in Attempts,
         \/ run' = [run EXCEPT ![a].state = "failed"] /\ run[a].state = "uploading"
         \/ run' = [run EXCEPT ![a].state = "closed"] /\ Active(a)
         \/ /\ run' = [run EXCEPT ![a].state = "comparing", ![a].sealed = TRUE]
            /\ run[a].state = "uploading"
  PROVE  Promise!Next
<1>1. SameStages /\ SameStore
  BY DEF SameStages, SameStore
<1>2. StagePlaces' = StagePlaces /\ Traces' = Traces /\ UNCHANGED <<objects, lost>>
  BY <1>1, SameStagesView DEF SameStore
<1>3. CASE run' = [run EXCEPT ![a].state = "failed"] /\ run[a].state = "uploading"
  <2>1. Promise!Fail(a)
    BY <1>2, <1>3, OutcomeTurns, OutcomeOfRun DEF Promise!Fail, Promise!Becomes
  <2> QED BY <2>1 DEF Promise!Next
<1>4. CASE run' = [run EXCEPT ![a].state = "closed"] /\ Active(a)
  <2>1. Promise!Close(a)
    BY <1>2, <1>4, OutcomeTurns, OutcomeOfRun DEF Promise!Close, Promise!Becomes, Active
  <2> QED BY <2>1 DEF Promise!Next
<1>5. CASE /\ run' = [run EXCEPT ![a].state = "comparing", ![a].sealed = TRUE]
           /\ run[a].state = "uploading"
  <2>1. Promise!NoneAfter(a)
    BY <1>5, OutcomeOfRun DEF StagedInv, NewestIsActive, Active, None
  <2>2. Promise!Seal(a)
    BY <1>2, <1>5, <2>1, OutcomeTurns, OutcomeOfRun DEF Promise!Seal, Promise!Becomes
  <2> QED BY <2>2 DEF Promise!Next
<1> QED BY <1>3, <1>4, <1>5

\* A step that writes one stage and the files of its attempt.
LEMMA OneStageView ==
  ASSUME NEW a \in Attempts,
         \A b \in Attempts : b # a => stage'[b] = stage[b] /\ files'[b] = files[b]
  PROVE  /\ StagePlaces' = [StagePlaces EXCEPT ![a] = stage'[a].state]
         /\ stage'[a].state = stage[a].state => StagePlaces' = StagePlaces
         /\ a \in Traces' => Traces' = Traces \cup {a}
         /\ a \notin Traces' => Traces' = Traces \ {a}
         /\ (a \in Traces' <=> a \in Traces) => Traces' = Traces
         /\ a \in Traces <=> \/ files[a] # {} \/ stage[a].rows # {}
                             \/ stage[a].index \/ stage[a].job
         /\ a \in Traces' <=> \/ files'[a] # {} \/ stage'[a].rows # {}
                              \/ stage'[a].index \/ stage'[a].job
<1>1. \A b \in Attempts : b # a => StagePlaces'[b] = StagePlaces[b]
  BY DEF StagePlaces
<1>2. /\ StagePlaces \in [Attempts -> {stage[b].state : b \in Attempts}]
      /\ StagePlaces' = [b \in Attempts |-> stage'[b].state]
  BY DEF StagePlaces
<1>3. StagePlaces' = [StagePlaces EXCEPT ![a] = stage'[a].state]
  BY <1>1, <1>2
<1>4. stage'[a].state = stage[a].state => StagePlaces' = StagePlaces
  BY DEF StagePlaces
<1>5. \A b \in Attempts : b # a => (b \in Traces' <=> b \in Traces)
  BY DEF Traces
<1>6. Traces \subseteq Attempts /\ Traces' \subseteq Attempts
  BY DEF Traces
<1>7. a \in Traces <=> \/ files[a] # {} \/ stage[a].rows # {}
                       \/ stage[a].index \/ stage[a].job
  BY DEF Traces
<1>8. a \in Traces' <=> \/ files'[a] # {} \/ stage'[a].rows # {}
                        \/ stage'[a].index \/ stage'[a].job
  BY DEF Traces
<1> QED BY <1>3, <1>4, <1>5, <1>6, <1>7, <1>8

LEMMA PlaceOf ==
  ASSUME NEW a \in Attempts
  PROVE  StagePlaces[a] = stage[a].state
  BY DEF StagePlaces

\* A live stage gets a page, an index, a job or rows.
LEMMA CollectTraces ==
  ASSUME NEW a \in Attempts, stage[a].state = "live", stage'[a].state = "live",
         \A b \in Attempts : b # a => stage'[b] = stage[b] /\ files'[b] = files[b],
         files'[a] # {} \/ stage'[a].rows # {} \/ stage'[a].index \/ stage'[a].job,
         UNCHANGED <<run, objects, lost>>
  PROVE  Promise!Next
<1>1. StagePlaces' = StagePlaces /\ Traces' = Traces \cup {a}
  BY OneStageView
<1>2. Outcomes' = Outcomes
  BY SameRunsView DEF SameRuns
<1>3. Promise!Collect(a)
  BY <1>1, <1>2, PlaceOf DEF Promise!Collect
<1> QED BY <1>3 DEF Promise!Next

LEMMA BeginIsStep ==
  ASSUME StagedInv, NEW a \in Attempts, ReserveStagedRun(a)
  PROVE  Promise!Next
<1> DEFINE row == [NoStage EXCEPT !.state = "live"]
<1>1. row.state = "live" /\ row.rows = {} /\ ~row.index /\ ~row.job
  BY DEF NoStage
<1>2. stage' = [stage EXCEPT ![a] = row] /\ UNCHANGED <<run, files, objects, lost>>
      /\ stage[a].state = "none"
  BY DEF ReserveStagedRun, None
<1> HIDE DEF row
<1>3. stage'[a] = row /\ \A b \in Attempts : b # a => stage'[b] = stage[b] /\ files'[b] = files[b]
  BY <1>2, TypesOK
<1>4. files[a] = {} /\ stage[a].rows = {} /\ ~stage[a].index /\ ~stage[a].job
  BY <1>2 DEF StagedInv, AttemptOK, None
<1>5. StagePlaces' = [StagePlaces EXCEPT ![a] = "live"] /\ Traces' = Traces
  BY <1>1, <1>2, <1>3, <1>4, OneStageView
<1>6. Outcomes' = Outcomes
  BY <1>2, SameRunsView DEF SameRuns
<1>7. Promise!Begin(a)
  BY <1>2, <1>5, <1>6, PlaceOf DEF Promise!Begin
<1> QED BY <1>7 DEF Promise!Next

LEMMA AddJobIsStep ==
  ASSUME StagedInv, NEW a \in Attempts, AddJob(a)
  PROVE  Promise!Next
<1>1. stage' = [stage EXCEPT ![a].job = TRUE] /\ UNCHANGED <<run, files, objects, lost>>
      /\ stage[a].state = "live"
  BY DEF AddJob, Open
<1>2. /\ stage'[a].state = "live" /\ stage'[a].job
      /\ \A b \in Attempts : b # a => stage'[b] = stage[b] /\ files'[b] = files[b]
  BY <1>1, TypesOK DEF Stages
<1> QED BY <1>1, <1>2, CollectTraces

LEMMA PutFileIsStep ==
  ASSUME StagedInv, NEW a \in Attempts, PutPage(a) \/ PutIndex(a)
  PROVE  Promise!Next
<1>1. PICK f \in {"page", "index"} : files' = [files EXCEPT ![a] = @ \cup {f}]
  BY DEF PutPage, PutIndex
<1>2. stage[a].state = "live" /\ UNCHANGED <<stage, run, objects, lost>>
  BY DEF PutPage, PutIndex, Served, Open
<1>3. files'[a] # {} /\ \A b \in Attempts : b # a => stage'[b] = stage[b] /\ files'[b] = files[b]
  BY <1>1, <1>2, TypesOK
<1> QED BY <1>2, <1>3, CollectTraces

LEMMA PutImageIsStep ==
  ASSUME StagedInv, NEW a \in Attempts, NEW i \in Images, PutImage(a, i) \/ ReuseImage(a, i)
  PROVE  Promise!Next
<1>1. /\ objects' = [objects EXCEPT ![a] = @ \cup {i}]
      /\ UNCHANGED <<stage, files, run, lost>> /\ stage[a].state = "live"
  BY DEF PutImage, ReuseImage, Served, Open
<1>2. StagePlaces' = StagePlaces /\ Traces' = Traces /\ Outcomes' = Outcomes
  BY <1>1, SameStagesView, SameRunsView DEF SameStages, SameRuns
<1>3. Promise!Collect(a)
  BY <1>1, <1>2, PlaceOf DEF Promise!Collect
<1> QED BY <1>3 DEF Promise!Next

LEMMA LoseIsStep ==
  ASSUME StagedInv, NEW a \in Attempts, NEW i \in Images, LoseOriginal(a, i)
  PROVE  Promise!Next
<1>1. /\ objects' = [objects EXCEPT ![a] = @ \ {i}] /\ lost' = [lost EXCEPT ![a] = @ \cup {i}]
      /\ UNCHANGED <<stage, files, run>> /\ i \in objects[a]
  BY DEF LoseOriginal
<1>2. StagePlaces' = StagePlaces /\ Traces' = Traces /\ Outcomes' = Outcomes
  BY <1>1, SameStagesView, SameRunsView DEF SameStages, SameRuns
<1>3. Promise!Lose(a, i)
  BY <1>1, <1>2 DEF Promise!Lose
<1> QED BY <1>3 DEF Promise!Next

LEMMA SettleIsStep ==
  ASSUME StagedInv, NEW r \in request, SettleRequest(r)
  PROVE  [Promise!Next]_(Promise!submissions)
<1>1. PICK a \in Attempts : a = r.attempt
  BY TypesOK DEF Requests
<1>2. UNCHANGED <<files, run, objects, lost>> /\ stage[a].state = "live"
  BY <1>1 DEF SettleRequest, Settle, RowsChange, Open
<1>3. stage \in [Attempts -> Stages]
  BY TypesOK
<1>4. CASE stage' = [stage EXCEPT ![a].index = TRUE]
  <2>1. /\ stage'[a].state = "live" /\ stage'[a].index
        /\ \A b \in Attempts : b # a => stage'[b] = stage[b] /\ files'[b] = files[b]
    BY <1>2, <1>3, <1>4 DEF Stages
  <2> QED BY <1>2, <2>1, CollectTraces
<1>5. ASSUME NEW rows, NEW complete,
             stage' = [stage EXCEPT ![a].rows = rows, ![a].complete = complete],
             rows = stage[a].rows \/ rows # {}
      PROVE  [Promise!Next]_(Promise!submissions)
  <2>1. /\ stage'[a].state = "live" /\ stage'[a].rows = rows
        /\ stage'[a].index = stage[a].index /\ stage'[a].job = stage[a].job
        /\ \A b \in Attempts : b # a => stage'[b] = stage[b] /\ files'[b] = files[b]
    BY <1>2, <1>3, <1>5 DEF Stages
  <2>2. CASE rows = stage[a].rows
    <3>1. SameStages /\ SameRuns /\ SameStore
      BY <1>2, <2>1, <2>2 DEF SameStages, SameRuns, SameStore
    <3> QED BY <3>1, NothingSeen
  <2>3. CASE rows # {}
    BY <1>2, <2>1, <2>3, CollectTraces
  <2> QED BY <1>5, <2>2, <2>3
<1>6. \/ stage' = [stage EXCEPT ![a].index = TRUE]
      \/ \E rows, complete :
           /\ stage' = [stage EXCEPT ![a].rows = rows, ![a].complete = complete]
           /\ rows = stage[a].rows \/ rows # {}
  <2>1. CASE r.kind = "declare"
    <3>1. /\ stage' = [stage EXCEPT ![a].rows = stage[a].rows \cup {r.image},
                                    ![a].complete = stage[a].complete]
          /\ stage[a].rows \cup {r.image} # {}
      BY <1>1, <2>1 DEF SettleRequest, Settle, RowsChange
    <3> QED BY <3>1
  <2>2. CASE r.kind = "upload"
    <3>1. stage' = [stage EXCEPT ![a].rows = stage[a].rows,
                                 ![a].complete = stage[a].complete \cup {r.image}]
      BY <1>1, <2>2 DEF SettleRequest, Settle, RowsChange
    <3> QED BY <3>1
  <2>3. CASE r.kind = "index"
    BY <1>1, <2>3 DEF SettleRequest, Settle
  <2> QED BY <2>1, <2>2, <2>3 DEF SettleRequest, Settle
<1> QED BY <1>4, <1>5, <1>6

\* A sweep admits, seals, compares or fails the run of its stage.
LEMMA ReserveIsStep ==
  ASSUME StagedInv, NEW w \in Workers, Reserve(w)
  PROVE  [Promise!Next]_(Promise!submissions)
<1> DEFINE a == At(w)
<1>1. a \in Attempts /\ UNCHANGED <<stage, files, objects, lost>>
  BY TypesOK DEF Reserve
<1>2. StagePlaces' = StagePlaces /\ Traces' = Traces
  BY <1>1, SameStagesView DEF SameStages
<1>3. CASE UNCHANGED run
  BY <1>1, <1>3, NothingSeen DEF SameStages, SameRuns, SameStore
<1>4. CASE run[a].state = None /\ Admissible(a) /\ Admit(a)
  <2>1. stage[a].state = "live" /\ stage[a].index
    BY <1>4 DEF Admissible, Reserve, StagedInv, WorkerOK, At
  <2>2. Promise!Complete(a)
    BY <1>1, <2>1 DEF StagedInv, AttemptOK, Promise!Complete
  <2>3. Promise!NoneAfter(a) /\ Outcomes[a] = "none"
    BY <1>1, <1>4, OutcomeOfRun DEF Admissible
  <2>4. Outcomes' = [b \in Attempts |-> IF b = a THEN "open"
                                        ELSE IF Outcomes[b] = "none" THEN "none" ELSE "closed"]
    <3>1. PICK c \in Attempts : c = a
      BY <1>1
    <3> DEFINE new == [NoRun EXCEPT !.state = "uploading"]
    <3>2. new.state = "uploading"
      BY DEF NoRun
    <3>3. run' = [b \in Attempts |->
                    IF b = c THEN new
                    ELSE IF Active(b) THEN [run[b] EXCEPT !.state = "closed"] ELSE run[b]]
      BY <1>4, <3>1 DEF Admit
    <3> HIDE DEF new
    <3>4. Outcome(c)' = "open"
      BY <3>2, <3>3 DEF Outcome
    <3>5. ASSUME NEW b \in Attempts, b # c, ~Active(b)
          PROVE  /\ Outcome(b)' = Outcome(b)
                 /\ Outcomes[b] = Outcome(b) /\ Outcome(b) \in {"none", "closed"}
      BY <3>3, <3>5 DEF Outcomes, Outcome, Active, None
    <3>6. ASSUME NEW b \in Attempts, b # c, Active(b)
          PROVE  Outcome(b)' = "closed" /\ Outcomes[b] # "none"
      <4>1. run'[b].state = "closed"
        BY <3>3, <3>6, TypesOK DEF Runs
      <4> QED BY <3>6, <4>1, OutcomeOfRun DEF Outcome, Active
    <3>7. ASSUME NEW b \in Attempts
          PROVE  Outcome(b)' = IF b = c THEN "open"
                               ELSE IF Outcomes[b] = "none" THEN "none" ELSE "closed"
      BY <3>4, <3>5, <3>6
    <3>8. Outcomes' = [b \in Attempts |-> Outcome(b)']
      BY DEF Outcomes
    <3> QED BY <3>1, <3>7, <3>8
  <2>5. Promise!Admit(a)
    BY <1>1, <1>2, <2>1, <2>2, <2>3, <2>4, PlaceOf DEF Promise!Admit
  <2> QED BY <1>1, <2>5 DEF Promise!Next
<1> QED BY <1>3, <1>4 DEF Reserve

LEMMA SealIsStep ==
  ASSUME StagedInv, NEW w \in Workers, SealRun(w)
  PROVE  [Promise!Next]_(Promise!submissions)
<1>1. At(w) \in Attempts /\ UNCHANGED <<stage, files, objects, lost>>
  BY TypesOK DEF SealRun
<1>2. CASE UNCHANGED run
  BY <1>1, <1>2, NothingSeen DEF SameStages, SameRuns, SameStore
<1>3. CASE /\ run[At(w)].state = "uploading"
           /\ run' = [run EXCEPT ![At(w)].state = "comparing", ![At(w)].sealed = TRUE]
  BY <1>1, <1>3, TurnIsStep
<1> QED BY <1>2, <1>3 DEF SealRun

\* A sealed run is not sealed again by its comparison.
LEMMA CompareIsUnseen ==
  ASSUME StagedInv, NEW w \in Workers, CreateComparison(w)
  PROVE  [Promise!Next]_(Promise!submissions)
<1>1. At(w) \in Attempts /\ UNCHANGED <<stage, files, objects, lost>>
  BY TypesOK DEF CreateComparison
<1>2. CASE UNCHANGED run
  BY <1>1, <1>2, NothingSeen DEF SameStages, SameRuns, SameStore
<1>3. CASE run[At(w)].state = "comparing" /\ run' = [run EXCEPT ![At(w)].state = "compared"]
  <2>1. run'[At(w)].state = "compared" /\ \A b \in Attempts : b # At(w) => run'[b] = run[b]
    BY <1>1, <1>3, TypesOK DEF Runs
  <2>2. \A b \in Attempts : Outcome(b)' = Outcome(b)
    BY <1>3, <2>1 DEF Outcome
  <2>3. Outcomes' = Outcomes
    BY <2>2 DEF Outcomes
  <2>4. StagePlaces' = StagePlaces /\ Traces' = Traces
    BY <1>1, SameStagesView DEF SameStages
  <2> QED BY <1>1, <2>3, <2>4 DEF Promise!submissions
<1> QED BY <1>2, <1>3 DEF CreateComparison

LEMMA FailureIsStep ==
  ASSUME StagedInv, NEW w \in Workers, CountFailure(w)
  PROVE  [Promise!Next]_(Promise!submissions)
<1>1. At(w) \in Attempts
  BY TypesOK
<1>2. /\ SameStore
      /\ \E failures, missing : stage' = [stage EXCEPT ![At(w)].failures = failures,
                                                       ![At(w)].missing = missing]
  BY DEF CountFailure, SweepEnds, SameStore
<1>3. SameStages
  BY <1>1, <1>2, SweepWrite
<1>4. CASE UNCHANGED run
  BY <1>2, <1>3, <1>4, NothingSeen DEF SameRuns
<1>5. CASE run[At(w)].state = "uploading" /\ run' = [run EXCEPT ![At(w)].state = "failed"]
  BY <1>1, <1>2, <1>3, <1>5, TurnIsStep
<1> QED BY <1>4, <1>5 DEF CountFailure

LEMMA CloseIsStep ==
  ASSUME StagedInv, NEW a \in Attempts, RetireRun(a) \/ ExpireIncomplete(a)
  PROVE  Promise!Next
<1>1. /\ UNCHANGED <<stage, files, objects, lost>> /\ Active(a)
      /\ run' = [run EXCEPT ![a].state = "closed"]
  BY DEF RetireRun, ExpireIncomplete
<1> QED BY <1>1, TurnIsStep

\* Staged retention.
LEMMA ClaimIsStep ==
  ASSUME StagedInv, NEW w \in Workers, NEW a \in Attempts, ClaimDeletion(w, a)
  PROVE  [Promise!Next]_(Promise!submissions)
<1>1. UNCHANGED <<files, run, objects, lost>> /\ Deletable(a)
  BY DEF ClaimDeletion
<1>2. /\ stage'[a].state = "deleting" /\ stage'[a].rows = stage[a].rows
      /\ stage'[a].index = stage[a].index /\ stage'[a].job = stage[a].job
      /\ \A b \in Attempts : b # a => stage'[b] = stage[b] /\ files'[b] = files[b]
  BY <1>1, TypesOK DEF ClaimDeletion, Stages
<1>3. StagePlaces' = [StagePlaces EXCEPT ![a] = "deleting"] /\ Traces' = Traces
  BY <1>1, <1>2, OneStageView
<1>4. Outcomes' = Outcomes
  BY <1>1, SameRunsView DEF SameRuns
<1>5. CASE stage[a].state = "live"
  <2>1. Outcomes[a] \notin {"open", "failed"}
    BY <1>1, OutcomeOfRun DEF Deletable
  <2>2. Promise!Claim(a)
    BY <1>1, <1>3, <1>4, <1>5, <2>1, PlaceOf DEF Promise!Claim
  <2> QED BY <2>2 DEF Promise!Next
<1>6. CASE stage[a].state = "deleting"
  <2>1. SameStages /\ SameRuns /\ SameStore
    BY <1>1, <1>2, <1>6 DEF SameStages, SameRuns, SameStore
  <2> QED BY <2>1, NothingSeen
<1> QED BY <1>1, <1>5, <1>6 DEF Deletable

\* A renewal changes nothing that a submitter sees.
LEMMA RenewedUnseen ==
  ASSUME StagedInv, NEW w \in Workers, stage' = Renewed(w)
  PROVE  SameStages
<1>1. At(w) \in Attempts
  BY TypesOK
<1>2. \E x : stage' = [stage EXCEPT ![At(w)].until = x]
  BY DEF Renewed
<1> QED BY <1>1, <1>2, QuietWrite

LEMMA OriginalsIsStep ==
  ASSUME StagedInv, NEW w \in Workers, DeleteOriginals(w)
  PROVE  [Promise!Next]_(Promise!submissions)
<1> DEFINE a == At(w)
<1>1. /\ a \in Attempts /\ UNCHANGED <<files, run, lost>> /\ AttemptOK(a)
      /\ worker[w].place = "originals"
  BY TypesOK DEF DeleteOriginals, StagedInv
<1>2. /\ stage[a].state \in {"deleting", "deleted"}
      /\ worker[w].converted <=> run[a].state # None
  BY <1>1, DeletingPlaces DEF StagedInv, WorkerOK, At
<1>3. CASE UNCHANGED <<objects, stage>>
  BY <1>1, <1>3, NothingSeen DEF SameStages, SameRuns, SameStore
<1>4. CASE /\ ~worker[w].converted /\ stage' = Renewed(w)
           /\ \E page \in SUBSET objects[a] : objects' = [objects EXCEPT ![a] = @ \ page]
  <2>1. SameStages
    BY <1>4, RenewedUnseen
  <2>2. PICK page \in SUBSET objects[a] : objects' = [objects EXCEPT ![a] = @ \ page]
    BY <1>4
  <2>3. StagePlaces' = StagePlaces /\ Traces' = Traces /\ Outcomes' = Outcomes
    BY <1>1, <2>1, SameStagesView, SameRunsView DEF SameRuns
  <2>4. Outcomes[a] = "none" /\ run[a].state = None
    BY <1>1, <1>2, <1>4, OutcomeOfRun
  <2>5. CASE stage[a].state = "deleting"
    <3>1. objects[a] \ page \in SUBSET objects[a]
      OBVIOUS
    <3>2. Promise!Erase(a)
      BY <1>1, <2>2, <2>3, <2>4, <2>5, <3>1, PlaceOf DEF Promise!Erase
    <3> QED BY <1>1, <3>2 DEF Promise!Next
  <2>6. CASE stage[a].state = "deleted"
    <3>1. objects[a] = {}
      BY <1>1, <2>4, <2>6 DEF AttemptOK
    <3>2. objects' = objects
      BY <1>1, <2>2, <3>1, TypesOK
    <3> QED BY <1>1, <2>3, <3>2 DEF Promise!submissions
  <2> QED BY <1>2, <2>5, <2>6
<1> QED BY <1>3, <1>4 DEF DeleteOriginals

LEMMA FilesIsStep ==
  ASSUME StagedInv, NEW w \in Workers, DeleteFiles(w)
  PROVE  [Promise!Next]_(Promise!submissions)
<1> DEFINE a == At(w)
<1>1. /\ a \in Attempts /\ UNCHANGED <<run, objects, lost>> /\ AttemptOK(a)
      /\ worker[w].place = "files" /\ stage' = Renewed(w)
  BY TypesOK DEF DeleteFiles, StagedInv
<1>2. stage[a].state \in {"deleting", "deleted"}
  BY <1>1, DeletingPlaces DEF StagedInv, WorkerOK, At
<1>3. SameStages /\ SameRuns
  BY <1>1, RenewedUnseen DEF SameRuns
<1>4. PICK page \in SUBSET files[a] : files' = [files EXCEPT ![a] = @ \ page]
  BY DEF DeleteFiles
<1>5. \A b \in Attempts : b # a => files'[b] = files[b]
  BY <1>4, TypesOK
<1>6. /\ StagePlaces' = StagePlaces /\ Outcomes' = Outcomes
      /\ \A b \in Attempts : b # a => (b \in Traces' <=> b \in Traces)
      /\ Traces \subseteq Attempts /\ Traces' \subseteq Attempts
  BY <1>3, <1>5, SameRunsView DEF SameStages, StagePlaces, Traces
<1>7. CASE stage[a].state = "deleting" /\ a \notin Traces'
  <2>1. Traces' = Traces \ {a}
    BY <1>6, <1>7
  <2>2. Promise!Erase(a)
    BY <1>1, <1>6, <1>7, <2>1, PlaceOf DEF Promise!Erase
  <2> QED BY <1>1, <2>2 DEF Promise!Next
<1>8. CASE a \in Traces'
  <2>1. a \in Traces
    <3>1. files'[a] # {} => files[a] # {}
      BY <1>1, <1>4, TypesOK
    <3> QED BY <1>1, <1>3, <1>8, <3>1 DEF Traces, SameStages
  <2>2. Traces' = Traces
    BY <1>6, <1>8, <2>1
  <2> QED BY <1>1, <1>6, <2>2 DEF Promise!submissions
<1>9. CASE stage[a].state = "deleted"
  <2>1. files[a] = {}
    BY <1>9, <1>1 DEF AttemptOK
  <2>2. files' = files
    BY <1>1, <1>4, <2>1, TypesOK
  <2> QED BY <1>1, <1>3, <2>2, NothingSeen DEF SameStore
<1> QED BY <1>2, <1>7, <1>8, <1>9

LEMMA RowsIsStep ==
  ASSUME StagedInv, NEW w \in Workers, DeleteRows(w)
  PROVE  [Promise!Next]_(Promise!submissions)
<1> DEFINE a == At(w)
<1>1. /\ a \in Attempts /\ UNCHANGED <<files, run, objects, lost>>
      /\ worker[w].place = "rows" /\ stage \in [Attempts -> Stages]
  BY TypesOK DEF DeleteRows
<1>2. files[a] = {} /\ (run[a].state = None => objects[a] = {})
  BY <1>1, DeletingPlaces DEF StagedInv, WorkerOK, At
<1>3. Outcomes' = Outcomes /\ SameRuns
  BY <1>1, SameRunsView DEF SameRuns
<1>4. CASE UNCHANGED stage
  BY <1>1, <1>4, NothingSeen DEF SameStages, SameRuns, SameStore
<1>5. CASE /\ stage[a].state = "deleting" /\ stage[a].rows = {} /\ ~stage[a].index
           /\ ~stage[a].job
           /\ stage' = [stage EXCEPT ![a].state = "deleted", ![a].token = None,
                                     ![a].until = FALSE]
  <2>1. /\ stage'[a].state = "deleted" /\ stage'[a].rows = stage[a].rows
        /\ stage'[a].index = stage[a].index /\ stage'[a].job = stage[a].job
        /\ \A b \in Attempts : b # a => stage'[b] = stage[b] /\ files'[b] = files[b]
    BY <1>1, <1>5 DEF Stages
  <2>2. /\ StagePlaces' = [StagePlaces EXCEPT ![a] = "deleted"]
        /\ a \notin Traces /\ Traces' = Traces
    BY <1>1, <1>2, <1>5, <2>1, OneStageView
  <2>3. Outcomes[a] = "none" => objects[a] = {}
    BY <1>1, <1>2, OutcomeOfRun
  <2>4. Promise!Delete(a)
    BY <1>1, <1>3, <1>5, <2>2, <2>3, PlaceOf DEF Promise!Delete
  <2> QED BY <1>1, <2>4 DEF Promise!Next
<1>6. CASE /\ stage[a].state = "deleting"
           /\ stage' = [stage EXCEPT ![a].rows = {}, ![a].complete = {},
                                     ![a].index = FALSE, ![a].job = FALSE]
  <2>1. /\ stage'[a].state = stage[a].state /\ stage'[a].rows = {}
        /\ ~stage'[a].index /\ ~stage'[a].job
        /\ \A b \in Attempts : b # a => stage'[b] = stage[b] /\ files'[b] = files[b]
    BY <1>1, <1>6 DEF Stages
  <2>2. a \notin Traces'
    BY <1>1, <1>2, <2>1, OneStageView
  <2>3. StagePlaces' = StagePlaces /\ Traces' = Traces \ {a}
    BY <1>1, <2>1, <2>2, OneStageView
  <2>4. Promise!Erase(a)
    BY <1>1, <1>3, <1>6, <2>3, PlaceOf DEF Promise!Erase
  <2> QED BY <1>1, <2>4 DEF Promise!Next
<1> QED BY <1>4, <1>5, <1>6 DEF DeleteRows, Holds

LEMMA SubmissionStep ==
  ASSUME StagedInv, [Next]_vars
  PROVE  [Promise!Next]_(Promise!submissions)
<1>1. CASE UNCHANGED vars
  BY <1>1, UnseenOutside, NothingSeen
<1>2. ASSUME NEW a \in Attempts, Client(a) \/ Environment(a) \/ Time(a) \/ Leases(a)
      PROVE  [Promise!Next]_(Promise!submissions)
  <2>1. CASE ReserveStagedRun(a) \/ AddJob(a) \/ PutPage(a) \/ PutIndex(a)
    BY <2>1, BeginIsStep, AddJobIsStep, PutFileIsStep
  <2>2. CASE \E i \in Images : PutImage(a, i) \/ ReuseImage(a, i) \/ LoseOriginal(a, i)
    BY <2>2, PutImageIsStep, LoseIsStep
  <2>3. CASE RetireRun(a) \/ ExpireIncomplete(a)
    BY <2>3, CloseIsStep
  <2>4. CASE \/ SelectReference(a) \/ SubmitStaged(a) \/ EndJob(a) \/ StartJob(a) \/ GetOld(a)
             \/ LeaseEnds(a) \/ DeletionLeaseEnds(a) \/ BaselineMoves(a) \/ FailCheck(a)
    BY <2>4, UnseenOutside, NothingSeen
  <2> QED BY <1>2, <2>1, <2>2, <2>3, <2>4 DEF Client, Environment, Time, Leases
<1>3. ASSUME NEW r \in request, SettleRequest(r) \/ RequestEnds(r)
      PROVE  [Promise!Next]_(Promise!submissions)
  BY <1>3, SettleIsStep, UnseenOutside, NothingSeen
<1>4. ASSUME NEW w \in Workers, Convert(w)
      PROVE  [Promise!Next]_(Promise!submissions)
  BY <1>4, ReserveIsStep, SealIsStep, CompareIsUnseen, FailureIsStep, UnseenWork, NothingSeen
     DEF Convert
<1>5. ASSUME NEW w \in Workers, Delete(w)
      PROVE  [Promise!Next]_(Promise!submissions)
  BY <1>5, OriginalsIsStep, FilesIsStep, RowsIsStep, UnseenWork, NothingSeen DEF Delete
<1>6. ASSUME NEW w \in Workers,
             \/ TransientFailure(w) \/ Stop(w)
             \/ \E a \in Attempts : SelectStage(w, a) \/ ClaimDeletion(w, a)
      PROVE  [Promise!Next]_(Promise!submissions)
  BY <1>6, ClaimIsStep, UnseenWork, NothingSeen
<1> QED BY <1>1, <1>2, <1>3, <1>4, <1>5, <1>6 DEF Next

LEMMA SubmissionsBegin == Init => Promise!Init
<1> SUFFICES ASSUME Init PROVE Promise!Init
  OBVIOUS
<1>1. \A a \in Attempts : stage[a] = NoStage /\ run[a] = NoRun /\ files[a] = {}
  BY DEF Init
<1>2. Traces = {}
  BY <1>1 DEF Traces, NoStage
<1>3. StagePlaces = [a \in Attempts |-> "none"] /\ Outcomes = [a \in Attempts |-> "none"]
  BY <1>1 DEF StagePlaces, Outcomes, Outcome, NoStage, NoRun, None
<1>4. objects = [a \in Attempts |-> {}] /\ lost = [a \in Attempts |-> {}]
  BY DEF Init
<1> QED BY <1>2, <1>3, <1>4 DEF Promise!Init

\* Whatever requests, sweeps and retention passes overlap, and wherever one
\* stops: each attempt is staged, becomes a run, and is deleted as Submissions
\* promises.
THEOREM StagedImplementsSubmissions == Spec => ImplementsSubmissions
<1>1. Init => Promise!Init
  BY SubmissionsBegin
<1>2. StagedInv /\ [Next]_vars => [Promise!Next]_(Promise!submissions)
  BY SubmissionStep
<1> QED BY <1>1, <1>2, StagedInvariantHolds, PTL DEF Spec, ImplementsSubmissions, Promise!Spec

=============================================================================
