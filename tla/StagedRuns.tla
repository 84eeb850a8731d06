----------------------------- MODULE StagedRuns -----------------------------
(***************************************************************************)
(* Staged submissions: the attempts of one workflow run stage their images *)
(* (workflow-owned.ts), sweeps turn a submitted stage into a run           *)
(* (workflow-materialize.ts) while staged retention deletes old stages     *)
(* (workflow-retention.ts).  A Submit job is a client that may repeat each *)
(* request, and each request may end at any time.                          *)
(***************************************************************************)
EXTENDS Integers

CONSTANTS Images,     \* the images that the pages of an attempt upload
          Workers,    \* sweeps and retention passes
          MaxAttempt, \* attempts of the workflow run
          Burst,      \* retryBurst
          MaxFaults   \* bound: failed reads, stopped workers, lost originals

ASSUME StagedRunsAssumption ==
  /\ MaxAttempt \in Nat \ {0} /\ Burst \in Nat \ {0}
  /\ MaxFaults \in Nat
  /\ Images # {}

VARIABLES client,   \* the Submit job of an attempt
          request,  \* requests that wait for their last batch
          stage,    \* ingest_staged_runs, with its jobs, image rows and index
          objects,  \* originals under runs/<id>/images/
          files,    \* pages and index under quarantine/staged/<id>/
          run,      \* visonaut_runs, with its shard and comparison
          check,    \* the state of the pre-run check of an attempt
          stale,    \* attempts whose reference is no longer the baseline
          worker,   \* the place of each worker
          faults, lost

vars == <<client, request, stage, objects, files, run, check, stale, worker,
          faults, lost>>

Attempts == 1..MaxAttempt
None == "none"

Stages ==
  [state : {None, "live", "deleting", "deleted"}, old : BOOLEAN,
   lease : BOOLEAN, job : BOOLEAN, reference : BOOLEAN, rows : SUBSET Images,
   complete : SUBSET Images, index : BOOLEAN, submitted : BOOLEAN,
   failures : 0..Burst, missing : 0..Burst,
   token : Workers \cup {None}, until : BOOLEAN]
NoStage ==
  [state |-> None, old |-> FALSE, lease |-> FALSE, job |-> FALSE,
   reference |-> FALSE, rows |-> {}, complete |-> {}, index |-> FALSE,
   submitted |-> FALSE, failures |-> 0, missing |-> 0, token |-> None,
   until |-> FALSE]

RunStates == {None, "uploading", "failed", "comparing", "compared", "closed"}
Runs == [state : RunStates, sealed : BOOLEAN, images : SUBSET Images,
         shard : BOOLEAN]
NoRun == [state |-> None, sealed |-> FALSE, images |-> {}, shard |-> FALSE]

Active(a) == run[a].state \notin {None, "closed"}
Compared(a) == run[a].state = "compared"

Requests == [attempt : Attempts, kind : {"declare", "upload", "index"},
             image : Images]

Converting == {"lease", "reconcile", "reserve", "register", "store", "commit",
               "seal", "compare"}
Deleting == {"claimed", "originals", "files", "rows", "release"}
Places == {"idle", "read", "finish", "stale", "missing", "incomplete"}
            \cup Converting \cup Deleting
Locals == [place : Places, attempt : Attempts, failures : 0..Burst,
           missing : 0..Burst, uploading : BOOLEAN, converted : BOOLEAN,
           more : BOOLEAN]
Idle == [place |-> "idle", attempt |-> 1, failures |-> 0, missing |-> 0,
         uploading |-> FALSE, converted |-> FALSE, more |-> FALSE]

TypeOK ==
  /\ client \in [Attempts -> {"waiting", "running", "over"}]
  /\ request \in SUBSET Requests
  /\ stage \in [Attempts -> Stages]
  /\ objects \in [Attempts -> SUBSET Images]
  /\ files \in [Attempts -> SUBSET {"page", "index"}]
  /\ run \in [Attempts -> Runs]
  /\ check \in [Attempts -> {"active", "failed"}]
  /\ stale \in SUBSET Attempts
  /\ worker \in [Workers -> Locals]
  /\ faults \in 0..MaxFaults
  /\ lost \in [Attempts -> SUBSET Images]

Init ==
  /\ client = [a \in Attempts |-> "waiting"]
  /\ request = {}
  /\ stage = [a \in Attempts |-> NoStage]
  /\ objects = [a \in Attempts |-> {}]
  /\ files = [a \in Attempts |-> {}]
  /\ run = [a \in Attempts |-> NoRun]
  /\ check = [a \in Attempts |-> "active"]
  /\ stale = {}
  /\ worker = [w \in Workers |-> Idle]
  /\ faults = 0
  /\ lost = [a \in Attempts |-> {}]

-----------------------------------------------------------------------------
(* The Submit job and its requests *)

Open(a) == stage[a].state = "live" /\ ~stage[a].submitted
Served(a) == client[a] = "running" /\ Open(a) /\ stage[a].job

ReserveStagedRun(a) ==
  /\ client[a] = "running" /\ stage[a].state = None
  /\ stage' = [stage EXCEPT ![a] = [NoStage EXCEPT !.state = "live"]]
  /\ UNCHANGED <<client, request, objects, files, run, check, stale, worker,
                 faults, lost>>

AddJob(a) ==
  /\ client[a] = "running" /\ Open(a) /\ ~stage[a].job
  /\ stage' = [stage EXCEPT ![a].job = TRUE]
  /\ UNCHANGED <<client, request, objects, files, run, check, stale, worker,
                 faults, lost>>

SelectReference(a) ==
  /\ Served(a) /\ ~stage[a].reference
  /\ stage' = [stage EXCEPT ![a].reference = TRUE]
  /\ UNCHANGED <<client, request, objects, files, run, check, stale, worker,
                 faults, lost>>

\* declareStagedPage up to its batch: the page object comes before the rows.
PutPage(a) ==
  /\ Served(a) /\ stage[a].reference /\ a \notin stale /\ ~stage[a].index
  /\ files' = [files EXCEPT ![a] = @ \cup {"page"}]
  /\ \E i \in Images :
       request' = request \cup {[attempt |-> a, kind |-> "declare", image |-> i]}
  /\ UNCHANGED <<client, stage, objects, run, check, stale, worker, faults, lost>>

\* uploadStagedImage up to its batch: the object comes before the row is complete.
PutImage(a, i) ==
  /\ Served(a) /\ i \in stage[a].rows
  /\ objects' = [objects EXCEPT ![a] = @ \cup {i}]
  /\ request' = request \cup {[attempt |-> a, kind |-> "upload", image |-> i]}
  /\ UNCHANGED <<client, stage, files, run, check, stale, worker, faults, lost>>

ReusableFrom(a, i) ==
  {b \in Attempts \ {a} : /\ stage[b].state = "live" /\ stage[b].submitted
                          /\ i \in stage[b].complete}

\* reuseStagedImages up to its batch: the bytes come from an earlier stage.
ReuseImage(a, i) ==
  /\ Served(a) /\ i \in stage[a].rows \ stage[a].complete
  /\ \E b \in ReusableFrom(a, i) : i \in objects[b]
  /\ objects' = [objects EXCEPT ![a] = @ \cup {i}]
  /\ request' = request \cup {[attempt |-> a, kind |-> "upload", image |-> i]}
  /\ UNCHANGED <<client, stage, files, run, check, stale, worker, faults, lost>>

PagesAreComplete(a) ==
  /\ "page" \in files[a]
  /\ stage[a].rows = Images /\ stage[a].complete = Images

\* stageIndex up to its batch.
PutIndex(a) ==
  /\ Served(a) /\ ~stage[a].index
  /\ stage[a].reference /\ a \notin stale
  /\ PagesAreComplete(a)
  /\ files' = [files EXCEPT ![a] = @ \cup {"index"}]
  /\ \E i \in Images :
       request' = request \cup {[attempt |-> a, kind |-> "index", image |-> i]}
  /\ UNCHANGED <<client, stage, objects, run, check, stale, worker, faults, lost>>

\* The fence of every batch of a request, and the triggers of an indexed stage.
RowsChange(a, rows, complete) ==
  /\ Open(a)
  /\ ~stage[a].index
  /\ stage' = [stage EXCEPT ![a].rows = rows, ![a].complete = complete]

Settle(r) ==
  \/ /\ r.kind = "declare"
     /\ RowsChange(r.attempt, stage[r.attempt].rows \cup {r.image},
                   stage[r.attempt].complete)
  \/ /\ r.kind = "upload"
     /\ RowsChange(r.attempt, stage[r.attempt].rows,
                   stage[r.attempt].complete \cup {r.image})
  \/ /\ r.kind = "index"
     /\ Open(r.attempt) /\ PagesAreComplete(r.attempt)
     /\ stage' = [stage EXCEPT ![r.attempt].index = TRUE]

SettleRequest(r) ==
  /\ Settle(r)
  /\ request' = request \ {r}
  /\ UNCHANGED <<client, objects, files, run, check, stale, worker, faults, lost>>

\* A batch that its fence refuses, or a handler that stops.
RequestEnds(r) ==
  /\ request' = request \ {r}
  /\ UNCHANGED <<client, stage, objects, files, run, check, stale, worker,
                 faults, lost>>

SubmitStaged(a) ==
  /\ client[a] = "running" /\ Open(a) /\ check[a] = "active"
  /\ stage' = [stage EXCEPT ![a].submitted = TRUE]
  /\ UNCHANGED <<client, request, objects, files, run, check, stale, worker,
                 faults, lost>>

EndJob(a) ==
  /\ client[a] = "running"
  /\ client' = [client EXCEPT ![a] = "over"]
  /\ UNCHANGED <<request, stage, objects, files, run, check, stale, worker,
                 faults, lost>>

StartJob(a) ==
  /\ client[a] = "waiting" /\ (a > 1 => client[a - 1] = "over")
  /\ client' = [client EXCEPT ![a] = "running"]
  /\ UNCHANGED <<request, stage, objects, files, run, check, stale, worker,
                 faults, lost>>

-----------------------------------------------------------------------------
(* The rest of the service, and time *)

\* A Submit job is over before its stage is a day old.
GetOld(a) ==
  /\ client[a] = "over" /\ \A r \in request : r.attempt # a
  /\ stage[a].state # None /\ ~stage[a].old
  /\ stage' = [stage EXCEPT ![a].old = TRUE]
  /\ UNCHANGED <<client, request, objects, files, run, check, stale, worker,
                 faults, lost>>

LeaseEnds(a) ==
  /\ stage[a].lease
  /\ stage' = [stage EXCEPT ![a].lease = FALSE]
  /\ UNCHANGED <<client, request, objects, files, run, check, stale, worker,
                 faults, lost>>

\* A pass is shorter than its lease, except for the slow ones that MaxFaults allows.
DeletionLeaseEnds(a) ==
  LET slow == \E w \in Workers : worker[w].place \in Deleting /\ worker[w].attempt = a IN
  /\ stage[a].state = "deleting" /\ stage[a].until
  /\ (slow => faults < MaxFaults)
  /\ faults' = IF slow THEN faults + 1 ELSE faults
  /\ stage' = [stage EXCEPT ![a].until = FALSE]
  /\ UNCHANGED <<client, request, objects, files, run, check, stale, worker, lost>>

BaselineMoves(a) ==
  /\ stage[a].reference /\ a \notin stale
  /\ stale' = stale \cup {a}
  /\ UNCHANGED <<client, request, stage, objects, files, run, check, worker,
                 faults, lost>>

\* settlePreRunWorkflow: a workflow that failed before its conversion.
FailCheck(a) ==
  /\ run[a].state = None /\ check[a] = "active"
  /\ check' = [check EXCEPT ![a] = "failed"]
  /\ UNCHANGED <<client, request, stage, objects, files, run, stale, worker,
                 faults, lost>>

RetireRun(a) ==
  /\ Active(a)
  /\ run' = [run EXCEPT ![a].state = "closed"]
  /\ UNCHANGED <<client, request, stage, objects, files, check, stale, worker,
                 faults, lost>>

LoseOriginal(a, i) ==
  /\ i \in objects[a] /\ faults < MaxFaults
  /\ faults' = faults + 1
  /\ objects' = [objects EXCEPT ![a] = @ \ {i}]
  /\ lost' = [lost EXCEPT ![a] = @ \cup {i}]
  /\ UNCHANGED <<client, request, stage, files, run, check, stale, worker>>

-----------------------------------------------------------------------------
(* A sweep: reconcileStagedWorkflows and materializeWorkflowRun *)

At(w) == worker[w].attempt
Goto(w, place) == worker' = [worker EXCEPT ![w].place = place]

Convertible(a) ==
  /\ stage[a].state = "live" /\ stage[a].submitted /\ ~stage[a].old
  /\ run[a].state \in {None, "uploading", "comparing"}
  /\ ~(run[a].state = None /\ check[a] = "failed")
  /\ \A b \in Attempts : b > a => ~run[b].sealed

SelectStage(w, a) ==
  /\ worker[w].place = "idle" /\ Convertible(a)
  /\ worker' = [worker EXCEPT ![w] =
       [Idle EXCEPT !.place = "read", !.attempt = a,
                    !.failures = stage[a].failures,
                    !.missing = stage[a].missing]]
  /\ UNCHANGED <<client, request, stage, objects, files, run, check, stale,
                 faults, lost>>

ReadRun(w) ==
  LET previous == run[At(w)] IN
  /\ worker[w].place = "read"
  /\ worker' = [worker EXCEPT
       ![w].uploading = previous.state = "uploading",
       ![w].place =
         CASE previous.state = "comparing"              -> "compare"
           [] previous.sealed /\ previous.state # "comparing" -> "finish"
           [] previous.state \in {None, "uploading"}    -> "lease"
           [] OTHER                                     -> "incomplete"]
  /\ UNCHANGED <<client, request, stage, objects, files, run, check, stale,
                 faults, lost>>

LeaseSources(w) ==
  LET a == At(w) IN
  /\ worker[w].place = "lease"
  /\ IF stage[a].state = "live" /\ stage[a].submitted /\ ~stage[a].old
     THEN /\ stage' = [stage EXCEPT ![a].lease = TRUE]
          /\ Goto(w, IF worker[w].uploading /\ a \in stale THEN "stale" ELSE "reconcile")
     ELSE Goto(w, "incomplete") /\ UNCHANGED stage
  /\ UNCHANGED <<client, request, objects, files, run, check, stale, faults, lost>>

ReconcileJobs(w) ==
  LET a == At(w) IN
  /\ worker[w].place = "reconcile"
  /\ Goto(w, IF /\ stage[a].state = "live" /\ stage[a].submitted
                /\ stage[a].index /\ "index" \in files[a]
             THEN "reserve" ELSE "incomplete")
  /\ UNCHANGED <<client, request, stage, objects, files, run, check, stale,
                 faults, lost>>

\* The batch of reserveRun closes the attempts before it.
Admit(a) ==
  run' = [b \in Attempts |->
            IF b = a THEN [NoRun EXCEPT !.state = "uploading"]
            ELSE IF Active(b) THEN [run[b] EXCEPT !.state = "closed"] ELSE run[b]]

\* Mutant: a run is admitted for a stage that retention has claimed.
AdmissibleClaimed(a) ==
  /\ stage[a].submitted /\ check[a] = "active"
  /\ \A b \in Attempts : b > a => run[b].state = None

Admissible(a) ==
  /\ stage[a].state = "live" /\ stage[a].submitted
  /\ check[a] = "active"
  /\ \A b \in Attempts : b > a => run[b].state = None

Reserve(w) ==
  LET a == At(w) IN
  /\ worker[w].place = "reserve"
  /\ \/ /\ run[a].state = None /\ Admissible(a)
        /\ Admit(a) /\ Goto(w, "register")
     \/ /\ run[a].state = None /\ ~Admissible(a)
        /\ Goto(w, "incomplete") /\ UNCHANGED run
     \/ /\ run[a].state # None
        /\ Goto(w, IF Active(a) THEN "register" ELSE "incomplete")
        /\ UNCHANGED run
  /\ UNCHANGED <<client, request, stage, objects, files, check, stale, faults, lost>>

\* The reads of materializeBundle and registerStagedImages.
VerifyImages(w) ==
  LET a == At(w) IN
  /\ worker[w].place = "register"
  /\ Goto(w, IF a \in stale THEN "stale"
             ELSE IF ~PagesAreComplete(a) THEN "incomplete"
             ELSE IF Images \subseteq objects[a] THEN "store" ELSE "missing")
  /\ UNCHANGED <<client, request, stage, objects, files, run, check, stale,
                 faults, lost>>

RegisterImages(w) ==
  LET a == At(w) IN
  /\ worker[w].place = "store"
  /\ IF run[a].state = "uploading"
     THEN run' = [run EXCEPT ![a].images = Images] /\ Goto(w, "commit")
     ELSE Goto(w, "incomplete") /\ UNCHANGED run
  /\ UNCHANGED <<client, request, stage, objects, files, check, stale, faults, lost>>

CommitShard(w) ==
  LET a == At(w) IN
  /\ worker[w].place = "commit"
  /\ \/ run[a].shard /\ Goto(w, "seal") /\ UNCHANGED run
     \/ /\ ~run[a].shard /\ Active(a) /\ run[a].images = Images
        /\ run' = [run EXCEPT ![a].shard = TRUE] /\ Goto(w, "seal")
     \/ /\ ~run[a].shard /\ ~(Active(a) /\ run[a].images = Images)
        /\ Goto(w, "incomplete") /\ UNCHANGED run
  /\ UNCHANGED <<client, request, stage, objects, files, check, stale, faults, lost>>

\* Mutant: sealing does not ask whether the run is still uploading.
SealRunAnyState(w) ==
  LET a == At(w) IN
  /\ worker[w].place = "seal"
  /\ run' = [run EXCEPT ![a].state = "comparing", ![a].sealed = TRUE]
  /\ Goto(w, "compare")
  /\ UNCHANGED <<client, request, stage, objects, files, check, stale, faults, lost>>

SealRun(w) ==
  LET a == At(w) IN
  /\ worker[w].place = "seal"
  /\ \/ run[a].sealed /\ Goto(w, "compare") /\ UNCHANGED run
     \/ /\ run[a].state = "uploading" /\ run[a].shard
        /\ run' = [run EXCEPT ![a].state = "comparing", ![a].sealed = TRUE]
        /\ Goto(w, "compare")
     \/ /\ ~run[a].sealed /\ ~(run[a].state = "uploading" /\ run[a].shard)
        /\ Goto(w, "incomplete") /\ UNCHANGED run
  /\ UNCHANGED <<client, request, stage, objects, files, check, stale, faults, lost>>

CreateComparison(w) ==
  LET a == At(w) IN
  /\ worker[w].place = "compare"
  /\ \/ /\ run[a].state = "comparing" /\ a \notin stale
        /\ run' = [run EXCEPT ![a].state = "compared"] /\ Goto(w, "finish")
     \/ run[a].state = "comparing" /\ a \in stale /\ Goto(w, "stale") /\ UNCHANGED run
     \/ /\ run[a].state # "comparing"
        /\ Goto(w, IF Compared(a) THEN "finish" ELSE "incomplete") /\ UNCHANGED run
  /\ UNCHANGED <<client, request, stage, objects, files, check, stale, faults, lost>>

SweepEnds(w, failures, missing) ==
  /\ stage' = [stage EXCEPT ![At(w)].failures = failures, ![At(w)].missing = missing]
  /\ worker' = [worker EXCEPT ![w] = Idle]
  /\ UNCHANGED <<client, request, objects, files, check, stale, faults, lost>>

Finish(w) ==
  /\ worker[w].place = "finish"
  /\ SweepEnds(w, 0, 0) /\ UNCHANGED run

More(n) == IF n = Burst THEN Burst ELSE n + 1

\* The catch of a sweep: a reference that moved, and an original that stays
\* missing, fail a run that is not sealed.
CountFailure(w) ==
  LET a == At(w)
      failures == More(worker[w].failures)
      missing == IF worker[w].place = "missing" THEN More(worker[w].missing) ELSE 0
      terminal == worker[w].place = "stale" \/ (failures = Burst /\ missing = Burst)
  IN
  /\ worker[w].place \in {"stale", "missing", "incomplete"}
  /\ run' = IF terminal /\ run[a].state = "uploading"
            THEN [run EXCEPT ![a].state = "failed"] ELSE run
  /\ SweepEnds(w, failures, missing)

\* A read of GitHub, D1 or R2 that fails for now.
TransientFailure(w) ==
  /\ worker[w].place \in Converting /\ faults < MaxFaults
  /\ faults' = faults + 1
  /\ Goto(w, "incomplete")
  /\ UNCHANGED <<client, request, stage, objects, files, run, check, stale, lost>>

Stop(w) ==
  /\ worker[w].place # "idle" /\ faults < MaxFaults
  /\ faults' = faults + 1
  /\ worker' = [worker EXCEPT ![w] = Idle]
  /\ UNCHANGED <<client, request, stage, objects, files, run, check, stale, lost>>

-----------------------------------------------------------------------------
(* Staged retention: expireStagedAttempts *)

\* Mutant: only a stage whose conversion holds its lease is closed.
ExpireIncompleteLeased(a) ==
  /\ stage[a].old /\ stage[a].state = "live" /\ stage[a].submitted /\ stage[a].lease
  /\ Active(a) /\ ~run[a].sealed
  /\ run' = [run EXCEPT ![a].state = "closed"]
  /\ check' = [check EXCEPT ![a] = "failed"]
  /\ UNCHANGED <<client, request, stage, objects, files, stale, worker, faults, lost>>

ExpireIncomplete(a) ==
  /\ stage[a].old /\ stage[a].state = "live" /\ stage[a].submitted /\ ~stage[a].lease
  /\ Active(a) /\ ~run[a].sealed
  /\ run' = [run EXCEPT ![a].state = "closed"]
  /\ check' = [check EXCEPT ![a] = "failed"]
  /\ UNCHANGED <<client, request, stage, objects, files, stale, worker, faults, lost>>

\* Mutant: a deletion that stopped is not claimed again.
DeletableLive(a) ==
  /\ stage[a].old /\ ~stage[a].lease /\ stage[a].state = "live"
  /\ run[a].state \in {None, "closed", "compared"}

Deletable(a) ==
  /\ stage[a].old /\ ~stage[a].lease
  /\ \/ stage[a].state = "live"
     \/ stage[a].state = "deleting" /\ ~stage[a].until
  /\ run[a].state \in {None, "closed", "compared"}

ClaimDeletion(w, a) ==
  /\ worker[w].place = "idle" /\ Deletable(a)
  /\ stage' = [stage EXCEPT ![a].state = "deleting", ![a].token = w, ![a].until = TRUE]
  /\ worker' = [worker EXCEPT ![w] = [Idle EXCEPT !.place = "claimed", !.attempt = a]]
  /\ UNCHANGED <<client, request, objects, files, run, check, stale, faults, lost>>

ReadMaterialized(w) ==
  /\ worker[w].place = "claimed"
  /\ worker' = [worker EXCEPT ![w].converted = run[At(w)].state # None,
                              ![w].place = "originals"]
  /\ UNCHANGED <<client, request, stage, objects, files, run, check, stale,
                 faults, lost>>

Holds(w) == stage[At(w)].state = "deleting" /\ stage[At(w)].token = w
Renewed(w) == [stage EXCEPT ![At(w)].until = IF Holds(w) THEN TRUE ELSE @]

\* deletePrefix runs even when the renewal before it changes no row.
DeleteOriginals(w) ==
  LET a == At(w) IN
  /\ worker[w].place = "originals"
  /\ IF worker[w].converted THEN Goto(w, "files") /\ UNCHANGED <<objects, stage>>
     ELSE \E page \in SUBSET objects[a] :
            /\ page = {} => objects[a] = {}
            /\ objects' = [objects EXCEPT ![a] = @ \ page]
            /\ stage' = Renewed(w)
            /\ worker' = [worker EXCEPT ![w].place = "files",
                                        ![w].more = page # objects[a]]
  /\ UNCHANGED <<client, request, files, run, check, stale, faults, lost>>

\* Mutant: a page of files that is not the last is taken for the last.
DeleteFilesOnce(w) ==
  LET a == At(w) IN
  /\ worker[w].place = "files"
  /\ \E page \in SUBSET files[a] :
       /\ page = {} => files[a] = {}
       /\ files' = [files EXCEPT ![a] = @ \ page]
       /\ stage' = Renewed(w) /\ Goto(w, "rows")
  /\ UNCHANGED <<client, request, objects, run, check, stale, faults, lost>>

DeleteFiles(w) ==
  LET a == At(w) IN
  /\ worker[w].place = "files"
  /\ \E page \in SUBSET files[a] :
       /\ page = {} => files[a] = {}
       /\ files' = [files EXCEPT ![a] = @ \ page]
       /\ stage' = Renewed(w)
       /\ Goto(w, IF worker[w].more \/ page # files[a] THEN "release" ELSE "rows")
  /\ UNCHANGED <<client, request, objects, run, check, stale, faults, lost>>

Release(w) ==
  LET a == At(w) IN
  /\ worker[w].place = "release"
  /\ stage' = [stage EXCEPT ![a].until = IF stage[a].token = w THEN FALSE ELSE @]
  /\ worker' = [worker EXCEPT ![w] = Idle]
  /\ UNCHANGED <<client, request, objects, files, run, check, stale, faults, lost>>

\* The child rows, then the row itself; a batch whose token is not current fails.
DeleteRows(w) ==
  LET a == At(w)
      current == Holds(w) /\ stage[a].until
      empty == stage[a].rows = {} /\ ~stage[a].index /\ ~stage[a].job IN
  /\ worker[w].place = "rows"
  /\ stage' = IF ~current THEN stage
              ELSE IF empty
              THEN [stage EXCEPT ![a].state = "deleted", ![a].token = None,
                                 ![a].until = FALSE]
              ELSE [stage EXCEPT ![a].rows = {}, ![a].complete = {},
                                 ![a].index = FALSE, ![a].job = FALSE]
  /\ worker' = IF current /\ ~empty THEN worker ELSE [worker EXCEPT ![w] = Idle]
  /\ UNCHANGED <<client, request, objects, files, run, check, stale, faults, lost>>

-----------------------------------------------------------------------------
Client(a) ==
  \/ ReserveStagedRun(a) \/ AddJob(a) \/ SelectReference(a) \/ PutPage(a)
  \/ PutIndex(a) \/ SubmitStaged(a)
  \/ \E i \in Images : ReuseImage(a, i) \/ PutImage(a, i)

Environment(a) ==
  \/ StartJob(a) \/ BaselineMoves(a) \/ FailCheck(a) \/ RetireRun(a)
  \/ \E i \in Images : LoseOriginal(a, i)

Convert(w) ==
  \/ ReadRun(w) \/ LeaseSources(w) \/ ReconcileJobs(w) \/ Reserve(w)
  \/ VerifyImages(w) \/ RegisterImages(w) \/ CommitShard(w) \/ SealRun(w)
  \/ CreateComparison(w) \/ Finish(w) \/ CountFailure(w)

Delete(w) ==
  \/ ReadMaterialized(w) \/ DeleteOriginals(w) \/ DeleteFiles(w)
  \/ Release(w) \/ DeleteRows(w)

Time(a) == EndJob(a) \/ GetOld(a)
Leases(a) == LeaseEnds(a) \/ DeletionLeaseEnds(a) \/ ExpireIncomplete(a)

Next ==
  \/ \E a \in Attempts : Client(a) \/ Environment(a) \/ Time(a) \/ Leases(a)
  \/ \E r \in request : SettleRequest(r) \/ RequestEnds(r)
  \/ \E w \in Workers :
       \/ Convert(w) \/ Delete(w) \/ TransientFailure(w) \/ Stop(w)
       \/ \E a \in Attempts : SelectStage(w, a) \/ ClaimDeletion(w, a)

Spec == Init /\ [][Next]_vars

\* Jobs and requests end, time passes, and the scheduler runs the passes.
FairSpec ==
  /\ Spec
  /\ WF_vars(\E r \in request : RequestEnds(r))
  /\ \A a \in Attempts :
       /\ WF_vars(Time(a)) /\ WF_vars(Leases(a))
       /\ SF_vars(\E w \in Workers : SelectStage(w, a))
       /\ SF_vars(\E w \in Workers : ClaimDeletion(w, a))
  /\ \A w \in Workers : WF_vars(Convert(w) \/ Delete(w))

-----------------------------------------------------------------------------
(* What the service promises *)

\* Staged retention never deletes the originals of a stage that became a run:
\* the claim fences reserveRun, and a claim of a converted stage keeps them.
\* (With the types of the rows.)
OriginalsKept ==
  /\ TypeOK
  /\ \A a \in Attempts : run[a].state # None => Images \subseteq objects[a] \cup lost[a]

\* A run is sealed only with every image of its index registered, and no
\* attempt is sealed after a newer one was admitted, whichever sweep it is.
OnlyNewestSeals ==
  [][\A a \in Attempts : run'[a].sealed /\ ~run[a].sealed =>
       /\ run[a].images = Images
       /\ \A b \in Attempts : b > a => run[b].state = None]_vars

\* Nothing of a deleted stage is left, except the originals of its run.
DeletedIsGone ==
  \A a \in Attempts : stage[a].state = "deleted" =>
    /\ files[a] = {} /\ stage[a].rows = {} /\ ~stage[a].job
    /\ run[a].state = None => objects[a] = {}

\* A run as its submitter sees it, and what is stored beside the originals.
Outcome(a) ==
  IF run[a].state = "uploading" THEN "open"
  ELSE IF run[a].state \in {"comparing", "compared"} THEN "sealed" ELSE run[a].state
Traces ==
  {a \in Attempts : \/ files[a] # {} \/ stage[a].rows # {}
                    \/ stage[a].index \/ stage[a].job}

StagePlaces == [a \in Attempts |-> stage[a].state]
Outcomes == [a \in Attempts |-> Outcome(a)]

Promise == INSTANCE Submissions WITH
  place <- StagePlaces, outcome <- Outcomes, originals <- objects, traces <- Traces

\* Whatever requests, sweeps and retention passes overlap, and wherever one
\* stops: each attempt is staged, becomes a run, and is deleted as
\* Submissions promises. Nothing of a deleted stage comes back.
ImplementsSubmissions == Promise!Spec

Settled(a) ==
  \/ run[a].state \in {"failed", "closed", "compared"}
  \/ stage[a].state = "deleted"
\* Sealing and comparison commit separately: a sealed run whose reference
\* moved, or whose day is over, gets no comparison any more.
Stranded(a) == run[a].state = "comparing" /\ (a \in stale \/ stage[a].old)

\* Each submitted stage becomes a compared run, a failed or closed one, or is
\* deleted, through stopped sweeps, failed reads and newer attempts.
SubmissionSettles ==
  \A a \in Attempts : stage[a].submitted ~> Settled(a) \/ Stranded(a)

\* An old stage is deleted, whatever stopped its conversion.
OldStageIsDeleted ==
  \A a \in Attempts : stage[a].old ~> stage[a].state = "deleted" \/ Stranded(a)
=============================================================================
