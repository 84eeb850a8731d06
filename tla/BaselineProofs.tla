--------------------------- MODULE BaselineProofs ---------------------------
(***************************************************************************)
(* The baseline of a project, for every set of main runs and every number  *)
(* of promotion passes: accepted baselines form one line that moves        *)
(* forward, what was accepted stays as it was reviewed until it is retired *)
(* after its replacement, and an open run is the newest attempt and        *)
(* reviewed against the current baseline.                                  *)
(*                                                                         *)
(* The argument is in three parts.  What names a baseline (the baseline    *)
(* and the reference of a run) is never written again once the run is      *)
(* selected.  A closed run is never written again but for its revision and *)
(* its retirement, which the states of the accepted runs follow (Standing).*)
(* And a comparison call that still finds the revision of the project it   *)
(* read has the baseline it read (RowOK).                                  *)
(***************************************************************************)
EXTENDS Baseline, FiniteSetTheorems, SequenceTheorems, TLAPS

Commits == {r.commit : r \in Runs}
RunRows ==
  [state : States, active : BOOLEAN, sealed : BOOLEAN, revision : Nat,
   baseline : Nat, reference : Ids \cup {None},
   ancestry : SUBSET Commits, related : SUBSET Runs,
   comparison : Comparisons, attached : BOOLEAN, approved : BOOLEAN,
   queue : {"empty", "waiting", "refused"}]
Fields ==
  {"state", "active", "sealed", "revision", "baseline", "reference", "ancestry", "related",
   "comparison", "attached", "approved", "queue"}
Projects == [revision : Nat, baseline : Nat, snapshot : Ids \cup {None}]
SnapshotRows ==
  [state : {"copying", "accepted", "revoked"}, eligible : BOOLEAN, verified : BOOLEAN]
PassRows == [at : Places, id : Ids \cup {None}, projectRevision : Nat, runRevision : Nat]

\* A write of a row that leaves the other fields alone.
Changed(row, new, fields) ==
  new \in RunRows /\ \A f \in Fields \ fields : new[f] = row[f]

\* Before its reservation a run is nothing but staged; what a comparison call
\* read is the baseline of the project, unless its revision shows a write.
RowOK(r) ==
  /\ run[r].state \in Before => ~run[r].active /\ ~run[r].attached /\ comparer[r] = None
  /\ run[r].attached \/ comparer[r] # None => run[r].comparison # "none"
  /\ \A c \in run[r].ancestry : c <= r.commit
  /\ comparer[r] # None =>
       /\ comparer[r].project <= project.revision
       /\ comparer[r].project = project.revision =>
            run[r].baseline = project.baseline /\ run[r].reference = project.snapshot

RowsOK == \A r \in Runs : RowOK(r)

PassesNamed == \A p \in Passes : pass[p].at # "idle" => pass[p].id \in Ids

\* Each promotion closed a run of its own, and each accepted snapshot has one.
Closed(r) == ~run[r].active /\ run[r].state \notin Before
Promoted ==
  \A i \in DOMAIN promotions :
    /\ Closed(promotions[i].id.run)
    /\ \A j \in DOMAIN promotions : promotions[j].id.run = promotions[i].id.run => j = i
AcceptedPromoted == \A id \in Accepted : \E i \in DOMAIN promotions : promotions[i].id = id

\* An accepted run is superseded when its snapshot is retired, and the
\* baseline of the project is not retired.
Standing ==
  /\ Eligible \subseteq Accepted
  /\ \A id \in Accepted :
       run[id.run].state = IF id \in Eligible THEN "accepted" ELSE "superseded"
  /\ project.snapshot # None => project.snapshot \in Eligible

\* AcceptedIsFinal, without the state and the count.
Final(id) ==
  /\ snapshots[id].verified
  /\ run[id.run].sealed /\ run[id.run].attached /\ run[id.run].comparison = "ready"
  /\ run[id.run].approved /\ run[id.run].queue # "waiting"

BaselineInv ==
  /\ BaselineLine /\ OpenRunIsCurrent
  /\ RowsOK /\ PassesNamed /\ Promoted /\ AcceptedPromoted /\ Standing
  /\ \A id \in Accepted : Final(id)

\* What any step but a promotion does to a run that is closed.
ClosedKept ==
  \A r \in Runs : Closed(r) =>
    /\ Closed(r)'
    /\ run'[r].baseline = run[r].baseline /\ run'[r].reference = run[r].reference
    /\ run'[r].sealed = run[r].sealed /\ run'[r].attached = run[r].attached
    /\ run'[r].comparison = run[r].comparison /\ run'[r].approved = run[r].approved
    /\ run'[r].queue = run[r].queue

\* No step but a promotion accepts a snapshot, or changes the baseline.
LineStays ==
  /\ UNCHANGED promotions
  /\ project'.baseline = project.baseline /\ project'.snapshot = project.snapshot
  /\ project.revision <= project'.revision
  /\ Accepted' = Accepted
  /\ \A id \in Accepted : snapshots'[id].verified = snapshots[id].verified

\* Nor does any but the retention retire one.
NothingAccepted == LineStays /\ Eligible' = Eligible
SnapshotsStay ==
  /\ Accepted' = Accepted /\ Eligible' = Eligible
  /\ \A id \in Accepted : snapshots'[id].verified = snapshots[id].verified

-----------------------------------------------------------------------------
(* One field of a row is written.                                          *)
LEMMA FieldWritten ==
  ASSUME NEW row \in RunRows
  PROVE  /\ \A x \in States : LET u == [row EXCEPT !.state = x]
                              IN Changed(row, u, {"state"}) /\ u.state = x
         /\ \A x \in BOOLEAN : LET u == [row EXCEPT !.active = x]
                               IN Changed(row, u, {"active"}) /\ u.active = x
         /\ \A x \in BOOLEAN : LET u == [row EXCEPT !.sealed = x]
                               IN Changed(row, u, {"sealed"}) /\ u.sealed = x
         /\ \A x \in Nat : LET u == [row EXCEPT !.revision = x]
                           IN Changed(row, u, {"revision"}) /\ u.revision = x
         /\ \A x \in Nat : LET u == [row EXCEPT !.baseline = x]
                           IN Changed(row, u, {"baseline"}) /\ u.baseline = x
         /\ \A x \in Ids \cup {None} : LET u == [row EXCEPT !.reference = x]
                                       IN Changed(row, u, {"reference"}) /\ u.reference = x
         /\ \A x \in SUBSET Commits :
              LET u == [row EXCEPT !.ancestry = x]
              IN Changed(row, u, {"ancestry"}) /\ u.ancestry = x
         /\ \A x \in SUBSET Runs : LET u == [row EXCEPT !.related = x]
                                   IN Changed(row, u, {"related"}) /\ u.related = x
         /\ \A x \in Comparisons : LET u == [row EXCEPT !.comparison = x]
                                   IN Changed(row, u, {"comparison"}) /\ u.comparison = x
         /\ \A x \in BOOLEAN : LET u == [row EXCEPT !.attached = x]
                               IN Changed(row, u, {"attached"}) /\ u.attached = x
         /\ \A x \in BOOLEAN : LET u == [row EXCEPT !.approved = x]
                               IN Changed(row, u, {"approved"}) /\ u.approved = x
         /\ \A x \in {"empty", "waiting", "refused"} :
              LET u == [row EXCEPT !.queue = x] IN Changed(row, u, {"queue"}) /\ u.queue = x
  BY DEF RunRows, Changed, Fields

LEMMA TouchedRow ==
  ASSUME NEW row \in RunRows
  PROVE  Changed(row, Touch(row), {"revision"}) /\ Touch(row) \in RunRows
<1>1. row.revision + 1 \in Nat
  BY DEF RunRows
<1> DEFINE u == [row EXCEPT !.revision = row.revision + 1]
<1>2. Changed(row, u, {"revision"})
  BY <1>1, FieldWritten
<1>3. Touch(row) = u
  BY DEF Touch
<1> HIDE DEF u
<1> QED BY <1>2, <1>3 DEF Changed

LEMMA TouchedProject ==
  ASSUME project \in Projects
  PROVE  /\ Touched \in Projects /\ Touched.revision = project.revision + 1
         /\ Touched.baseline = project.baseline /\ Touched.snapshot = project.snapshot
  BY DEF Projects, Touched

LEMMA TypesOK ==
  ASSUME BaselineInv
  PROVE  /\ project \in Projects /\ run \in [Runs -> RunRows]
         /\ comparer \in [Runs -> [project : Nat, run : Nat] \cup {None}]
         /\ pass \in [Passes -> PassRows]
         /\ DOMAIN snapshots \subseteq Ids
         /\ \A id \in DOMAIN snapshots : snapshots[id] \in SnapshotRows
         /\ promotions \in Seq([id : Ids, previous : Ids \cup {None}, baseline : Nat])
         /\ leases \subseteq [id : Ids, pass : Passes] /\ stops \in 0..MaxStops
  BY DEF BaselineInv, OpenRunIsCurrent, TypeOK, Projects, RunRows, Commits, PassRows, SnapshotRows

-----------------------------------------------------------------------------
(* The line of the promotions stays, as nothing of it is written again.    *)
LEMMA LineKept ==
  ASSUME BaselineInv, TypeOK', ClosedKept, LineStays
  PROVE  /\ BaselineLine' /\ Promoted' /\ AcceptedPromoted'
         /\ \A id \in Accepted' : Final(id)'
<1>1. \A i \in DOMAIN promotions :
        /\ promotions[i].id \in Ids /\ promotions[i].id.run \in Runs
        /\ Closed(promotions[i].id.run)
  <2>1. \A i \in DOMAIN promotions :
          promotions[i] \in [id : Ids, previous : Ids \cup {None}, baseline : Nat]
    BY TypesOK, LenProperties, ElementOfSeq
  <2>2. \A i \in DOMAIN promotions : promotions[i].id \in Ids /\ promotions[i].id.run \in Runs
    BY <2>1 DEF Ids
  <2> QED BY <2>2 DEF BaselineInv, Promoted
<1>2. \A i \in DOMAIN promotions :
        /\ run'[promotions[i].id.run].baseline = run[promotions[i].id.run].baseline
        /\ run'[promotions[i].id.run].reference = run[promotions[i].id.run].reference
        /\ Closed(promotions[i].id.run)'
  BY <1>1 DEF ClosedKept, Closed, LineStays
<1>3. BaselineLine'
  BY <1>2 DEF BaselineInv, BaselineLine, LineStays, BaselineMovesForward
<1>4. Promoted'
  BY <1>2 DEF BaselineInv, Promoted, LineStays
<1>5. AcceptedPromoted'
  BY DEF BaselineInv, AcceptedPromoted, LineStays
<1>6. ASSUME NEW id \in Accepted' PROVE Final(id)'
  <2>1. id \in Accepted /\ snapshots'[id].verified = snapshots[id].verified
    BY <1>6 DEF LineStays
  <2>2. PICK i \in DOMAIN promotions : promotions[i].id = id
    BY <2>1 DEF BaselineInv, AcceptedPromoted
  <2>3. id.run \in Runs /\ Closed(id.run)
    BY <1>1, <2>2
  <2>4. Final(id)
    BY <2>1 DEF BaselineInv
  <2> QED BY <2>1, <2>3, <2>4 DEF Final, ClosedKept
<1> QED BY <1>3, <1>4, <1>5, <1>6

LEMMA StandingKept ==
  ASSUME BaselineInv, NothingAccepted, \A r \in Runs : Closed(r) => run'[r].state = run[r].state
  PROVE  Standing'
<1>1. ASSUME NEW id \in Accepted PROVE run'[id.run].state = run[id.run].state
  <2>1. PICK i \in DOMAIN promotions : promotions[i].id = id
    BY DEF BaselineInv, AcceptedPromoted
  <2>2. id.run \in Runs
    BY TypesOK DEF Accepted, Ids
  <2> QED BY <2>1, <2>2 DEF BaselineInv, Promoted
<1> QED BY <1>1 DEF BaselineInv, Standing, NothingAccepted, LineStays

\* What a step does to a run, other than a reservation, the choice of its
\* reference, a promotion or a retirement.
RowStays(r) ==
  /\ run'[r].baseline = run[r].baseline /\ run'[r].reference = run[r].reference
  /\ run'[r].ancestry = run[r].ancestry
  /\ run[r].state \in Before <=> run'[r].state \in Before
  /\ run'[r].active => run[r].active
  /\ run[r].comparison # "none" => run'[r].comparison # "none"
  /\ run[r].comparison = "invalidated" => run'[r].comparison = "invalidated"
  /\ Closed(r) =>
       /\ run'[r].sealed = run[r].sealed /\ run'[r].attached = run[r].attached
       /\ run'[r].comparison = run[r].comparison /\ run'[r].approved = run[r].approved
       /\ run'[r].queue = run[r].queue
  /\ run'[r].attached => run[r].attached \/
       (comparer[r] # None /\ comparer[r].project = project.revision)
  /\ comparer'[r] # None =>
       \/ comparer'[r] = comparer[r]
       \/ /\ comparer'[r].project = project.revision /\ project'.revision = project.revision
          /\ run[r].baseline = project.baseline /\ run[r].reference = project.snapshot
          /\ run[r].state \notin Before /\ run'[r].comparison # "none"
RowMoves(r) == RowStays(r) /\ (Closed(r) => run'[r].state = run[r].state)

LEMMA MoveKeepsRow ==
  ASSUME BaselineInv, TypeOK', LineStays, NEW r \in Runs, RowStays(r)
  PROVE  /\ RowOK(r)'
         /\ run'[r].active /\ run'[r].attached /\ run'[r].comparison # "invalidated" =>
              run'[r].baseline = project'.baseline /\ run'[r].reference = project'.snapshot
<1>1. /\ project.revision \in Nat /\ project'.revision \in Nat
      /\ comparer[r] # None => comparer[r].project \in Nat
  BY TypesOK DEF TypeOK, Projects
<1>2. RowOK(r)
  BY DEF BaselineInv, RowsOK
<1>3. run'[r].state \in Before => ~run'[r].active /\ ~run'[r].attached /\ comparer'[r] = None
  BY <1>2 DEF RowOK, RowStays
<1>4. run'[r].attached \/ comparer'[r] # None => run'[r].comparison # "none"
  BY <1>2 DEF RowOK, RowStays
<1>5. comparer'[r] # None =>
        /\ comparer'[r].project <= project'.revision
        /\ comparer'[r].project = project'.revision =>
             run'[r].baseline = project'.baseline /\ run'[r].reference = project'.snapshot
  BY <1>1, <1>2 DEF RowOK, RowStays, LineStays
<1>6. \A c \in run'[r].ancestry : c <= r.commit
  BY <1>2 DEF RowOK, RowStays
<1>7. run'[r].active /\ run'[r].attached /\ run'[r].comparison # "invalidated" =>
        run'[r].baseline = project'.baseline /\ run'[r].reference = project'.snapshot
  BY <1>2 DEF RowOK, RowStays, BaselineInv, OpenRunIsCurrent, OpenReviewIsCurrent,
     LineStays
<1> QED BY <1>3, <1>4, <1>5, <1>6, <1>7 DEF RowOK

LEMMA StaysKeep ==
  ASSUME BaselineInv, TypeOK', PassesNamed', LineStays, Standing', \A r \in Runs : RowStays(r)
  PROVE  BaselineInv'
<1>1. ClosedKept
  BY DEF RowStays, ClosedKept, Closed
<1>2. \A r \in Runs :
        /\ RowOK(r)'
        /\ run'[r].active /\ run'[r].attached /\ run'[r].comparison # "invalidated" =>
             run'[r].baseline = project'.baseline /\ run'[r].reference = project'.snapshot
  BY MoveKeepsRow
<1>3. OpenReviewIsCurrent'
  BY <1>2 DEF OpenReviewIsCurrent
<1>4. NewestAttemptIsOpen'
  BY DEF BaselineInv, OpenRunIsCurrent, NewestAttemptIsOpen, RowStays
<1> QED BY <1>1, <1>2, <1>3, <1>4, LineKept DEF BaselineInv, OpenRunIsCurrent, RowsOK

LEMMA MovesKeep ==
  ASSUME BaselineInv, TypeOK', PassesNamed', NothingAccepted, \A r \in Runs : RowMoves(r)
  PROVE  BaselineInv'
<1>1. LineStays /\ \A r \in Runs : RowStays(r)
  BY DEF NothingAccepted, RowMoves
<1>2. Standing'
  BY StandingKept DEF RowMoves
<1> QED BY <1>1, <1>2, StaysKeep

-----------------------------------------------------------------------------
(* The writes of one run.                                                  *)
\* The rest of the run of an active row is as free as its columns are.
LEMMA ActiveRowMoves ==
  ASSUME BaselineInv, NEW r \in Runs, run[r].active, NEW t,
         run' = [run EXCEPT ![r] = t], UNCHANGED comparer,
         Changed(run[r], t, {"state", "active", "sealed", "revision", "approved", "queue",
                             "comparison"}),
         t.state \notin Before, t.active => run[r].active,
         run[r].comparison # "none" => t.comparison # "none",
         run[r].comparison = "invalidated" => t.comparison = "invalidated"
  PROVE  run' \in [Runs -> RunRows] /\ \A q \in Runs : RowMoves(q)
<1>1. run \in [Runs -> RunRows] /\ RowOK(r)
  BY TypesOK DEF BaselineInv, RowsOK
<1>2. run'[r] = t /\ \A q \in Runs : q # r => run'[q] = run[q]
  BY <1>1
<1>3. t \in RunRows /\ t.baseline = run[r].baseline /\ t.reference = run[r].reference
      /\ t.ancestry = run[r].ancestry /\ t.attached = run[r].attached
  BY DEF Changed, Fields
<1>4. RowMoves(r)
  BY <1>1, <1>2, <1>3 DEF RowMoves, RowStays, Closed, RowOK
<1>5. \A q \in Runs : q # r => RowMoves(q)
  BY <1>2 DEF RowMoves, RowStays, Closed
<1> QED BY <1>1, <1>2, <1>3, <1>4, <1>5

LEMMA NothingMoves ==
  ASSUME UNCHANGED run, \A r \in Runs : comparer'[r] \in {comparer[r], None}
  PROVE  \A r \in Runs : RowMoves(r)
  BY DEF RowMoves, RowStays, Closed

\* The project is touched, or not.
Turned == project' = project \/ project' = Touched

LEMMA ProjectTurned ==
  ASSUME BaselineInv, Turned, UNCHANGED <<snapshots, promotions>>
  PROVE  NothingAccepted /\ project' \in Projects
<1>1. project \in Projects
  BY TypesOK
<1>2. /\ project' \in Projects /\ project'.baseline = project.baseline
      /\ project'.snapshot = project.snapshot /\ project.revision <= project'.revision
  <2>1. CASE project' = project
    BY <1>1, <2>1 DEF Projects
  <2>2. CASE project' = Touched
    <3>1. project.revision \in Nat
      BY <1>1 DEF Projects
    <3> QED BY <1>1, <2>2, <3>1, TouchedProject
  <2> QED BY <2>1, <2>2 DEF Turned
<1> QED BY <1>2 DEF NothingAccepted, LineStays, Accepted, Eligible

\* A step that writes one active run, and at most the revision of the project.
LEMMA ActiveRowKeeps ==
  ASSUME BaselineInv, NEW r \in Runs, run[r].active, NEW t,
         run' = [run EXCEPT ![r] = t],
         Changed(run[r], t, {"state", "active", "sealed", "revision", "approved", "queue",
                             "comparison"}),
         t.state \notin Before, t.active => run[r].active,
         run[r].comparison # "none" => t.comparison # "none",
         run[r].comparison = "invalidated" => t.comparison = "invalidated",
         Turned, UNCHANGED <<comparer, snapshots, promotions, leases, pass, stops>>
  PROVE  BaselineInv'
<1>1. run' \in [Runs -> RunRows] /\ \A q \in Runs : RowMoves(q)
  BY ActiveRowMoves
<1>2. NothingAccepted /\ project' \in Projects
  BY ProjectTurned
<1>3. TypeOK'
  BY <1>1, <1>2 DEF BaselineInv, OpenRunIsCurrent, TypeOK, RunRows, Commits, Projects
<1>4. PassesNamed'
  BY DEF BaselineInv, PassesNamed
<1> QED BY <1>1, <1>2, <1>3, <1>4, MovesKeep

LEMMA SealKeeps ==
  ASSUME BaselineInv, NEW r \in Runs, SealRun(r)
  PROVE  BaselineInv'
<1>1. run \in [Runs -> RunRows] /\ run[r] \in RunRows /\ run[r].active /\ RowOK(r)
  BY TypesOK DEF SealRun, BaselineInv, RowsOK
<1> DEFINE u0 == Touch(run[r])
           u1 == [u0 EXCEPT !.sealed = TRUE]
           u2 == [u1 EXCEPT !.state = "comparing"]
<1>2. run' = [run EXCEPT ![r] = u2]
  BY Zenon DEF SealRun
<1>3. Changed(run[r], u0, {"revision"})
  BY <1>1, TouchedRow DEF Changed
<1> HIDE DEF u0
<1>4. Changed(u0, u1, {"sealed"}) /\ u1.sealed = TRUE
  <2>1. u0 \in RunRows /\ TRUE \in BOOLEAN
    BY <1>1, <1>3 DEF Changed, RunRows
  <2> QED BY <2>1, FieldWritten
<1> HIDE DEF u1
<1>5. Changed(u1, u2, {"state"}) /\ u2.state = "comparing"
  <2>1. u1 \in RunRows /\ "comparing" \in States
    BY <1>1, <1>4 DEF Changed, States, Before, Unfinished, RunRows
  <2> QED BY <2>1, FieldWritten
<1> HIDE DEF u2
<1>6. Changed(run[r], u2, {"state", "active", "sealed", "revision", "approved", "queue",
                            "comparison"})
  BY <1>3, <1>4, <1>5 DEF Changed
<1>7. /\ u2.state \notin Before /\ (u2.active => run[r].active)
      /\ run[r].comparison # "none" => u2.comparison # "none"
      /\ run[r].comparison = "invalidated" => u2.comparison = "invalidated"
  BY <1>1, <1>3, <1>4, <1>5 DEF SealRun, RowOK, Changed, Fields, Before
<1>8. Turned /\ UNCHANGED <<comparer, snapshots, promotions, leases, pass, stops>>
  BY DEF SealRun, Turned
<1> QED BY <1>1, <1>2, <1>6, <1>7, <1>8, ActiveRowKeeps

LEMMA FailKeeps ==
  ASSUME BaselineInv, NEW r \in Runs, FailRun(r)
  PROVE  BaselineInv'
<1>1. run \in [Runs -> RunRows] /\ run[r] \in RunRows /\ run[r].active /\ RowOK(r)
  BY TypesOK DEF FailRun, BaselineInv, RowsOK
<1> DEFINE u0 == Touch(run[r])
           u1 == [u0 EXCEPT !.state = "failed"]
<1>2. run' = [run EXCEPT ![r] = u1]
  BY Zenon DEF FailRun
<1>3. Changed(run[r], u0, {"revision"})
  BY <1>1, TouchedRow DEF Changed
<1> HIDE DEF u0
<1>4. Changed(u0, u1, {"state"}) /\ u1.state = "failed"
  <2>1. u0 \in RunRows /\ "failed" \in States
    BY <1>1, <1>3 DEF Changed, States, Before, Unfinished, RunRows
  <2> QED BY <2>1, FieldWritten
<1> HIDE DEF u1
<1>5. Changed(run[r], u1, {"state", "active", "sealed", "revision", "approved", "queue",
                            "comparison"})
  BY <1>3, <1>4 DEF Changed
<1>6. /\ u1.state \notin Before /\ (u1.active => run[r].active)
      /\ run[r].comparison # "none" => u1.comparison # "none"
      /\ run[r].comparison = "invalidated" => u1.comparison = "invalidated"
  BY <1>1, <1>3, <1>4 DEF FailRun, RowOK, Changed, Fields, Before
<1>7. Turned /\ UNCHANGED <<comparer, snapshots, promotions, leases, pass, stops>>
  BY DEF FailRun, Turned
<1> QED BY <1>1, <1>2, <1>5, <1>6, <1>7, ActiveRowKeeps

LEMMA ExpireKeeps ==
  ASSUME BaselineInv, NEW r \in Runs, ExpireRun(r)
  PROVE  BaselineInv'
<1>1. run \in [Runs -> RunRows] /\ run[r] \in RunRows /\ run[r].active /\ RowOK(r)
  BY TypesOK DEF ExpireRun, BaselineInv, RowsOK
<1> DEFINE u0 == Touch(run[r])
           u1 == [u0 EXCEPT !.state = "failed"]
           u2 == [u1 EXCEPT !.active = FALSE]
<1>2. run' = [run EXCEPT ![r] = u2]
  BY Zenon DEF ExpireRun
<1>3. Changed(run[r], u0, {"revision"})
  BY <1>1, TouchedRow DEF Changed
<1> HIDE DEF u0
<1>4. Changed(u0, u1, {"state"}) /\ u1.state = "failed"
  <2>1. u0 \in RunRows /\ "failed" \in States
    BY <1>1, <1>3 DEF Changed, States, Before, Unfinished, RunRows
  <2> QED BY <2>1, FieldWritten
<1> HIDE DEF u1
<1>5. Changed(u1, u2, {"active"}) /\ u2.active = FALSE
  <2>1. u1 \in RunRows /\ FALSE \in BOOLEAN
    BY <1>1, <1>4 DEF Changed, RunRows
  <2> QED BY <2>1, FieldWritten
<1> HIDE DEF u2
<1>6. Changed(run[r], u2, {"state", "active", "sealed", "revision", "approved", "queue",
                            "comparison"})
  BY <1>3, <1>4, <1>5 DEF Changed
<1>7. /\ u2.state \notin Before /\ (u2.active => run[r].active)
      /\ run[r].comparison # "none" => u2.comparison # "none"
      /\ run[r].comparison = "invalidated" => u2.comparison = "invalidated"
  BY <1>1, <1>3, <1>4, <1>5 DEF ExpireRun, RowOK, Changed, Fields, Before
<1>8. Turned /\ UNCHANGED <<comparer, snapshots, promotions, leases, pass, stops>>
  BY DEF ExpireRun, Turned
<1> QED BY <1>1, <1>2, <1>6, <1>7, <1>8, ActiveRowKeeps

LEMMA FinalizeKeeps ==
  ASSUME BaselineInv, NEW r \in Runs, FinalizeComparison(r)
  PROVE  BaselineInv'
<1>1. run \in [Runs -> RunRows] /\ run[r] \in RunRows /\ run[r].active /\ RowOK(r)
  BY TypesOK DEF FinalizeComparison, BaselineInv, RowsOK
<1>2. PICK approved \in BOOLEAN :
        run' = [run EXCEPT ![r] = [Touch(@) EXCEPT !.comparison = "ready", !.state = "reviewing",
                                                       !.approved = approved]]
  BY DEF FinalizeComparison
<1> DEFINE u0 == Touch(run[r])
           u1 == [u0 EXCEPT !.comparison = "ready"]
           u2 == [u1 EXCEPT !.state = "reviewing"]
           u3 == [u2 EXCEPT !.approved = approved]
<1>3. run' = [run EXCEPT ![r] = u3]
  BY <1>2, Zenon DEF FinalizeComparison
<1>4. Changed(run[r], u0, {"revision"})
  BY <1>1, TouchedRow DEF Changed
<1> HIDE DEF u0
<1>5. Changed(u0, u1, {"comparison"}) /\ u1.comparison = "ready"
  <2>1. u0 \in RunRows /\ "ready" \in Comparisons
    BY <1>1, <1>4, <1>2 DEF Changed, Comparisons, RunRows
  <2> QED BY <2>1, FieldWritten
<1> HIDE DEF u1
<1>6. Changed(u1, u2, {"state"}) /\ u2.state = "reviewing"
  <2>1. u1 \in RunRows /\ "reviewing" \in States
    BY <1>1, <1>5, <1>2 DEF Changed, States, Before, Unfinished, RunRows
  <2> QED BY <2>1, FieldWritten
<1> HIDE DEF u2
<1>7. Changed(u2, u3, {"approved"}) /\ u3.approved = approved
  <2>1. u2 \in RunRows /\ approved \in BOOLEAN
    BY <1>1, <1>6, <1>2 DEF Changed, RunRows
  <2> QED BY <2>1, FieldWritten
<1> HIDE DEF u3
<1>8. Changed(run[r], u3, {"state", "active", "sealed", "revision", "approved", "queue",
                            "comparison"})
  BY <1>4, <1>5, <1>6, <1>7 DEF Changed
<1>9. /\ u3.state \notin Before /\ (u3.active => run[r].active)
      /\ run[r].comparison # "none" => u3.comparison # "none"
      /\ run[r].comparison = "invalidated" => u3.comparison = "invalidated"
  BY <1>1, <1>4, <1>5, <1>6, <1>7 DEF FinalizeComparison, RowOK, Changed, Fields, Before
<1>10. Turned /\ UNCHANGED <<comparer, snapshots, promotions, leases, pass, stops>>
  BY DEF FinalizeComparison, Turned
<1> QED BY <1>1, <1>3, <1>8, <1>9, <1>10, ActiveRowKeeps

LEMMA AdmitKeeps ==
  ASSUME BaselineInv, NEW r \in Runs, AdmitDecision(r)
  PROVE  BaselineInv'
<1>1. run \in [Runs -> RunRows] /\ run[r] \in RunRows /\ run[r].active /\ RowOK(r)
  BY TypesOK DEF AdmitDecision, Reviewing, BaselineInv, RowsOK
<1> DEFINE u0 == run[r]
           u1 == [u0 EXCEPT !.queue = "waiting"]
<1>2. run' = [run EXCEPT ![r] = u1]
  BY Zenon DEF AdmitDecision
<1>3. Changed(run[r], u0, {"revision"})
  BY <1>1, TouchedRow DEF Changed
<1> HIDE DEF u0
<1>4. Changed(u0, u1, {"queue"}) /\ u1.queue = "waiting"
  <2>1. u0 \in RunRows /\ "waiting" \in {"empty", "waiting", "refused"}
    BY <1>1, <1>3 DEF Changed, RunRows
  <2> QED BY <2>1, FieldWritten
<1> HIDE DEF u1
<1>5. Changed(run[r], u1, {"state", "active", "sealed", "revision", "approved", "queue",
                            "comparison"})
  BY <1>3, <1>4 DEF Changed
<1>6. /\ u1.state \notin Before /\ (u1.active => run[r].active)
      /\ run[r].comparison # "none" => u1.comparison # "none"
      /\ run[r].comparison = "invalidated" => u1.comparison = "invalidated"
  BY <1>1, <1>3, <1>4 DEF AdmitDecision, Reviewing, RowOK, Changed, Fields, Before
<1>7. Turned /\ UNCHANGED <<comparer, snapshots, promotions, leases, pass, stops>>
  BY DEF AdmitDecision, Turned
<1> QED BY <1>1, <1>2, <1>5, <1>6, <1>7, ActiveRowKeeps

LEMMA SaveKeeps ==
  ASSUME BaselineInv, NEW r \in Runs, SaveDecision(r)
  PROVE  BaselineInv'
<1>1. run \in [Runs -> RunRows] /\ run[r] \in RunRows /\ run[r].active /\ RowOK(r)
  BY TypesOK DEF SaveDecision, Reviewing, BaselineInv, RowsOK
<1>2. PICK queue \in {"empty", run[r].queue} :
        run' = [run EXCEPT ![r] = [Touch(@) EXCEPT !.approved = ~run[r].approved,
                                           !.queue = queue]]
  BY DEF SaveDecision
<1> DEFINE u0 == Touch(run[r])
           u1 == [u0 EXCEPT !.approved = ~run[r].approved]
           u2 == [u1 EXCEPT !.queue = queue]
<1>3. run' = [run EXCEPT ![r] = u2]
  BY <1>2, Zenon DEF SaveDecision
<1>4. Changed(run[r], u0, {"revision"})
  BY <1>1, TouchedRow DEF Changed
<1> HIDE DEF u0
<1>5. Changed(u0, u1, {"approved"})
  <2>1. u0 \in RunRows /\ (~run[r].approved) \in BOOLEAN
    BY <1>1, <1>4 DEF Changed, RunRows
  <2> QED BY <2>1, FieldWritten
<1> HIDE DEF u1
<1>6. Changed(u1, u2, {"queue"}) /\ u2.queue = queue
  <2>1. u1 \in RunRows /\ queue \in {"empty", "waiting", "refused"}
    BY <1>1, <1>5, <1>2 DEF Changed, RunRows
  <2> QED BY <2>1, FieldWritten
<1> HIDE DEF u2
<1>7. Changed(run[r], u2, {"state", "active", "sealed", "revision", "approved", "queue",
                            "comparison"})
  BY <1>4, <1>5, <1>6 DEF Changed
<1>8. /\ u2.state \notin Before /\ (u2.active => run[r].active)
      /\ run[r].comparison # "none" => u2.comparison # "none"
      /\ run[r].comparison = "invalidated" => u2.comparison = "invalidated"
  BY <1>1, <1>4, <1>5, <1>6 DEF SaveDecision, Reviewing, RowOK, Changed, Fields, Before
<1>9. Turned /\ UNCHANGED <<comparer, snapshots, promotions, leases, pass, stops>>
  BY DEF SaveDecision, Turned
<1> QED BY <1>1, <1>3, <1>7, <1>8, <1>9, ActiveRowKeeps

LEMMA RefuseKeeps ==
  ASSUME BaselineInv, NEW r \in Runs, RefuseDecision(r)
  PROVE  BaselineInv'
<1>1. run \in [Runs -> RunRows] /\ run[r] \in RunRows /\ run[r].active /\ RowOK(r)
  BY TypesOK DEF RefuseDecision, BaselineInv, RowsOK
<1> DEFINE u0 == run[r]
           u1 == [u0 EXCEPT !.queue = "refused"]
<1>2. run' = [run EXCEPT ![r] = u1]
  BY Zenon DEF RefuseDecision
<1>3. Changed(run[r], u0, {"revision"})
  BY <1>1, TouchedRow DEF Changed
<1> HIDE DEF u0
<1>4. Changed(u0, u1, {"queue"}) /\ u1.queue = "refused"
  <2>1. u0 \in RunRows /\ "refused" \in {"empty", "waiting", "refused"}
    BY <1>1, <1>3 DEF Changed, RunRows
  <2> QED BY <2>1, FieldWritten
<1> HIDE DEF u1
<1>5. Changed(run[r], u1, {"state", "active", "sealed", "revision", "approved", "queue",
                            "comparison"})
  BY <1>3, <1>4 DEF Changed
<1>6. /\ u1.state \notin Before /\ (u1.active => run[r].active)
      /\ run[r].comparison # "none" => u1.comparison # "none"
      /\ run[r].comparison = "invalidated" => u1.comparison = "invalidated"
  BY <1>1, <1>3, <1>4 DEF RefuseDecision, RowOK, Changed, Fields, Before
<1>7. Turned /\ UNCHANGED <<comparer, snapshots, promotions, leases, pass, stops>>
  BY DEF RefuseDecision, Turned
<1> QED BY <1>1, <1>2, <1>5, <1>6, <1>7, ActiveRowKeeps

LEMMA RetireKeeps ==
  ASSUME BaselineInv, NEW r \in Runs, RetireReplaced(r)
  PROVE  BaselineInv'
<1>1. run \in [Runs -> RunRows] /\ run[r] \in RunRows /\ run[r].active /\ RowOK(r)
  BY TypesOK DEF RetireReplaced, BaselineInv, RowsOK
<1> DEFINE u0 == Touch(run[r])
           u1 == [u0 EXCEPT !.active = FALSE]
           u2 == [u1 EXCEPT !.state = "superseded"]
<1>2. run' = [run EXCEPT ![r] = u2]
  BY Zenon DEF RetireReplaced
<1>3. Changed(run[r], u0, {"revision"})
  BY <1>1, TouchedRow DEF Changed
<1> HIDE DEF u0
<1>4. Changed(u0, u1, {"active"}) /\ u1.active = FALSE
  <2>1. u0 \in RunRows /\ FALSE \in BOOLEAN
    BY <1>1, <1>3 DEF Changed, RunRows
  <2> QED BY <2>1, FieldWritten
<1> HIDE DEF u1
<1>5. Changed(u1, u2, {"state"}) /\ u2.state = "superseded"
  <2>1. u1 \in RunRows /\ "superseded" \in States
    BY <1>1, <1>4 DEF Changed, States, Before, Unfinished, RunRows
  <2> QED BY <2>1, FieldWritten
<1> HIDE DEF u2
<1>6. Changed(run[r], u2, {"state", "active", "sealed", "revision", "approved", "queue",
                            "comparison"})
  BY <1>3, <1>4, <1>5 DEF Changed
<1>7. /\ u2.state \notin Before /\ (u2.active => run[r].active)
      /\ run[r].comparison # "none" => u2.comparison # "none"
      /\ run[r].comparison = "invalidated" => u2.comparison = "invalidated"
  BY <1>1, <1>3, <1>4, <1>5 DEF RetireReplaced, RowOK, Changed, Fields, Before
<1>8. Turned /\ UNCHANGED <<comparer, snapshots, promotions, leases, pass, stops>>
  BY DEF RetireReplaced, Turned
<1> QED BY <1>1, <1>2, <1>6, <1>7, <1>8, ActiveRowKeeps

-----------------------------------------------------------------------------
(* The comparison calls of a run.                                          *)
LEMMA BeginKeeps ==
  ASSUME BaselineInv, NEW r \in Runs, BeginComparison(r)
  PROVE  BaselineInv'
<1> DEFINE t == [run[r] EXCEPT !.comparison = "comparing"]
           read == [project |-> project.revision, run |-> run[r].revision]
<1>1. /\ run \in [Runs -> RunRows] /\ run[r] \in RunRows /\ RowOK(r) /\ project \in Projects
      /\ comparer \in [Runs -> [project : Nat, run : Nat] \cup {None}]
  BY TypesOK DEF BaselineInv, RowsOK
<1>2. /\ run' = [run EXCEPT ![r] = t] /\ comparer' = [comparer EXCEPT ![r] = read]
      /\ UNCHANGED <<project, snapshots, promotions, leases, pass, stops>>
      /\ run[r].active /\ run[r].comparison \in {"none", "comparing"}
      /\ run[r].baseline = project.baseline /\ run[r].reference = project.snapshot
  BY DEF BeginComparison, ReferenceHolds
<1>3. Changed(run[r], t, {"comparison"}) /\ t.comparison = "comparing"
  BY <1>1, FieldWritten DEF Comparisons
<1> HIDE DEF t
<1>4. read \in [project : Nat, run : Nat] /\ read.project = project.revision
  BY <1>1 DEF Projects, RunRows
<1> HIDE DEF read
<1>5. run' \in [Runs -> RunRows] /\ run'[r] = t /\ comparer'[r] = read
  BY <1>1, <1>2, <1>3 DEF Changed
<1>6. \A q \in Runs : q # r => run'[q] = run[q] /\ comparer'[q] = comparer[q]
  BY <1>1, <1>2
<1>7. RowMoves(r)
  BY <1>1, <1>2, <1>3, <1>4, <1>5 DEF RowMoves, RowStays, Closed, RowOK, Changed, Fields
<1>8. \A q \in Runs : RowMoves(q)
  BY <1>6, <1>7 DEF RowMoves, RowStays, Closed
<1>9. NothingAccepted /\ project' \in Projects
  BY <1>2, ProjectTurned DEF Turned
<1>10. TypeOK'
  BY <1>1, <1>2, <1>4, <1>5, <1>9 DEF BaselineInv, OpenRunIsCurrent, TypeOK, RunRows, Commits, Projects
<1>11. PassesNamed'
  BY <1>2 DEF BaselineInv, PassesNamed
<1> QED BY <1>8, <1>9, <1>10, <1>11, MovesKeep

LEMMA AttachKeeps ==
  ASSUME BaselineInv, NEW r \in Runs, AttachComparison(r) \/ StopComparison(r)
  PROVE  BaselineInv'
<1>1. /\ run \in [Runs -> RunRows] /\ run[r] \in RunRows /\ RowOK(r)
      /\ comparer \in [Runs -> [project : Nat, run : Nat] \cup {None}]
      /\ stops \in 0..MaxStops
  BY TypesOK DEF BaselineInv, RowsOK
<1>2. /\ comparer[r] # None /\ comparer' = [comparer EXCEPT ![r] = None]
      /\ UNCHANGED <<snapshots, promotions, leases, pass>> /\ stops' \in 0..MaxStops
  BY <1>1, BaselineAssumption DEF AttachComparison, StopComparison
<1>3. \A q \in Runs : comparer'[q] \in {comparer[q], None}
  BY <1>1, <1>2
<1>4. PassesNamed'
  BY <1>2 DEF BaselineInv, PassesNamed
<1>5. ASSUME run' \in [Runs -> RunRows], \A q \in Runs : RowMoves(q), Turned
      PROVE  BaselineInv'
  <2>1. NothingAccepted /\ project' \in Projects
    BY <1>2, <1>5, ProjectTurned
  <2>2. comparer' \in [Runs -> [project : Nat, run : Nat] \cup {None}]
    BY <1>1, <1>2
  <2>3. TypeOK'
    BY <1>2, <1>5, <2>1, <2>2 DEF BaselineInv, OpenRunIsCurrent, TypeOK, RunRows, Commits, Projects
  <2> QED BY <1>4, <1>5, <2>1, <2>3, MovesKeep
<1>6. CASE UNCHANGED <<run, project>>
  <2>1. \A q \in Runs : RowMoves(q)
    BY <1>3, <1>6, NothingMoves
  <2> QED BY <1>1, <1>5, <1>6, <2>1 DEF Turned
<1>7. CASE ComparerCurrent(r) /\ AttachComparison(r) /\ ~run[r].attached
  <2> DEFINE u0 == Touch(run[r])
             u1 == [u0 EXCEPT !.attached = TRUE]
             u2 == [u1 EXCEPT !.state = "comparing"]
  <2>1. run' = [run EXCEPT ![r] = u2] /\ project' = Touched
    <3>1. run' = [run EXCEPT ![r] = [Touch(run[r]) EXCEPT !.attached = TRUE, !.state = "comparing"]]
      BY <1>7 DEF AttachComparison
    <3>2. [Touch(run[r]) EXCEPT !.attached = TRUE, !.state = "comparing"] = u2
      BY Zenon
    <3> HIDE DEF u2
    <3> QED BY <1>7, <3>1, <3>2 DEF AttachComparison
  <2>2. Changed(run[r], u0, {"revision"})
    BY <1>1, TouchedRow
  <2> HIDE DEF u0
  <2>3. Changed(u0, u1, {"attached"})
    BY <2>2, FieldWritten DEF Changed
  <2> HIDE DEF u1
  <2>4. Changed(u1, u2, {"state"}) /\ u2.state = "comparing"
    <3>1. u1 \in RunRows /\ "comparing" \in States
      BY <2>3 DEF Changed, States, Unfinished
    <3> QED BY <3>1, FieldWritten
  <2> HIDE DEF u2
  <2>5. Changed(run[r], u2, {"revision", "attached", "state"})
    BY <2>2, <2>3, <2>4 DEF Changed
  <2>6. run' \in [Runs -> RunRows] /\ run'[r] = u2 /\ \A q \in Runs : q # r => run'[q] = run[q]
    BY <1>1, <2>1, <2>5 DEF Changed
  <2>7. RowMoves(r)
    BY <1>1, <1>2, <1>7, <2>4, <2>5, <2>6
    DEF RowMoves, RowStays, Closed, RowOK, ComparerCurrent, Changed, Fields, Before
  <2>8. \A q \in Runs : RowMoves(q)
    BY <1>3, <2>6, <2>7 DEF RowMoves, RowStays, Closed
  <2> QED BY <1>5, <2>1, <2>6, <2>8 DEF Turned
<1> QED BY <1>6, <1>7 DEF AttachComparison, StopComparison

-----------------------------------------------------------------------------
(* Selection and reservation.                                              *)
LEMMA SelectKeeps ==
  ASSUME BaselineInv, NEW r \in Runs, SelectReference(r)
  PROVE  BaselineInv'
<1> DEFINE u1 == [run[r] EXCEPT !.state = "staged"]
           u2 == [u1 EXCEPT !.baseline = project.baseline]
           u3 == [u2 EXCEPT !.reference = project.snapshot]
<1>1. /\ run \in [Runs -> RunRows] /\ run[r] \in RunRows /\ project \in Projects
      /\ run[r].state = "none" /\ RowOK(r)
      /\ UNCHANGED <<project, comparer, snapshots, promotions, leases, pass, stops>>
  BY TypesOK DEF SelectReference, BaselineInv, RowsOK
<1>2. run' = [run EXCEPT ![r] = u3]
  <2>1. [run[r] EXCEPT !.state = "staged", !.baseline = project.baseline,
                       !.reference = project.snapshot] = u3
    BY Zenon
  <2> HIDE DEF u3
  <2> QED BY <2>1 DEF SelectReference
<1>3. Changed(run[r], u1, {"state"}) /\ u1.state = "staged"
  <2>1. "staged" \in States
    BY DEF States, Before
  <2> QED BY <1>1, <2>1, FieldWritten
<1> HIDE DEF u1
<1>4. Changed(u1, u2, {"baseline"})
  <2>1. u1 \in RunRows /\ project.baseline \in Nat
    BY <1>1, <1>3 DEF Changed, Projects
  <2> QED BY <2>1, FieldWritten
<1> HIDE DEF u2
<1>5. Changed(u2, u3, {"reference"}) /\ u3.reference = project.snapshot
  <2>1. u2 \in RunRows /\ project.snapshot \in Ids \cup {None}
    BY <1>1, <1>4 DEF Changed, Projects
  <2> QED BY <2>1, FieldWritten
<1> HIDE DEF u3
<1>6. Changed(run[r], u3, {"state", "baseline", "reference"}) /\ u3.state = "staged"
  BY <1>3, <1>4, <1>5 DEF Changed, Fields
<1>7. /\ run' \in [Runs -> RunRows] /\ run'[r] = u3
      /\ \A q \in Runs : q # r => run'[q] = run[q]
  BY <1>1, <1>2, <1>6 DEF Changed
<1>8. ~run[r].active /\ ~run'[r].active /\ ~run'[r].attached /\ comparer[r] = None
      /\ run'[r].ancestry = run[r].ancestry /\ run'[r].comparison = run[r].comparison
  BY <1>1, <1>6, <1>7 DEF RowOK, Before, Changed, Fields
<1>9. TypeOK' /\ PassesNamed' /\ NothingAccepted
  BY <1>1, <1>7 DEF BaselineInv, OpenRunIsCurrent, TypeOK, RunRows, Commits, Projects, PassesNamed,
     NothingAccepted, LineStays, Accepted, Eligible
<1>10. ClosedKept
  BY <1>1, <1>7 DEF ClosedKept, Closed, Before
<1>11. \A q \in Runs : RowOK(q)'
  <2>1. RowOK(r)'
    BY <1>1, <1>7, <1>8 DEF RowOK
  <2>2. \A q \in Runs : q # r => RowOK(q)'
    BY <1>1, <1>7 DEF RowOK, BaselineInv, RowsOK
  <2> QED BY <2>1, <2>2
<1>12. OpenReviewIsCurrent'
  BY <1>1, <1>7, <1>8 DEF BaselineInv, OpenRunIsCurrent, OpenReviewIsCurrent
<1>13. NewestAttemptIsOpen'
  BY <1>6, <1>7, <1>8 DEF BaselineInv, OpenRunIsCurrent, NewestAttemptIsOpen, Before
<1>14. LineStays /\ Standing'
  <2>1. \A q \in Runs : Closed(q) => run'[q].state = run[q].state
    BY <1>1, <1>7 DEF Closed, Before
  <2> QED BY <1>9, <2>1, StandingKept DEF NothingAccepted
<1> QED BY <1>9, <1>10, <1>11, <1>12, <1>13, <1>14, LineKept
    DEF BaselineInv, OpenRunIsCurrent, RowsOK

-----------------------------------------------------------------------------
(* The promotion passes.                                                   *)
\* A pass moves on, and remembers a snapshot unless it is idle.
PassMoves(p) ==
  \E me \in PassRows : (me.at # "idle" => me.id \in Ids) /\ Become(p, me)

LEMMA IdleMoves ==
  ASSUME NEW p \in Passes, NEW place \in Places, NEW id \in Ids \cup {None},
         place # "idle" => id \in Ids, Become(p, [Idle EXCEPT !.at = place, !.id = id])
  PROVE  PassMoves(p)
<1> DEFINE u1 == [Idle EXCEPT !.at = place]
           u2 == [u1 EXCEPT !.id = id]
<1>1. Become(p, u2)
  <2>1. [Idle EXCEPT !.at = place, !.id = id] = u2
    BY Zenon
  <2> HIDE DEF u2
  <2> QED BY <2>1
<1>2. Idle \in PassRows
  BY DEF Idle, PassRows, Places
<1>3. u1 \in PassRows /\ u1.at = place
  BY <1>2 DEF PassRows
<1> HIDE DEF u1
<1>4. u2 \in PassRows /\ u2.at = place /\ u2.id = id
  BY <1>3 DEF PassRows
<1> HIDE DEF u2
<1> QED BY <1>1, <1>4 DEF PassMoves

LEMMA BecomesIdle ==
  ASSUME NEW p \in Passes, Become(p, Idle)
  PROVE  PassMoves(p)
  BY DEF PassMoves, Idle, PassRows, Places

LEMMA PlaceMoves ==
  ASSUME NEW p \in Passes, pass \in [Passes -> PassRows], pass[p].id \in Ids,
         NEW place \in Places
  PROVE  /\ Goto(p, place) => PassMoves(p)
         /\ Continue(p, place) => PassMoves(p)
         /\ project \in Projects /\ RunOf(p) \in RunRows /\ ReadRevisions(p, place)
              => PassMoves(p)
<1>1. pass[p] \in PassRows
  OBVIOUS
<1>2. ASSUME Goto(p, place) PROVE PassMoves(p)
  <2> DEFINE me == [pass[p] EXCEPT !.at = place]
  <2>1. me \in PassRows /\ me.id \in Ids
    BY <1>1 DEF PassRows
  <2>2. Become(p, me)
    BY <1>2 DEF Goto
  <2> QED BY <2>1, <2>2 DEF PassMoves
<1>3. ASSUME Continue(p, place) PROVE PassMoves(p)
  BY <1>3, IdleMoves DEF Continue
<1>4. ASSUME project \in Projects, RunOf(p) \in RunRows, ReadRevisions(p, place)
      PROVE  PassMoves(p)
  <2>1. project.revision \in Nat /\ RunOf(p).revision \in Nat
    BY <1>4 DEF Projects, RunRows
  <2>2. PICK pr \in Nat : pr = project.revision
    BY <2>1
  <2>3. PICK rr \in Nat : rr = RunOf(p).revision
    BY <2>1
  <2> DEFINE me == [pass[p] EXCEPT !.at = place, !.projectRevision = pr, !.runRevision = rr]
  <2>4. me \in PassRows /\ me.id \in Ids
    BY <1>1 DEF PassRows
  <2>5. Become(p, me)
    BY <1>4, <2>2, <2>3 DEF ReadRevisions
  <2> QED BY <2>4, <2>5 DEF PassMoves
<1> QED BY <1>2, <1>3, <1>4

\* A pass that moves keeps the type of its row and names a snapshot.
LEMMA PassMoved ==
  ASSUME BaselineInv, NEW p \in Passes, PassMoves(p)
  PROVE  pass' \in [Passes -> PassRows] /\ PassesNamed'
<1>1. pass \in [Passes -> PassRows]
  BY TypesOK
<1>2. PICK me \in PassRows : (me.at # "idle" => me.id \in Ids) /\ Become(p, me)
  BY DEF PassMoves
<1>3. pass' \in [Passes -> PassRows] /\ pass'[p] = me
      /\ \A q \in Passes : q # p => pass'[q] = pass[q]
  BY <1>1, <1>2 DEF Become
<1> QED BY <1>2, <1>3 DEF BaselineInv, PassesNamed

\* A step of the passes that writes neither the runs nor the baseline.
LEMMA PassKeeps ==
  ASSUME BaselineInv, NEW p \in Passes, PassMoves(p),
         UNCHANGED <<project, run, comparer, promotions>>,
         leases' \subseteq [id : Ids, pass : Passes], stops' \in 0..MaxStops,
         DOMAIN snapshots' \subseteq Ids,
         \A id \in DOMAIN snapshots' : snapshots'[id] \in SnapshotRows,
         SnapshotsStay
  PROVE  BaselineInv'
<1>1. pass' \in [Passes -> PassRows] /\ PassesNamed'
  BY PassMoved
<1>2. TypeOK'
  BY <1>1 DEF BaselineInv, OpenRunIsCurrent, TypeOK, PassRows, SnapshotRows
<1>3. project.revision \in Nat
  BY TypesOK DEF Projects
<1>4. NothingAccepted
  BY <1>3 DEF NothingAccepted, LineStays, SnapshotsStay
<1>5. \A r \in Runs : RowMoves(r)
  BY NothingMoves
<1> QED BY <1>1, <1>2, <1>4, <1>5, MovesKeep

LEMMA PassOnlyKeeps ==
  ASSUME BaselineInv, NEW p \in Passes, PassMoves(p),
         UNCHANGED <<project, run, comparer, snapshots, promotions>>,
         leases' \subseteq [id : Ids, pass : Passes], stops' \in 0..MaxStops
  PROVE  BaselineInv'
<1>1. /\ DOMAIN snapshots' \subseteq Ids
      /\ \A id \in DOMAIN snapshots' : snapshots'[id] \in SnapshotRows
      /\ SnapshotsStay
  BY TypesOK DEF SnapshotsStay, Accepted, Eligible
<1> QED BY <1>1, PassKeeps

\* The facts about a pass at work that its steps need.
LEMMA AtWork ==
  ASSUME BaselineInv, NEW p \in Passes, pass[p].at # "idle"
  PROVE  /\ pass \in [Passes -> PassRows] /\ pass[p].id \in Ids /\ Id(p).run \in Runs
         /\ run \in [Runs -> RunRows] /\ RunOf(p) \in RunRows /\ project \in Projects
         /\ leases \subseteq [id : Ids, pass : Passes] /\ stops \in 0..MaxStops
<1>1. pass[p].id \in Ids
  BY DEF BaselineInv, PassesNamed
<1>2. Id(p).run \in Runs
  BY <1>1 DEF Id, Ids
<1> QED BY <1>1, <1>2, TypesOK DEF RunOf

LEMMA PickKeeps ==
  ASSUME BaselineInv, NEW p \in Passes,
         \/ \E r \in Runs : PickCandidate(p, r)
         \/ \E id \in Copying : PickInterrupted(p, id)
  PROVE  BaselineInv'
<1>1. /\ run \in [Runs -> RunRows] /\ DOMAIN snapshots \subseteq Ids
      /\ leases \subseteq [id : Ids, pass : Passes] /\ stops \in 0..MaxStops
  BY TypesOK
<1>2. "claiming" \in Places /\ "clearing" \in Places
  BY DEF Places
<1>3. CASE \E r \in Runs : PickCandidate(p, r)
  <2>1. PICK r \in Runs : PickCandidate(p, r)
    BY <1>3
  <2>2. NewId(r) \in Ids
    BY <1>1 DEF NewId, Ids, RunRows
  <2>3. \E id \in Ids : Become(p, [Idle EXCEPT !.at = "claiming", !.id = id])
    BY <1>1, <2>1, <2>2 DEF PickCandidate, Copying
  <2>4. PassMoves(p)
    BY <1>2, <2>3, IdleMoves
  <2> QED BY <1>1, <2>1, <2>4, PassOnlyKeeps DEF PickCandidate
<1>4. CASE \E id \in Copying : PickInterrupted(p, id)
  <2>1. PICK id \in Copying : PickInterrupted(p, id)
    BY <1>4
  <2>2. id \in Ids
    BY <1>1 DEF Copying
  <2>3. PassMoves(p)
    BY <1>2, <2>1, <2>2, IdleMoves DEF PickInterrupted
  <2> QED BY <1>1, <2>1, <2>3, PassOnlyKeeps DEF PickInterrupted
<1> QED BY <1>3, <1>4

LEMMA ReadsKeep ==
  ASSUME BaselineInv, NEW p \in Passes,
         \/ ReadForPrepare(p) \/ VerifyLater(p) \/ ReadForPromote(p) \/ ReadForCancel(p)
  PROVE  BaselineInv'
<1>1. pass[p].at # "idle"
  BY DEF ReadForPrepare, VerifyLater, ReadForPromote, ReadForCancel
<1>2. UNCHANGED <<project, run, comparer, snapshots, promotions, leases, stops>>
  BY DEF ReadForPrepare, VerifyLater, ReadForPromote, ReadForCancel
<1>3. \E place \in Places : Continue(p, place) \/ ReadRevisions(p, place)
  <2>1. {"done", "verifying", "prepared", "promoting", "cancelled"} \subseteq Places
    BY DEF Places
  <2> QED BY <2>1 DEF ReadForPrepare, VerifyLater, ReadForPromote, ReadForCancel
<1>4. PassMoves(p)
  BY <1>1, <1>3, AtWork, PlaceMoves
<1> QED BY <1>1, <1>2, <1>4, AtWork, PassOnlyKeeps

LEMMA LeaseKeeps ==
  ASSUME BaselineInv, NEW p \in Passes, ClaimLease(p) \/ ReleaseLease(p) \/ PassStops(p)
  PROVE  BaselineInv'
<1>1. pass[p].at # "idle"
  BY DEF ClaimLease, ReleaseLease, PassStops
<1>2. UNCHANGED <<project, run, comparer, snapshots, promotions>>
  BY DEF ClaimLease, ReleaseLease, PassStops
<1>3. PassMoves(p)
  <2>1. "preparing" \in Places /\ "cancelling" \in Places
    BY DEF Places
  <2>2. Become(p, Idle) \/ \E place \in Places : Goto(p, place)
    BY <2>1 DEF ClaimLease, ReleaseLease, PassStops
  <2> QED BY <1>1, <2>2, AtWork, PlaceMoves, BecomesIdle
<1>4. leases' \subseteq [id : Ids, pass : Passes]
  <2>1. [id |-> Id(p), pass |-> p] \in [id : Ids, pass : Passes]
    BY <1>1, AtWork DEF Id
  <2> QED BY <1>1, <2>1, AtWork DEF ClaimLease, ReleaseLease, PassStops
<1>5. stops' \in 0..MaxStops
  BY <1>1, AtWork, BaselineAssumption DEF ClaimLease, ReleaseLease, PassStops
<1> QED BY <1>2, <1>3, <1>4, <1>5, PassOnlyKeeps

LEMMA LeaseEndsKeeps ==
  ASSUME BaselineInv, NEW lease \in leases, LeaseEnds(lease)
  PROVE  BaselineInv'
<1>1. project.revision \in Nat
  BY TypesOK DEF Projects
<1>2. TypeOK' /\ PassesNamed' /\ NothingAccepted
  BY <1>1 DEF LeaseEnds, BaselineInv, OpenRunIsCurrent, TypeOK, PassesNamed,
     NothingAccepted, LineStays, Accepted, Eligible
<1>3. \A r \in Runs : RowMoves(r)
  BY NothingMoves DEF LeaseEnds
<1> QED BY <1>2, <1>3, MovesKeep

LEMMA SnapshotWritten ==
  ASSUME NEW row \in SnapshotRows
  PROVE  /\ [row EXCEPT !.verified = TRUE] \in SnapshotRows
         /\ [row EXCEPT !.verified = TRUE].state = row.state
         /\ [row EXCEPT !.verified = TRUE].eligible = row.eligible
         /\ \A x \in BOOLEAN :
              /\ [row EXCEPT !.eligible = x] \in SnapshotRows
              /\ [row EXCEPT !.eligible = x].eligible = x
              /\ [row EXCEPT !.eligible = x].state = row.state
              /\ [row EXCEPT !.eligible = x].verified = row.verified
         /\ \A x \in {"copying", "accepted", "revoked"} :
              /\ [row EXCEPT !.state = x] \in SnapshotRows
              /\ [row EXCEPT !.state = x].state = x
              /\ [row EXCEPT !.state = x].verified = row.verified
              /\ [row EXCEPT !.state = x].eligible = row.eligible
  BY DEF SnapshotRows

LEMMA PrepareKeeps ==
  ASSUME BaselineInv, NEW p \in Passes, PreparePromotion(p)
  PROVE  BaselineInv'
<1>1. pass[p].at # "idle"
  BY DEF PreparePromotion
<1>2. PassMoves(p)
  <2>1. "done" \in Places /\ "verifying" \in Places
    BY DEF Places
  <2>2. \E place \in Places : Continue(p, place)
    BY <2>1 DEF PreparePromotion
  <2> QED BY <1>1, <2>2, AtWork, PlaceMoves
<1>3. /\ UNCHANGED <<project, run, comparer, promotions>>
      /\ leases' \subseteq [id : Ids, pass : Passes] /\ stops' \in 0..MaxStops
  BY <1>1, AtWork DEF PreparePromotion
<1>4. /\ DOMAIN snapshots \subseteq Ids
      /\ \A id \in DOMAIN snapshots : snapshots[id] \in SnapshotRows
  BY TypesOK
<1>5. CASE UNCHANGED snapshots
  BY <1>2, <1>3, <1>5, PassOnlyKeeps
<1>6. CASE ~UNCHANGED snapshots
  <2> DEFINE new == [state |-> "copying", eligible |-> FALSE, verified |-> FALSE]
  <2>1. /\ snapshots' = [id \in DOMAIN snapshots \cup {Id(p)} |->
                           IF id = Id(p) THEN new ELSE snapshots[id]]
        /\ Id(p) \notin DOMAIN snapshots
    BY <1>6 DEF PreparePromotion
  <2>2. new \in SnapshotRows /\ new.state # "accepted" /\ ~new.eligible
    BY DEF SnapshotRows
  <2> HIDE DEF new
  <2>3. Id(p) \in Ids
    BY <1>1, AtWork DEF Id
  <2>4. /\ DOMAIN snapshots' \subseteq Ids
        /\ \A id \in DOMAIN snapshots' : snapshots'[id] \in SnapshotRows
    BY <1>4, <2>1, <2>2, <2>3
  <2>5. SnapshotsStay
    BY <2>1, <2>2 DEF SnapshotsStay, Accepted, Eligible
  <2> QED BY <1>2, <1>3, <2>4, <2>5, PassKeeps
<1> QED BY <1>5, <1>6

LEMMA VerifyKeeps ==
  ASSUME BaselineInv, NEW p \in Passes, VerifyOriginals(p)
  PROVE  BaselineInv'
<1>1. pass[p].at # "idle"
  BY DEF VerifyOriginals
<1>2. PassMoves(p)
  <2>1. "done" \in Places /\ "verified" \in Places
    BY DEF Places
  <2>2. \E place \in Places : Continue(p, place) \/ Goto(p, place)
    BY <2>1 DEF VerifyOriginals
  <2> QED BY <1>1, <2>2, AtWork, PlaceMoves
<1>3. /\ UNCHANGED <<project, run, comparer, promotions>>
      /\ leases' \subseteq [id : Ids, pass : Passes] /\ stops' \in 0..MaxStops
  BY <1>1, AtWork DEF VerifyOriginals
<1>4. /\ DOMAIN snapshots \subseteq Ids
      /\ \A id \in DOMAIN snapshots : snapshots[id] \in SnapshotRows
  BY TypesOK
<1>5. CASE UNCHANGED snapshots
  BY <1>2, <1>3, <1>5, PassOnlyKeeps
<1>6. CASE ~UNCHANGED snapshots
  <2>1. /\ Id(p) \in Copying
        /\ snapshots' = [snapshots EXCEPT ![Id(p)] = [snapshots[Id(p)] EXCEPT !.verified = TRUE]]
    BY <1>6 DEF VerifyOriginals
  <2>2. PICK new \in SnapshotRows : new = [snapshots[Id(p)] EXCEPT !.verified = TRUE]
                                   /\ new.state = "copying"
                                   /\ new.eligible = snapshots[Id(p)].eligible
    <3>1. snapshots[Id(p)] \in SnapshotRows /\ snapshots[Id(p)].state = "copying"
      BY <1>4, <2>1 DEF Copying
    <3>2. [snapshots[Id(p)] EXCEPT !.verified = TRUE] \in SnapshotRows
          /\ [snapshots[Id(p)] EXCEPT !.verified = TRUE].state = "copying"
          /\ [snapshots[Id(p)] EXCEPT !.verified = TRUE].eligible = snapshots[Id(p)].eligible
      BY <3>1, SnapshotWritten
    <3> QED BY <3>2
  <2>3. PICK mine \in Copying : mine = Id(p)
    BY <2>1
  <2>4. snapshots' = [snapshots EXCEPT ![mine] = new]
    BY <2>1, <2>2, <2>3
  <2>5. /\ DOMAIN snapshots' \subseteq Ids
        /\ \A id \in DOMAIN snapshots' : snapshots'[id] \in SnapshotRows
    BY <1>4, <2>4
  <2>6. SnapshotsStay
    BY <2>2, <2>3, <2>4 DEF SnapshotsStay, Accepted, Eligible, Copying
  <2> QED BY <1>2, <1>3, <2>5, <2>6, PassKeeps
<1> QED BY <1>5, <1>6

LEMMA CancelKeeps ==
  ASSUME BaselineInv, NEW p \in Passes, CancelPrepared(p)
  PROVE  BaselineInv'
<1>1. pass[p].at # "idle"
  BY DEF CancelPrepared
<1>2. PassMoves(p)
  <2>1. "done" \in Places
    BY DEF Places
  <2> QED BY <1>1, <2>1, AtWork, PlaceMoves DEF CancelPrepared
<1>3. UNCHANGED <<comparer, promotions, leases, stops>>
  BY DEF CancelPrepared
<1>4. CASE UNCHANGED <<snapshots, run, project>>
  <2>1. leases' \subseteq [id : Ids, pass : Passes] /\ stops' \in 0..MaxStops
    BY <1>1, <1>3, AtWork
  <2> QED BY <1>2, <1>3, <1>4, <2>1, PassOnlyKeeps
<1>5. CASE Cancellable(p)
  <2>1. /\ DOMAIN snapshots \subseteq Ids
        /\ \A id \in DOMAIN snapshots : snapshots[id] \in SnapshotRows
    BY TypesOK
  <2>2. PICK mine \in Copying : mine = Id(p)
    BY <1>5 DEF Cancellable
  <2>3. PICK r \in Runs : r = Id(p).run
    BY <1>1, AtWork
  <2>4. PICK new \in SnapshotRows : new = [snapshots[mine] EXCEPT !.state = "revoked"]
                                   /\ new.state = "revoked"
                                   /\ new.eligible = snapshots[mine].eligible
    <3>1. snapshots[mine] \in SnapshotRows /\ "revoked" \in {"copying", "accepted", "revoked"}
      BY <2>1 DEF Copying
    <3> DEFINE new == [snapshots[mine] EXCEPT !.state = "revoked"]
    <3>2. /\ new \in SnapshotRows /\ new.state = "revoked"
          /\ new.eligible = snapshots[mine].eligible
      BY <3>1, SnapshotWritten
    <3> QED BY <3>2
  <2>5. PICK t : t = Touch(run[r]) /\ Changed(run[r], t, {"revision"})
    BY <1>1, AtWork, TouchedRow
  <2>6. /\ snapshots' = [snapshots EXCEPT ![mine] = new]
        /\ run' = [run EXCEPT ![r] = t] /\ project' = Touched
    BY <1>5, <2>2, <2>3, <2>4, <2>5 DEF CancelPrepared
  <2>7. /\ run \in [Runs -> RunRows] /\ run' \in [Runs -> RunRows] /\ run'[r] = t
        /\ \A q \in Runs : q # r => run'[q] = run[q]
    BY <2>5, <2>6, TypesOK DEF Changed
  <2>8. \A q \in Runs : RowMoves(q)
    <3>1. RowMoves(r)
      BY <1>3, <2>5, <2>7 DEF RowMoves, RowStays, Closed, Changed, Fields
    <3> QED BY <1>3, <2>7, <3>1 DEF RowMoves, RowStays, Closed
  <2>9. /\ DOMAIN snapshots' \subseteq Ids
        /\ \A id \in DOMAIN snapshots' : snapshots'[id] \in SnapshotRows
        /\ SnapshotsStay
    BY <2>1, <2>4, <2>6 DEF SnapshotsStay, Accepted, Eligible, Copying
  <2>10. /\ project' \in Projects /\ project'.baseline = project.baseline
         /\ project'.snapshot = project.snapshot /\ project.revision <= project'.revision
    <3>1. project \in Projects /\ project.revision \in Nat
      BY TypesOK DEF Projects
    <3> QED BY <2>6, <3>1, TouchedProject
  <2>11. pass' \in [Passes -> PassRows] /\ PassesNamed'
    BY <1>2, PassMoved
  <2>12. TypeOK'
    BY <1>3, <2>7, <2>9, <2>10, <2>11
    DEF BaselineInv, OpenRunIsCurrent, TypeOK, RunRows, Commits, Projects, PassRows, SnapshotRows
  <2>13. NothingAccepted
    BY <1>3, <2>9, <2>10 DEF NothingAccepted, LineStays, SnapshotsStay
  <2> QED BY <2>8, <2>11, <2>12, <2>13, MovesKeep
<1> QED BY <1>4, <1>5 DEF CancelPrepared

-----------------------------------------------------------------------------
(* A reservation closes the attempts before it.                            *)
LEMMA ClosedRow ==
  ASSUME NEW row \in RunRows, NEW t,
         t = [Touch(row) EXCEPT !.active = FALSE, !.state = "superseded"]
  PROVE  /\ Changed(row, t, {"revision", "active", "state"})
         /\ ~t.active /\ t.state = "superseded"
<1> DEFINE u0 == Touch(row)
           u1 == [u0 EXCEPT !.active = FALSE]
           u2 == [u1 EXCEPT !.state = "superseded"]
<1>1. [Touch(row) EXCEPT !.active = FALSE, !.state = "superseded"] = u2
  BY Zenon
<1>2. Changed(row, u0, {"revision"})
  BY TouchedRow
<1> HIDE DEF u0
<1>3. Changed(u0, u1, {"active"}) /\ u1.active = FALSE
  <2>1. u0 \in RunRows /\ FALSE \in BOOLEAN
    BY <1>2 DEF Changed
  <2> QED BY <2>1, FieldWritten
<1> HIDE DEF u1
<1>4. Changed(u1, u2, {"state"}) /\ u2.state = "superseded"
  <2>1. u1 \in RunRows /\ "superseded" \in States
    BY <1>3 DEF Changed, States
  <2> QED BY <2>1, FieldWritten
<1> HIDE DEF u2
<1>5. Changed(row, u2, {"revision", "active", "state"}) /\ u2.active = FALSE
  BY <1>2, <1>3, <1>4 DEF Changed, Fields
<1> QED BY <1>1, <1>4, <1>5

LEMMA ReserveKeeps ==
  ASSUME BaselineInv, NEW r \in Runs, ReserveRun(r)
  PROVE  BaselineInv'
<1>1. /\ run \in [Runs -> RunRows] /\ run[r] \in RunRows
      /\ DOMAIN snapshots \subseteq Ids /\ run[r].state = "staged" /\ RowOK(r)
      /\ UNCHANGED <<comparer, snapshots, promotions, leases, pass, stops>>
      /\ project' = Touched
      /\ \A q \in Runs :
           q.workflow = r.workflow /\ run[q].state \notin Before => q.attempt < r.attempt
  BY TypesOK DEF ReserveRun, BaselineInv, RowsOK
<1>2. \A q \in Runs : q.commit \in Nat /\ q.attempt \in Nat
  BY BaselineAssumption
<1> DEFINE commits == {id.run.commit : id \in {i \in Eligible : IsAncestor(i, r)}}
           before == {q \in Runs : run[q].state \notin Before /\ q.commit <= r.commit}
<1>3. PICK a \in SUBSET Commits : a = commits
  BY <1>1 DEF Eligible, Ids, Commits
<1>4. \A c \in a : c <= r.commit
  BY <1>3 DEF IsAncestor
<1>5. PICK b \in SUBSET Runs : b = before
  OBVIOUS
<1> DEFINE u1 == [run[r] EXCEPT !.state = "uploading"]
           u2 == [u1 EXCEPT !.active = TRUE]
           u3 == [u2 EXCEPT !.ancestry = a]
           u4 == [u3 EXCEPT !.related = b]
<1>6. /\ Changed(run[r], u4, {"state", "active", "ancestry", "related"})
      /\ u4.state = "uploading" /\ u4.active = TRUE /\ u4.ancestry = a
  <2>1. Changed(run[r], u1, {"state"}) /\ u1.state = "uploading"
    <3>1. "uploading" \in States /\ run[r] \in RunRows
      BY <1>1 DEF States, Unfinished
    <3> QED BY <3>1, FieldWritten
  <2> HIDE DEF u1
  <2>2. Changed(u1, u2, {"active"}) /\ u2.active = TRUE
    <3>1. u1 \in RunRows /\ TRUE \in BOOLEAN
      BY <2>1 DEF Changed
    <3> QED BY <3>1, FieldWritten
  <2> HIDE DEF u2
  <2>3. Changed(u2, u3, {"ancestry"}) /\ u3.ancestry = a
    <3>1. u2 \in RunRows /\ a \in SUBSET Commits
      BY <1>3, <2>2 DEF Changed
    <3> QED BY <3>1, FieldWritten
  <2> HIDE DEF u3
  <2>4. Changed(u3, u4, {"related"})
    <3>1. u3 \in RunRows /\ b \in SUBSET Runs
      BY <1>5, <2>3 DEF Changed
    <3> QED BY <3>1, FieldWritten
  <2> HIDE DEF u4
  <2> QED BY <2>1, <2>2, <2>3, <2>4 DEF Changed, Fields
<1> DEFINE reserved == [run[r] EXCEPT !.state = "uploading", !.active = TRUE, !.ancestry = a,
                                      !.related = b]
<1> reserved = u4
  BY Zenon
<1> HIDE DEF u3, u4
<1> PICK t : t = u4
  OBVIOUS
<1>7. /\ Changed(run[r], t, {"state", "active", "ancestry", "related"})
       /\ t.state = "uploading" /\ t.active = TRUE /\ t.ancestry = a
  BY <1>6
<1>8. /\ run'[r] = t
      /\ \A q \in Runs : q # r /\ q \notin Superseded(r) => run'[q] = run[q]
      /\ \A q \in Runs : q # r /\ q \in Superseded(r) =>
           run'[q] = [Touch(run[q]) EXCEPT !.active = FALSE, !.state = "superseded"]
      /\ run' = [q \in Runs |-> run'[q]]
  BY <1>3, <1>5 DEF ReserveRun
<1>9. \A q \in Runs : q # r /\ q \in Superseded(r) =>
        /\ Changed(run[q], run'[q], {"revision", "active", "state"})
        /\ ~run'[q].active /\ run'[q].state = "superseded"
  <2> SUFFICES ASSUME NEW q \in Runs, q # r, q \in Superseded(r)
               PROVE  /\ Changed(run[q], run'[q], {"revision", "active", "state"})
                      /\ ~run'[q].active /\ run'[q].state = "superseded"
    OBVIOUS
  <2>1. run[q] \in RunRows
    BY <1>1
  <2>2. PICK u : u = run'[q]
    OBVIOUS
  <2>3. u = [Touch(run[q]) EXCEPT !.active = FALSE, !.state = "superseded"]
    BY <1>8, <2>2
  <2> QED BY <2>1, <2>2, <2>3, ClosedRow
<1>10. ASSUME NEW q \in Runs, q # r PROVE run'[q] \in RunRows /\ RowMoves(q)
  <2>1. CASE q \in Superseded(r)
    <3>1. run[q].active /\ RowOK(q)
      BY <2>1 DEF Superseded, BaselineInv, RowsOK
    <3>2. /\ Changed(run[q], run'[q], {"revision", "active", "state"})
          /\ ~run'[q].active /\ run'[q].state = "superseded"
      BY <1>9, <1>10, <2>1
    <3> QED BY <1>1, <3>1, <3>2 DEF RowMoves, RowStays, Closed, RowOK, Changed, Fields, Before
  <2>2. CASE q \notin Superseded(r)
    BY <1>1, <1>8, <1>10, <2>2 DEF RowMoves, RowStays, Closed
  <2> QED BY <2>1, <2>2
<1>11. run' \in [Runs -> RunRows]
  <2>1. \A q \in Runs : run'[q] \in RunRows
    BY <1>7, <1>8, <1>10 DEF Changed
  <2> QED BY <1>8, <2>1
<1>12. NothingAccepted /\ project' \in Projects
  BY <1>1, ProjectTurned DEF Turned
<1>13. TypeOK' /\ PassesNamed'
  BY <1>1, <1>11, <1>12
  DEF BaselineInv, OpenRunIsCurrent, TypeOK, RunRows, Commits, Projects, PassesNamed
<1>14. ClosedKept
  BY <1>1, <1>10 DEF ClosedKept, RowMoves, RowStays, Closed, Before
<1>15. comparer'[r] = None /\ ~run'[r].attached /\ run'[r].active
  <2>1. ~run[r].attached /\ comparer[r] = None
    BY <1>1 DEF RowOK, Before
  <2>2. t.attached = run[r].attached
    BY <1>7 DEF Changed, Fields
  <2> QED BY <1>1, <1>7, <1>8, <2>1, <2>2
<1>16. RowOK(r)'
  BY <1>4, <1>7, <1>8, <1>15 DEF RowOK, Before
<1>17. \A q \in Runs : RowOK(q)'
  BY <1>10, <1>12, <1>13, <1>16, MoveKeepsRow DEF RowMoves, NothingAccepted
<1>18. OpenReviewIsCurrent'
  BY <1>10, <1>12, <1>13, <1>15, MoveKeepsRow DEF OpenReviewIsCurrent, RowMoves, NothingAccepted
<1>19. ASSUME NEW q \in Runs, NEW o \in Runs, q.workflow = o.workflow, run'[q].active,
              run'[o].state \notin Before
       PROVE  o.attempt <= q.attempt
  <2>1. CASE o = q
    BY <1>2, <2>1
  <2>2. CASE q = r /\ o # r
    <3>1. run[o].state \notin Before
      BY <1>10, <1>19, <2>2 DEF RowMoves, RowStays, Closed
    <3> QED BY <1>1, <1>2, <1>19, <2>2, <3>1
  <2>3. CASE q # r
    <3>1. run[q].active /\ q \notin Superseded(r)
      BY <1>9, <1>10, <1>19, <2>3 DEF RowMoves, RowStays, Closed
    <3>2. q.workflow # r.workflow
      BY <3>1 DEF Superseded
    <3>3. run[o].state \notin Before
      BY <1>10, <1>19, <3>2 DEF RowMoves, RowStays, Closed
    <3> QED BY <1>19, <3>1, <3>3 DEF BaselineInv, OpenRunIsCurrent, NewestAttemptIsOpen
  <2> QED BY <2>1, <2>2, <2>3
<1>20. NewestAttemptIsOpen'
  BY <1>19 DEF NewestAttemptIsOpen
<1>21. LineStays /\ Standing'
  <2>1. \A q \in Runs : Closed(q) => run'[q].state = run[q].state
    BY <1>1, <1>10 DEF RowMoves, Closed, Before
  <2> QED BY <1>12, <2>1, StandingKept DEF NothingAccepted
<1> QED BY <1>12, <1>13, <1>14, <1>17, <1>18, <1>20, <1>21, LineKept
    DEF BaselineInv, OpenRunIsCurrent, RowsOK

-----------------------------------------------------------------------------
(* A promotion.                                                            *)
\* What it does to the other runs of the project.
OtherMoves(r) ==
  /\ run'[r].active = run[r].active /\ run'[r].attached = run[r].attached
  /\ run'[r].baseline = run[r].baseline /\ run'[r].reference = run[r].reference
  /\ run'[r].ancestry = run[r].ancestry /\ run'[r].sealed = run[r].sealed
  /\ run'[r].approved = run[r].approved /\ run'[r].queue = run[r].queue
  /\ run[r].state \in Before <=> run'[r].state \in Before
  /\ run[r].active => run'[r].comparison \in {"none", "invalidated"}
  /\ run[r].comparison # "none" => run'[r].comparison # "none"
  /\ ~run[r].active => run'[r].state = run[r].state /\ run'[r].comparison = run[r].comparison

LEMMA InvalidatedRow ==
  ASSUME NEW row \in RunRows, row.active, NEW t, t = AfterPromotion(row)
  PROVE  /\ Changed(row, t, {"revision", "comparison", "state"})
         /\ t.comparison \in {"none", "invalidated"}
         /\ row.comparison # "none" => t.comparison # "none"
         /\ row.state \in Before <=> t.state \in Before
<1> DEFINE c == IF row.comparison = "none" THEN row.comparison ELSE "invalidated"
           x == IF row.state = "comparing" /\ row.attached THEN "reviewing" ELSE row.state
           u1 == [row EXCEPT !.comparison = c]
           u2 == [u1 EXCEPT !.state = x]
<1>1. t = Touch([row EXCEPT
           !.comparison = IF row.comparison = "none" THEN row.comparison ELSE "invalidated",
           !.state = IF row.state = "comparing" /\ row.attached THEN "reviewing" ELSE row.state])
  BY DEF AfterPromotion
<1>2. c \in Comparisons /\ c \in {"none", "invalidated"} /\ (row.comparison # "none" => c # "none")
  BY DEF Comparisons
<1>3. x \in States /\ (row.state \in Before <=> x \in Before)
  BY DEF RunRows, States, Before
<1> HIDE DEF c, x
<1>4. [row EXCEPT !.comparison = c, !.state = x] = u2
  BY Zenon
<1>5. Changed(row, u1, {"comparison"}) /\ u1.comparison = c
  BY <1>2, FieldWritten
<1> HIDE DEF u1
<1>6. Changed(u1, u2, {"state"}) /\ u2.state = x
  <2>1. u1 \in RunRows
    BY <1>5 DEF Changed
  <2> QED BY <1>3, <2>1, FieldWritten
<1>7. t = Touch(u2)
  BY <1>1, <1>4 DEF c, x
<1> HIDE DEF u2
<1>8. Changed(u2, t, {"revision"})
  <2>1. u2 \in RunRows
    BY <1>6 DEF Changed
  <2> QED BY <1>7, <2>1, TouchedRow
<1> QED BY <1>2, <1>3, <1>5, <1>6, <1>8 DEF Changed, Fields

LEMMA PromotedRow ==
  ASSUME NEW row \in RunRows, NEW t,
         t = [Touch(row) EXCEPT !.state = "accepted", !.active = FALSE]
  PROVE  /\ Changed(row, t, {"revision", "active", "state"})
         /\ ~t.active /\ t.state = "accepted"
<1> DEFINE u0 == Touch(row)
           u1 == [u0 EXCEPT !.state = "accepted"]
           u2 == [u1 EXCEPT !.active = FALSE]
<1>1. [Touch(row) EXCEPT !.state = "accepted", !.active = FALSE] = u2
  BY Zenon
<1>2. Changed(row, u0, {"revision"})
  BY TouchedRow
<1> HIDE DEF u0
<1>3. Changed(u0, u1, {"state"}) /\ u1.state = "accepted"
  <2>1. u0 \in RunRows /\ "accepted" \in States
    BY <1>2 DEF Changed, States
  <2> QED BY <2>1, FieldWritten
<1> HIDE DEF u1
<1>4. Changed(u1, u2, {"active"}) /\ u2.active = FALSE
  <2>1. u1 \in RunRows /\ FALSE \in BOOLEAN
    BY <1>3 DEF Changed
  <2> QED BY <2>1, FieldWritten
<1> HIDE DEF u2
<1>5. Changed(row, u2, {"revision", "active", "state"}) /\ u2.state = "accepted"
  BY <1>2, <1>3, <1>4 DEF Changed, Fields
<1> QED BY <1>1, <1>4, <1>5

\* A promotion that is not refused, in parts.
LEMMA PromotionMoves ==
  ASSUME BaselineInv, NEW p \in Passes, Promote(p), Promotable(p), NEW mine \in Runs,
         mine = Id(p).run
  PROVE  /\ run' \in [Runs -> RunRows]
         /\ Changed(run[mine], run'[mine], {"revision", "active", "state"})
         /\ ~run'[mine].active /\ run'[mine].state = "accepted"
         /\ \A r \in Runs : r # mine => OtherMoves(r)
<1>1. pass[p].at # "idle"
  BY DEF Promote
<1>2. run \in [Runs -> RunRows] /\ run[mine] \in RunRows
  BY TypesOK
<1>3. project.snapshot # None =>
        project.snapshot.run \in Runs /\ ~run[project.snapshot.run].active
  <2> SUFFICES ASSUME project.snapshot # None
               PROVE  project.snapshot.run \in Runs /\ ~run[project.snapshot.run].active
    OBVIOUS
  <2>1. project.snapshot \in Accepted /\ project.snapshot \in Ids
    BY TypesOK DEF BaselineInv, Standing, Accepted
  <2>2. PICK i \in DOMAIN promotions : promotions[i].id = project.snapshot
    BY <2>1 DEF BaselineInv, AcceptedPromoted
  <2> QED BY <2>1, <2>2 DEF BaselineInv, Promoted, Closed, Ids
<1>4. run' = [r \in Runs |->
         IF r = mine THEN [Touch(run[r]) EXCEPT !.state = "accepted", !.active = FALSE]
         ELSE IF project.snapshot # None /\ r = project.snapshot.run THEN Touch(run[r])
         ELSE AfterPromotion(run[r])]
  BY Zenon DEF Promote
<1>5. /\ Changed(run[mine], run'[mine], {"revision", "active", "state"})
      /\ ~run'[mine].active /\ run'[mine].state = "accepted"
  <2>1. PICK t : t = run'[mine]
    OBVIOUS
  <2>2. t = [Touch(run[mine]) EXCEPT !.state = "accepted", !.active = FALSE]
    BY <1>4, <2>1
  <2> QED BY <1>2, <2>1, <2>2, PromotedRow
<1>6. ASSUME NEW r \in Runs, r # mine PROVE run'[r] \in RunRows /\ OtherMoves(r)
  <2>1. PICK t : t = run'[r]
    OBVIOUS
  <2>2. run[r] \in RunRows
    BY <1>2
  <2>3. CASE project.snapshot # None /\ r = project.snapshot.run
    <3>1. t = Touch(run[r])
      BY <1>4, <1>6, <2>1, <2>3
    <3>2. Changed(run[r], t, {"revision"})
      BY <2>2, <3>1, TouchedRow
    <3> QED BY <1>3, <2>1, <2>3, <3>2 DEF OtherMoves, Changed, Fields
  <2>4. CASE ~(project.snapshot # None /\ r = project.snapshot.run) /\ run[r].active
    <3>1. t = AfterPromotion(run[r])
      BY <1>4, <1>6, <2>1, <2>4
    <3>2. /\ Changed(run[r], t, {"revision", "comparison", "state"})
          /\ t.comparison \in {"none", "invalidated"}
          /\ run[r].comparison # "none" => t.comparison # "none"
          /\ run[r].state \in Before <=> t.state \in Before
      BY <2>2, <2>4, <3>1, InvalidatedRow
    <3> QED BY <2>1, <2>4, <3>2 DEF OtherMoves, Changed, Fields
  <2>5. CASE ~(project.snapshot # None /\ r = project.snapshot.run) /\ ~run[r].active
    <3>1. run'[r] = run[r]
      BY <1>4, <1>6, <2>5 DEF AfterPromotion
    <3> QED BY <2>2, <2>5, <3>1 DEF OtherMoves
  <2> QED BY <2>3, <2>4, <2>5
<1>7. run' \in [Runs -> RunRows]
  <2>1. \A r \in Runs : run'[r] \in RunRows
    BY <1>5, <1>6 DEF Changed
  <2>2. run' = [r \in Runs |-> run'[r]]
    BY <1>4
  <2> QED BY <2>1, <2>2
<1> QED BY <1>5, <1>6, <1>7

LEMMA PromoteKeeps ==
  ASSUME BaselineInv, NEW p \in Passes, Promote(p)
  PROVE  BaselineInv'
<1>1. pass[p].at # "idle" /\ UNCHANGED <<comparer, leases, stops>>
  BY DEF Promote
<1>2. PassMoves(p)
  <2>1. "done" \in Places
    BY DEF Places
  <2> QED BY <1>1, <2>1, AtWork, PlaceMoves DEF Promote
<1>3. CASE ~Promotable(p)
  <2>1. UNCHANGED <<project, run, snapshots, promotions>>
    BY <1>3 DEF Promote
  <2>2. leases' \subseteq [id : Ids, pass : Passes] /\ stops' \in 0..MaxStops
    BY <1>1, AtWork
  <2> QED BY <1>1, <1>2, <2>1, <2>2, PassOnlyKeeps
<1>4. CASE Promotable(p)
  <2>1. PICK mine \in Runs : mine = Id(p).run
    BY <1>1, AtWork
  <2>2. PICK id \in Ids : id = Id(p)
    BY <1>1, AtWork DEF Id
  <2> DEFINE n == Len(promotions)
             new == [id |-> id, previous |-> project.snapshot, baseline |-> project.baseline + 1]
  <2>3. /\ project \in Projects /\ project.revision \in Nat /\ project.baseline \in Nat
        /\ project.snapshot \in Ids \cup {None} /\ None \notin Ids
        /\ promotions \in Seq([id : Ids, previous : Ids \cup {None}, baseline : Nat])
        /\ DOMAIN snapshots \subseteq Ids
        /\ \A i \in DOMAIN snapshots : snapshots[i] \in SnapshotRows
    BY TypesOK, BaselineAssumption DEF Projects, Ids
  <2>4. /\ id \in Copying /\ snapshots[id].verified /\ id.run = mine
        /\ run[mine].active /\ run[mine].approved /\ run[mine].queue # "waiting"
        /\ run[mine].sealed /\ run[mine].attached /\ run[mine].comparison = "ready"
        /\ run[mine].baseline = project.baseline /\ run[mine].reference = project.snapshot
        /\ project.snapshot # None =>
             project.snapshot \in Eligible /\ project.snapshot.run.commit \in run[mine].ancestry
    BY <1>4, <2>1, <2>2 DEF Promotable, ReadyFor, ActiveGuard, RunOf
  <2>5. /\ run' \in [Runs -> RunRows]
        /\ Changed(run[mine], run'[mine], {"revision", "active", "state"})
        /\ ~run'[mine].active /\ run'[mine].state = "accepted"
        /\ \A r \in Runs : r # mine => OtherMoves(r)
    BY <1>4, <2>1, PromotionMoves
  <2>6. /\ run'[mine].baseline = project.baseline /\ run'[mine].reference = project.snapshot
        /\ run'[mine].ancestry = run[mine].ancestry /\ run'[mine].sealed = run[mine].sealed
        /\ run'[mine].attached = run[mine].attached /\ run'[mine].queue = run[mine].queue
        /\ run'[mine].comparison = "ready" /\ run'[mine].approved = run[mine].approved
    BY <2>4, <2>5 DEF Changed, Fields
  <2>7. promotions' = Append(promotions, new)
    BY <1>4, <2>2 DEF Promote
  <2>8. PICK row \in SnapshotRows :
          /\ snapshots' = [snapshots EXCEPT ![id] = row]
          /\ row.state = "accepted" /\ row.eligible /\ row.verified = snapshots[id].verified
    <3> DEFINE u1 == [snapshots[id] EXCEPT !.state = "accepted"]
               u2 == [u1 EXCEPT !.eligible = TRUE]
    <3>1. snapshots[id] \in SnapshotRows /\ id \in DOMAIN snapshots
      BY <2>3, <2>4 DEF Copying
    <3>2. snapshots' = [snapshots EXCEPT ![id] = u2]
      <4>1. snapshots' = [snapshots EXCEPT ![Id(p)].state = "accepted",
                                           ![Id(p)].eligible = TRUE]
        BY <1>4 DEF Promote
      <4>2. snapshots' = [snapshots EXCEPT ![id].state = "accepted", ![id].eligible = TRUE]
        BY <2>2, <4>1
      <4>3. [snapshots EXCEPT ![id].state = "accepted", ![id].eligible = TRUE]
              = [snapshots EXCEPT ![id] = u2]
        BY <3>1, Zenon
      <4> HIDE DEF u2
      <4> QED BY <4>2, <4>3
    <3>3. u1 \in SnapshotRows /\ u1.state = "accepted" /\ u1.verified = snapshots[id].verified
      BY <3>1, SnapshotWritten
    <3> HIDE DEF u1
    <3>4. /\ u2 \in SnapshotRows /\ u2.eligible = TRUE
          /\ u2.state = "accepted" /\ u2.verified = snapshots[id].verified
      BY <3>3, SnapshotWritten
    <3> HIDE DEF u2
    <3> QED BY <3>2, <3>4
  <2>9. snapshots' = [snapshots EXCEPT ![id] = row]
    BY <2>8
  <2>10. /\ project' \in Projects /\ project'.revision = project.revision + 1
         /\ project'.baseline = project.baseline + 1 /\ project'.snapshot = id
    <3> DEFINE u1 == [Touched EXCEPT !.snapshot = id]
               u2 == [u1 EXCEPT !.baseline = Touched.baseline + 1]
    <3>1. project' = u2
      <4>1. [Touched EXCEPT !.snapshot = id, !.baseline = Touched.baseline + 1] = u2
        BY Zenon
      <4>2. project' = [Touched EXCEPT !.snapshot = id, !.baseline = Touched.baseline + 1]
        BY <1>4, <2>2 DEF Promote
      <4> HIDE DEF u2
      <4> QED BY <4>1, <4>2
    <3>2. /\ Touched \in Projects /\ Touched.revision = project.revision + 1
          /\ Touched.baseline = project.baseline
      BY <2>3, TouchedProject
    <3>3. u1 \in Projects /\ u1.revision = Touched.revision /\ u1.snapshot = id
      BY <2>2, <3>2 DEF Projects
    <3> HIDE DEF u1
    <3>4. /\ u2 \in Projects /\ u2.revision = u1.revision /\ u2.snapshot = u1.snapshot
          /\ u2.baseline = Touched.baseline + 1
      BY <2>3, <3>2, <3>3 DEF Projects
    <3> HIDE DEF u2
    <3> QED BY <3>1, <3>2, <3>3, <3>4
  \* The sequence of the promotions.
  <2>11. new \in [id : Ids, previous : Ids \cup {None}, baseline : Nat]
    BY <2>3
  <2>12. /\ n \in Nat /\ DOMAIN promotions = 1..n /\ project.baseline = n
         /\ Len(promotions') = n + 1 /\ DOMAIN promotions' = 1..(n + 1)
         /\ \A i \in 1..n : promotions'[i] = promotions[i]
         /\ promotions'[n + 1] = new
         /\ promotions' \in Seq([id : Ids, previous : Ids \cup {None}, baseline : Nat])
    BY <2>3, <2>7, <2>11, LenProperties, AppendProperties DEF BaselineInv, BaselineLine
  <2>13. new.id = id /\ new.previous = project.snapshot /\ new.baseline = n + 1
    BY <2>12
  <2> HIDE DEF n, new
  <2>14. \A i \in 1..n :
           /\ promotions[i].id \in Ids /\ promotions[i].id.run \in Runs
           /\ promotions[i].id.run # mine
           /\ Closed(promotions[i].id.run)
    <3>1. \A i \in 1..n :
            promotions[i] \in [id : Ids, previous : Ids \cup {None}, baseline : Nat]
      BY <2>3, <2>12, ElementOfSeq DEF n
    <3>2. \A i \in 1..n : promotions[i].id \in Ids /\ promotions[i].id.run \in Runs
      BY <3>1 DEF Ids
    <3> QED BY <2>4, <2>12, <3>2 DEF BaselineInv, Promoted, Closed
  <2>15. \A i \in 1..n : OtherMoves(promotions[i].id.run)
    BY <2>5, <2>14
  <2>16. n > 0 => project.snapshot = promotions[n].id /\ project.snapshot # None
    <3>1. n > 0 => promotions # <<>> /\ Last(promotions) = promotions[n]
      BY <2>3, <2>12 DEF Last, n
    <3> QED BY <2>3, <2>12, <2>14, <3>1 DEF BaselineInv, BaselineLine
  <2>17. n = 0 => project.snapshot = None
    <3>1. n = 0 => promotions = <<>>
      BY <2>3, EmptySeq DEF n
    <3> QED BY <3>1 DEF BaselineInv, BaselineLine
  \* The parts of the invariant.
  <2>18. pass' \in [Passes -> PassRows] /\ PassesNamed'
    BY <1>2, PassMoved
  <2>19. /\ DOMAIN snapshots' \subseteq Ids
         /\ \A i \in DOMAIN snapshots' : snapshots'[i] \in SnapshotRows
         /\ \A i \in Accepted' : i = id \/ (i \in Accepted /\ snapshots'[i] = snapshots[i])
         /\ id \in Accepted' /\ snapshots'[id].verified
    BY <2>3, <2>4, <2>8, <2>9 DEF Accepted, Copying
  <2>20. TypeOK'
    BY <1>1, <2>5, <2>10, <2>12, <2>18, <2>19
    DEF BaselineInv, OpenRunIsCurrent, TypeOK, RunRows, Commits, Projects, PassRows, SnapshotRows
  <2>21. ASSUME NEW i \in 1..(n + 1)
         PROVE  /\ promotions'[i].baseline = i
                /\ run'[promotions'[i].id.run].baseline = i - 1
                /\ promotions'[i].previous = run'[promotions'[i].id.run].reference
                /\ promotions'[i].previous = IF i = 1 THEN None ELSE promotions'[i - 1].id
    <3>1. CASE i = n + 1
      <4>1. project.snapshot = IF n + 1 = 1 THEN None ELSE promotions'[n].id
        BY <2>12, <2>16, <2>17
      <4> QED BY <2>4, <2>6, <2>12, <2>13, <3>1, <4>1
    <3>2. CASE i # n + 1
      <4>1. i \in 1..n /\ promotions'[i] = promotions[i]
        BY <2>12, <3>2
      <4>2. i # 1 => promotions'[i - 1] = promotions[i - 1]
        BY <2>12, <4>1
      <4>3. /\ promotions[i].baseline = i /\ run[promotions[i].id.run].baseline = i - 1
            /\ promotions[i].previous = run[promotions[i].id.run].reference
            /\ promotions[i].previous = IF i = 1 THEN None ELSE promotions[i - 1].id
        BY <2>12, <4>1 DEF BaselineInv, BaselineLine
      <4> QED BY <2>15, <4>1, <4>2, <4>3 DEF OtherMoves
    <3> QED BY <3>1, <3>2
  <2>22. BaselineMovesForward'
    <3> SUFFICES ASSUME NEW i \in 1..(n + 1), NEW j \in 1..(n + 1), i < j
                 PROVE  promotions'[i].id.run.commit <= promotions'[j].id.run.commit
      BY <2>12 DEF BaselineMovesForward
    <3>1. CASE j # n + 1
      <4>1. i \in 1..n /\ j \in 1..n
        BY <2>12, <3>1
      <4>2. promotions[i].id.run.commit <= promotions[j].id.run.commit
        BY <2>12, <4>1 DEF BaselineInv, BaselineLine, BaselineMovesForward
      <4> QED BY <2>12, <4>1, <4>2
    <3>2. CASE j = n + 1
      <4>1. i \in 1..n /\ n > 0 /\ n \in 1..n
        BY <2>12, <3>2
      <4>2. promotions[i].id.run.commit <= promotions[n].id.run.commit
        <5>1. CASE i = n
          <6>1. promotions[n].id.run.commit \in Nat
            BY <2>14, <4>1, BaselineAssumption
          <6> QED BY <5>1, <6>1
        <5>2. CASE i # n
          BY <2>12, <4>1, <5>2 DEF BaselineInv, BaselineLine, BaselineMovesForward
        <5> QED BY <5>1, <5>2
      <4>3. promotions[n].id.run.commit <= mine.commit
        BY <2>4, <2>16, <4>1 DEF BaselineInv, RowsOK, RowOK
      <4>4. /\ promotions[i].id.run.commit \in Nat /\ promotions[n].id.run.commit \in Nat
            /\ mine.commit \in Nat
        BY <2>14, <4>1, BaselineAssumption
      <4> QED BY <2>4, <2>12, <2>13, <3>2, <4>1, <4>2, <4>3, <4>4
    <3> QED BY <3>1, <3>2
  <2>23. BaselineLine'
    <3>1. project'.snapshot = Last(promotions').id /\ promotions' # <<>>
      BY <2>10, <2>12, <2>13 DEF Last
    <3> QED BY <2>10, <2>12, <2>21, <2>22, <3>1 DEF BaselineLine
  <2>24. Promoted'
    <3> SUFFICES ASSUME NEW i \in 1..(n + 1)
                 PROVE  /\ ~run'[promotions'[i].id.run].active
                        /\ run'[promotions'[i].id.run].state \notin Before
                        /\ \A j \in 1..(n + 1) :
                             promotions'[j].id.run = promotions'[i].id.run => j = i
      BY <2>12 DEF Promoted, Closed
    <3>1. \A j \in 1..(n + 1) : j = n + 1 \/ (j \in 1..n /\ promotions'[j] = promotions[j])
      BY <2>12
    <3>2. promotions'[n + 1].id.run = mine
      BY <2>4, <2>12, <2>13
    <3>3. CASE i = n + 1
      BY <2>5, <2>14, <3>1, <3>2, <3>3 DEF Before
    <3>4. CASE i # n + 1
      <4>1. i \in 1..n /\ promotions'[i] = promotions[i]
        BY <3>1, <3>4
      <4>2. \A j \in 1..n : promotions[j].id.run = promotions[i].id.run => j = i
        BY <2>12, <4>1 DEF BaselineInv, Promoted
      <4>3. promotions[i].id.run # mine /\ OtherMoves(promotions[i].id.run)
        BY <2>14, <2>15, <4>1
      <4>4. /\ ~run'[promotions'[i].id.run].active
            /\ run'[promotions'[i].id.run].state \notin Before
        BY <2>14, <4>1, <4>3 DEF OtherMoves, Closed
      <4> QED BY <3>1, <3>2, <4>1, <4>2, <4>3, <4>4
    <3> QED BY <3>3, <3>4
  <2>25. AcceptedPromoted'
    <3> SUFFICES ASSUME NEW s \in Accepted'
                 PROVE  \E i \in 1..(n + 1) : promotions'[i].id = s
      BY <2>12 DEF AcceptedPromoted
    <3>1. CASE s = id
      BY <2>12, <2>13, <3>1
    <3>2. CASE s # id
      <4>1. PICK i \in 1..n : promotions[i].id = s
        BY <2>12, <2>19, <3>2 DEF BaselineInv, AcceptedPromoted
      <4> QED BY <2>12, <4>1
    <3> QED BY <3>1, <3>2
  <2>26. ASSUME NEW s \in Accepted' PROVE Final(s)'
    <3>1. CASE s = id
      BY <2>4, <2>6, <2>19, <3>1 DEF Final
    <3>2. CASE s # id
      <4>1. s \in Accepted /\ snapshots'[s] = snapshots[s]
        BY <2>19, <3>2
      <4>2. PICK i \in 1..n : promotions[i].id = s
        BY <2>12, <4>1 DEF BaselineInv, AcceptedPromoted
      <4>3. ~run[s.run].active /\ OtherMoves(s.run)
        BY <2>14, <2>15, <4>2 DEF Closed
      <4>4. Final(s)
        BY <4>1 DEF BaselineInv
      <4> QED BY <4>1, <4>3, <4>4 DEF Final, OtherMoves
    <3> QED BY <3>1, <3>2
  <2>27. ASSUME NEW r \in Runs PROVE RowOK(r)'
    <3>1. RowOK(r) /\ RowOK(mine)
      BY DEF BaselineInv, RowsOK
    <3>2. comparer'[r] # None => comparer'[r].project < project'.revision
      <4>1. comparer[r] # None => comparer[r].project \in Nat
        BY TypesOK
      <4> QED BY <1>1, <2>3, <2>10, <3>1, <4>1 DEF RowOK
    <3>3. comparer'[r] # None => comparer'[r].project \in Nat
      BY <1>1, TypesOK
    <3>4. project'.revision \in Nat
      BY <2>10 DEF Projects
    <3>5. /\ run'[r].state \in Before =>
               ~run'[r].active /\ ~run'[r].attached /\ comparer'[r] = None
          /\ run'[r].attached \/ comparer'[r] # None => run'[r].comparison # "none"
          /\ \A c \in run'[r].ancestry : c <= r.commit
      <4>1. CASE r = mine
        BY <1>1, <2>5, <2>6, <3>1, <4>1 DEF RowOK, Before
      <4>2. CASE r # mine
        BY <1>1, <2>5, <3>1, <4>2 DEF RowOK, OtherMoves
      <4> QED BY <4>1, <4>2
    <3> QED BY <3>2, <3>3, <3>4, <3>5 DEF RowOK
  <2>28. OpenReviewIsCurrent'
    <3> SUFFICES ASSUME NEW r \in Runs, run'[r].active, run'[r].attached,
                        run'[r].comparison # "invalidated"
                 PROVE  FALSE
      BY DEF OpenReviewIsCurrent
    <3>1. r # mine /\ OtherMoves(r)
      BY <2>5
    <3> QED BY <3>1 DEF OtherMoves, BaselineInv, RowsOK, RowOK
  <2>29. NewestAttemptIsOpen'
    <3>1. \A r \in Runs :
            /\ run'[r].active => run[r].active
            /\ run'[r].state \notin Before => run[r].state \notin Before
      <4>1. run[mine].state \notin Before
        BY <2>4 DEF BaselineInv, RowsOK, RowOK
      <4> QED BY <2>5, <4>1 DEF OtherMoves
    <3>2. NewestAttemptIsOpen
      BY DEF BaselineInv, OpenRunIsCurrent
    <3>3. ASSUME NEW q \in Runs, NEW r \in Runs, q.workflow = r.workflow, run'[q].active,
                 run'[r].state \notin Before
          PROVE  r.attempt <= q.attempt
      BY <3>1, <3>2, <3>3 DEF NewestAttemptIsOpen
    <3> QED BY <3>3 DEF NewestAttemptIsOpen
  <2>30. Standing'
    <3>1. Eligible' = Eligible \cup {id} /\ Accepted' = Accepted \cup {id}
      BY <2>4, <2>8, <2>9 DEF Eligible, Accepted, Copying
    <3>2. id \notin Accepted
      BY <2>4 DEF Accepted, Copying
    <3>3. ASSUME NEW s \in Accepted PROVE run'[s.run].state = run[s.run].state
      <4>1. PICK i \in 1..n : promotions[i].id = s
        BY <2>12 DEF BaselineInv, AcceptedPromoted
      <4> QED BY <2>14, <2>15, <4>1 DEF OtherMoves, Closed
    <3>4. run'[id.run].state = "accepted"
      BY <2>4, <2>5
    <3> QED BY <2>10, <3>1, <3>2, <3>3, <3>4 DEF BaselineInv, Standing
  <2> QED BY <2>18, <2>20, <2>23, <2>24, <2>25, <2>26, <2>27, <2>28, <2>29, <2>30
      DEF BaselineInv, OpenRunIsCurrent, RowsOK
<1> QED BY <1>3, <1>4

-----------------------------------------------------------------------------
(* A retirement: only the run of the snapshot is closed differently, and   *)
(* no other accepted snapshot is of that run.                              *)
LEMMA OneSnapshot ==
  ASSUME BaselineInv, NEW id \in Accepted
  PROVE  /\ id \in Ids /\ id.run \in Runs /\ Closed(id.run) /\ project.snapshot # None
         /\ \A other \in Accepted : other.run = id.run => other = id
<1>1. id \in Ids /\ id.run \in Runs
  BY TypesOK DEF Accepted, Ids
<1>2. PICK i \in DOMAIN promotions : promotions[i].id = id
  BY DEF BaselineInv, AcceptedPromoted
<1>3. Closed(id.run)
  BY <1>2 DEF BaselineInv, Promoted
<1>4. \A other \in Accepted : other.run = id.run => other = id
  BY <1>2 DEF BaselineInv, AcceptedPromoted, Promoted
<1>5. project.snapshot # None
  <2>1. /\ promotions \in Seq([id : Ids, previous : Ids \cup {None}, baseline : Nat])
        /\ Len(promotions) \in Nat /\ DOMAIN promotions = 1..Len(promotions)
    BY TypesOK, LenProperties
  <2>2. Len(promotions) \in DOMAIN promotions /\ promotions # <<>>
    BY <1>2, <2>1
  <2>3. promotions[Len(promotions)] \in [id : Ids, previous : Ids \cup {None}, baseline : Nat]
    BY <2>1, <2>2, ElementOfSeq
  <2>4. project.snapshot = promotions[Len(promotions)].id
    BY <2>2 DEF BaselineInv, BaselineLine, Last
  <2> QED BY <2>3, <2>4, BaselineAssumption DEF Ids
<1> QED BY <1>1, <1>3, <1>4, <1>5

LEMMA RetiredRow ==
  ASSUME NEW row \in RunRows, NEW t, t = [Touch(row) EXCEPT !.state = "superseded"]
  PROVE  Changed(row, t, {"revision", "state"}) /\ t.state = "superseded"
<1> DEFINE u0 == Touch(row)
           u1 == [u0 EXCEPT !.state = "superseded"]
<1>1. Changed(row, u0, {"revision"})
  BY TouchedRow
<1>2. t = u1
  OBVIOUS
<1> HIDE DEF u0
<1>3. Changed(u0, u1, {"state"}) /\ u1.state = "superseded"
  <2>1. u0 \in RunRows /\ "superseded" \in States
    BY <1>1 DEF Changed, States
  <2> QED BY <2>1, FieldWritten
<1> HIDE DEF u1
<1> QED BY <1>1, <1>2, <1>3 DEF Changed, Fields

\* What a retirement does to the run of its snapshot.
LEMMA RetirementMoves ==
  ASSUME BaselineInv, NEW id \in Eligible, RetireSnapshot(id), NEW mine \in Runs, mine = id.run
  PROVE  /\ run' \in [Runs -> RunRows] /\ \A q \in Runs : q # mine => run'[q] = run[q]
         /\ Changed(run[mine], run'[mine], {"revision", "state"})
         /\ run'[mine].state = "superseded"
<1>1. run \in [Runs -> RunRows] /\ run[mine] \in RunRows
  BY TypesOK
<1>2. /\ id \in Accepted /\ project.snapshot \in Accepted /\ project.snapshot # id
      /\ run[mine].state = "accepted"
  BY OneSnapshot DEF BaselineInv, Standing, RetireSnapshot, Retirable
<1>3. project.snapshot.run # mine
  BY <1>2, OneSnapshot
<1>4. PICK t : t = [Touch(run[mine]) EXCEPT !.state = "superseded"]
  OBVIOUS
<1>5. run' = [run EXCEPT ![mine] = t]
  BY <1>2, <1>3, <1>4 DEF RetireSnapshot
<1>6. Changed(run[mine], t, {"revision", "state"}) /\ t.state = "superseded"
  BY <1>1, <1>4, RetiredRow
<1> QED BY <1>1, <1>5, <1>6 DEF Changed

LEMMA RetireSnapshotKeeps ==
  ASSUME BaselineInv, NEW id \in Eligible, RetireSnapshot(id)
  PROVE  BaselineInv'
<1>1. /\ id \in Accepted /\ project.snapshot # id /\ project' = Touched
      /\ UNCHANGED <<comparer, promotions, leases, pass, stops>>
      /\ snapshots' = [snapshots EXCEPT ![id].eligible = FALSE]
  BY DEF BaselineInv, Standing, RetireSnapshot, Retirable
<1>2. PICK mine \in Runs : mine = id.run /\ Closed(mine)
  BY <1>1, OneSnapshot
<1>3. /\ run' \in [Runs -> RunRows] /\ \A q \in Runs : q # mine => run'[q] = run[q]
      /\ Changed(run[mine], run'[mine], {"revision", "state"})
      /\ run'[mine].state = "superseded"
  BY <1>2, RetirementMoves
<1>4. /\ DOMAIN snapshots \subseteq Ids /\ id \in DOMAIN snapshots
      /\ \A i \in DOMAIN snapshots : snapshots[i] \in SnapshotRows
  BY <1>1, TypesOK DEF Accepted
<1>5. PICK row \in SnapshotRows :
        /\ snapshots' = [snapshots EXCEPT ![id] = row] /\ ~row.eligible
        /\ row.state = snapshots[id].state /\ row.verified = snapshots[id].verified
  <2> DEFINE new == [snapshots[id] EXCEPT !.eligible = FALSE]
  <2>1. /\ new \in SnapshotRows /\ ~new.eligible
        /\ new.state = snapshots[id].state /\ new.verified = snapshots[id].verified
    BY <1>4, SnapshotWritten
  <2>2. snapshots' = [snapshots EXCEPT ![id] = new]
    BY <1>1
  <2> HIDE DEF new
  <2> QED BY <2>1, <2>2
<1>6. /\ DOMAIN snapshots' \subseteq Ids
      /\ \A i \in DOMAIN snapshots' : snapshots'[i] \in SnapshotRows
      /\ \A i \in Accepted : snapshots'[i].verified = snapshots[i].verified
      /\ Accepted' = Accepted /\ Eligible' = Eligible \ {id}
  BY <1>4, <1>5 DEF Accepted, Eligible
<1>7. /\ project' \in Projects /\ project'.baseline = project.baseline
      /\ project'.snapshot = project.snapshot /\ project.revision <= project'.revision
  <2>1. project \in Projects /\ project.revision \in Nat
    BY TypesOK DEF Projects
  <2> QED BY <1>1, <2>1, TouchedProject
<1>8. TypeOK' /\ PassesNamed'
  BY <1>1, <1>3, <1>6, <1>7
  DEF BaselineInv, OpenRunIsCurrent, TypeOK, PassesNamed, RunRows, Commits, Projects, SnapshotRows
<1>9. LineStays
  BY <1>1, <1>6, <1>7 DEF LineStays
<1>10. Standing'
  <2>1. \A other \in Accepted : other # id => other.run \in Runs /\ other.run # mine
    BY <1>1, <1>2, OneSnapshot
  <2>2. \A other \in Accepted : other # id => run'[other.run].state = run[other.run].state
    BY <1>3, <2>1
  <2> QED BY <1>1, <1>2, <1>3, <1>6, <1>7, <2>2 DEF BaselineInv, Standing
<1>11. ASSUME NEW q \in Runs PROVE RowStays(q)
  <2>1. CASE q = mine
    <3>1. run'[mine].state \notin Before /\ run[mine].state \notin Before
      BY <1>2, <1>3 DEF Before, Closed
    <3> QED BY <1>1, <1>3, <2>1, <3>1 DEF RowStays, Changed, Fields
  <2>2. CASE q # mine
    BY <1>1, <1>3, <2>2 DEF RowStays
  <2> QED BY <2>1, <2>2
<1> QED BY <1>8, <1>9, <1>10, <1>11, StaysKeep

-----------------------------------------------------------------------------
(* The invariant holds.                                                    *)
LEMMA BaselineStarts == Init => BaselineInv
<1> SUFFICES ASSUME Init PROVE BaselineInv
  OBVIOUS
<1>1. NewRun \in RunRows
  BY DEF NewRun, RunRows, States, Before, Comparisons
<1>2. TypeOK
  <2>1. project \in [revision : Nat, baseline : Nat, snapshot : Ids \cup {None}]
    BY DEF Init
  <2>2. run \in [Runs -> RunRows] /\ comparer \in [Runs -> [project : Nat, run : Nat] \cup {None}]
    BY <1>1 DEF Init
  <2>3. pass \in [Passes -> PassRows]
    BY DEF Init, Idle, PassRows, Places
  <2>4. DOMAIN snapshots = {} /\ leases = {} /\ stops = 0 /\ promotions = <<>>
    BY DEF Init
  <2>5. stops \in 0..MaxStops
    BY <2>4, BaselineAssumption
  <2> QED BY <2>1, <2>2, <2>3, <2>4, <2>5 DEF TypeOK, RunRows, Commits, PassRows
<1>3. /\ DOMAIN promotions = {} /\ Len(promotions) = 0 /\ promotions = <<>> /\ Accepted = {}
      /\ Eligible = {} /\ project.baseline = 0 /\ project.snapshot = None
  BY DEF Init, Accepted, Eligible
<1>4. BaselineLine
  BY <1>3 DEF BaselineLine, BaselineMovesForward
<1>5. \A r \in Runs :
        /\ run[r].state = "none" /\ ~run[r].active /\ ~run[r].attached
        /\ run[r].ancestry = {} /\ comparer[r] = None
  BY DEF Init, NewRun
<1>6. RowsOK /\ OpenRunIsCurrent
  BY <1>2, <1>5 DEF RowsOK, RowOK, OpenRunIsCurrent, OpenReviewIsCurrent, NewestAttemptIsOpen
<1>7. PassesNamed
  BY DEF Init, Idle, PassesNamed
<1> QED BY <1>3, <1>4, <1>6, <1>7 DEF BaselineInv, Promoted, AcceptedPromoted, Standing

LEMMA BaselineKept == BaselineInv /\ [Next]_vars => BaselineInv'
<1> SUFFICES ASSUME BaselineInv, [Next]_vars PROVE BaselineInv'
  OBVIOUS
<1>1. ASSUME NEW r \in Runs,
             \/ SelectReference(r) \/ ReserveRun(r) \/ SealRun(r) \/ FailRun(r) \/ ExpireRun(r)
             \/ BeginComparison(r) \/ AttachComparison(r) \/ StopComparison(r)
             \/ FinalizeComparison(r)
             \/ AdmitDecision(r) \/ SaveDecision(r) \/ RefuseDecision(r) \/ RetireReplaced(r)
      PROVE  BaselineInv'
  BY <1>1, SelectKeeps, ReserveKeeps, SealKeeps, FailKeeps, ExpireKeeps, BeginKeeps,
     AttachKeeps, FinalizeKeeps, AdmitKeeps, SaveKeeps, RefuseKeeps, RetireKeeps
<1>2. ASSUME NEW p \in Passes,
             \/ \E r \in Runs : PickCandidate(p, r)
             \/ \E id \in Copying : PickInterrupted(p, id)
      PROVE  BaselineInv'
  BY <1>2, PickKeeps
<1>3. ASSUME NEW p \in Passes, Step(p) \/ PassStops(p)
      PROVE  BaselineInv'
  BY <1>3, LeaseKeeps, ReadsKeep, PrepareKeeps, VerifyKeeps, PromoteKeeps, CancelKeeps DEF Step
<1>4. CASE \E lease \in leases : LeaseEnds(lease)
  BY <1>4, LeaseEndsKeeps
<1>5. CASE \E id \in Eligible : RetireSnapshot(id)
  BY <1>5, RetireSnapshotKeeps
<1>6. CASE UNCHANGED vars
  <2>1. project.revision \in Nat
    BY TypesOK DEF Projects
  <2>2. TypeOK' /\ PassesNamed' /\ NothingAccepted
    BY <1>6, <2>1 DEF vars, BaselineInv, OpenRunIsCurrent, TypeOK, PassesNamed, NothingAccepted,
       LineStays, Accepted, Eligible
  <2>3. \A r \in Runs : RowMoves(r)
    BY <1>6, NothingMoves DEF vars
  <2> QED BY <2>2, <2>3, MovesKeep
<1> QED BY <1>1, <1>2, <1>3, <1>4, <1>5, <1>6 DEF Next

(* The inductive invariant: the three properties below, and what the       *)
(* writes of the rows need to know of each other.                          *)
THEOREM BaselineInvariantHolds == Spec => []BaselineInv
<1>1. Init => BaselineInv
  BY BaselineStarts
<1>2. BaselineInv /\ [Next]_vars => BaselineInv'
  BY BaselineKept
<1> QED BY <1>1, <1>2, PTL DEF Spec

(* Whatever order runs of main are admitted, compared, reviewed and        *)
(* promoted in, each baseline was reviewed against the one it replaced,    *)
(* and no baseline is of an older commit than the one before.              *)
THEOREM BaselineIsALine == Spec => []BaselineLine
<1>1. BaselineInv => BaselineLine
  BY DEF BaselineInv
<1> QED BY <1>1, BaselineInvariantHolds, PTL

(* An open run is the newest attempt of its workflow, and its review is    *)
(* one against the current baseline unless it is marked invalidated.       *)
THEOREM OpenRunsAreCurrent == Spec => []OpenRunIsCurrent
<1>1. BaselineInv => OpenRunIsCurrent
  BY DEF BaselineInv
<1> QED BY <1>1, BaselineInvariantHolds, PTL

(* An accepted snapshot is of a closed, complete and approved run that was *)
(* promoted exactly once.  The run stays accepted until the retention      *)
(* retires a snapshot that was replaced; the baseline of the project is    *)
(* never retired.                                                          *)
THEOREM AcceptedStaysFinal == Spec => []AcceptedIsFinal
<1>1. ASSUME BaselineInv PROVE AcceptedIsFinal
  <2> SUFFICES ASSUME NEW id \in Accepted
               PROVE  /\ snapshots[id].verified
                      /\ LET tested == run[id.run]
                         IN /\ ~tested.active /\ tested.sealed
                            /\ tested.attached /\ tested.comparison = "ready" /\ tested.approved
                            /\ tested.queue # "waiting"
                            /\ tested.state = IF id \in Eligible THEN "accepted" ELSE "superseded"
                      /\ id = project.snapshot => id \in Eligible
                      /\ Cardinality({i \in DOMAIN promotions : promotions[i].id.run = id.run}) = 1
    BY DEF AcceptedIsFinal
  <2>1. Final(id)
    BY <1>1 DEF BaselineInv
  <2>2. PICK i \in DOMAIN promotions : promotions[i].id = id
    BY <1>1 DEF BaselineInv, AcceptedPromoted
  <2>3. /\ ~run[id.run].active
        /\ \A j \in DOMAIN promotions : promotions[j].id.run = id.run => j = i
    BY <1>1, <2>2 DEF BaselineInv, Promoted, Closed
  <2>4. {j \in DOMAIN promotions : promotions[j].id.run = id.run} = {i}
    BY <2>2, <2>3
  <2>5. /\ run[id.run].state = IF id \in Eligible THEN "accepted" ELSE "superseded"
        /\ id = project.snapshot => id \in Eligible
    <3>1. project.snapshot # None
      BY <1>1, OneSnapshot
    <3> QED BY <1>1, <3>1 DEF BaselineInv, Standing
  <2> QED BY <2>1, <2>3, <2>4, <2>5, FS_Singleton DEF Final
<1> QED BY <1>1, BaselineInvariantHolds, PTL
-----------------------------------------------------------------------------
(* The line of the baselines, and the approvals that stand.                *)
\* What stands is approved against the end of the line, and not on it.
HistoryOK ==
  /\ Line \in Seq(Runs)
  /\ Len(Line) = Len(promotions) /\ DOMAIN Line = 1..Len(promotions)
  /\ \A i \in 1..Len(promotions) : Line[i] = promotions[i].id.run
  /\ \A r \in ApprovedRuns : r \in Runs \ History!Accepted
  /\ Approvals = {[run |-> r, against |-> History!End] : r \in ApprovedRuns}

LEMMA HistoryFacts == BaselineInv => HistoryOK
<1> SUFFICES ASSUME BaselineInv PROVE HistoryOK
  OBVIOUS
<1> DEFINE n == Len(promotions)
<1>1. /\ promotions \in Seq([id : Ids, previous : Ids \cup {None}, baseline : Nat])
      /\ n \in Nat /\ DOMAIN promotions = 1..n
  BY TypesOK, LenProperties
<1>2. \A i \in 1..n : promotions[i].id \in Ids /\ promotions[i].id.run \in Runs
  <2>1. \A i \in 1..n :
          promotions[i] \in [id : Ids, previous : Ids \cup {None}, baseline : Nat]
    BY <1>1, ElementOfSeq
  <2> QED BY <2>1 DEF Ids
<1>3. Line \in [1..n -> Runs] /\ \A i \in 1..n : Line[i] = promotions[i].id.run
  BY <1>1, <1>2 DEF Line
<1>4. Line \in Seq(Runs)
  BY <1>1, <1>3, SeqDef
<1>5. DOMAIN Line = 1..n /\ Len(Line) = n
  BY <1>1, <1>3, <1>4, LenProperties
<1>6. History!End = Against(project.snapshot)
  <2>1. project.snapshot = IF promotions = <<>> THEN None ELSE Last(promotions).id
    BY DEF BaselineInv, BaselineLine
  <2>2. CASE promotions = <<>>
    <3>1. Line = <<>>
      BY <1>4, <1>5, <2>2, EmptySeq
    <3> QED BY <2>1, <2>2, <3>1 DEF History!End, Against
  <2>3. CASE promotions # <<>>
    <3>1. n \in 1..n /\ Last(promotions) = promotions[n]
      BY <1>1, <2>3, EmptySeq DEF Last
    <3>2. Line # <<>> /\ Line[n] = promotions[n].id.run
      BY <1>3, <1>5, <3>1
    <3>3. promotions[n].id # None
      BY <1>2, <3>1, BaselineAssumption DEF Ids
    <3> QED BY <1>5, <2>1, <2>3, <3>1, <3>2, <3>3 DEF History!End, Against
  <2> QED BY <2>2, <2>3
<1>7. \A r \in ApprovedRuns : r \in Runs \ History!Accepted
  BY <1>3, <1>5 DEF ApprovedRuns, History!Accepted, BaselineInv, Promoted, Closed
<1>8. \A r \in ApprovedRuns : Against(run[r].reference) = History!End
  BY <1>6 DEF ApprovedRuns, BaselineInv, OpenRunIsCurrent, OpenReviewIsCurrent
<1>9. Approvals = {[run |-> r, against |-> History!End] : r \in ApprovedRuns}
  BY <1>8 DEF Approvals
<1> QED BY <1>3, <1>4, <1>5, <1>7, <1>9 DEF HistoryOK

\* One more run is approved, or some are not any more.
Reviewed ==
  \/ ApprovedRuns' \subseteq ApprovedRuns
  \/ \E r \in Runs : ApprovedRuns' = ApprovedRuns \cup {r}

LEMMA ReviewIsStep ==
  ASSUME HistoryOK, HistoryOK', UNCHANGED promotions, Reviewed
  PROVE  [History!Next]_(History!history)
<1>1. Line' = Line
  BY DEF Line
<1>2. History!End' = History!End /\ History!Accepted' = History!Accepted
  BY <1>1 DEF History!End, History!Accepted
<1> DEFINE stands(r) == [run |-> r, against |-> History!End]
<1>3. /\ Approvals = {stands(r) : r \in ApprovedRuns}
      /\ Approvals' = {stands(r) : r \in ApprovedRuns'}
  BY <1>2 DEF HistoryOK
<1>4. CASE ApprovedRuns' \subseteq ApprovedRuns
  <2>1. Approvals' \subseteq Approvals
    BY <1>3, <1>4
  <2> QED BY <1>1, <2>1 DEF History!Next, History!Withdraw
<1>5. ASSUME NEW r \in Runs, ApprovedRuns' = ApprovedRuns \cup {r}
      PROVE  [History!Next]_(History!history)
  <2>1. Approvals' = Approvals \cup {stands(r)}
    BY <1>3, <1>5
  <2>2. r \in Runs \ History!Accepted
    BY <1>2, <1>5 DEF HistoryOK
  <2> QED BY <1>1, <2>1, <2>2 DEF History!Next, History!Approve
<1> QED BY <1>4, <1>5 DEF Reviewed

\* A step that writes at most one run.
WritesOne(r) == \A q \in Runs : q # r => run'[q] = run[q]

LEMMA OneIsReviewed ==
  ASSUME NEW r \in Runs, WritesOne(r)
  PROVE  Reviewed
<1>1. \A q \in Runs : q # r => (q \in ApprovedRuns' <=> q \in ApprovedRuns)
  BY DEF ApprovedRuns, WritesOne
<1>2. ApprovedRuns \subseteq Runs /\ ApprovedRuns' \subseteq Runs
  BY DEF ApprovedRuns
<1>3. CASE r \in ApprovedRuns'
  <2>1. ApprovedRuns' = ApprovedRuns \cup {r}
    BY <1>1, <1>2, <1>3
  <2> QED BY <2>1 DEF Reviewed
<1>4. CASE r \notin ApprovedRuns'
  BY <1>1, <1>2, <1>4 DEF Reviewed
<1> QED BY <1>3, <1>4

LEMMA RunStepWritesOne ==
  ASSUME BaselineInv, NEW r \in Runs,
         \/ SelectReference(r) \/ SealRun(r) \/ FailRun(r) \/ ExpireRun(r)
         \/ BeginComparison(r) \/ AttachComparison(r) \/ StopComparison(r)
         \/ FinalizeComparison(r)
         \/ AdmitDecision(r) \/ SaveDecision(r) \/ RefuseDecision(r) \/ RetireReplaced(r)
  PROVE  WritesOne(r) /\ UNCHANGED promotions
<1>1. run \in [Runs -> RunRows]
  BY TypesOK
<1>2. CASE SelectReference(r) \/ SealRun(r) \/ FailRun(r) \/ ExpireRun(r)
  BY <1>1, <1>2 DEF SelectReference, SealRun, FailRun, ExpireRun, WritesOne
<1>3. CASE BeginComparison(r) \/ AttachComparison(r) \/ StopComparison(r)
  BY <1>1, <1>3 DEF BeginComparison, AttachComparison, StopComparison, WritesOne
<1>4. CASE FinalizeComparison(r) \/ AdmitDecision(r) \/ SaveDecision(r)
  BY <1>1, <1>4 DEF FinalizeComparison, AdmitDecision, SaveDecision, WritesOne
<1>5. CASE RefuseDecision(r) \/ RetireReplaced(r)
  BY <1>1, <1>5 DEF RefuseDecision, RetireReplaced, WritesOne
<1> QED BY <1>2, <1>3, <1>4, <1>5

\* A reservation closes runs, and starts one that was not compared.
LEMMA ReserveIsReviewed ==
  ASSUME BaselineInv, NEW r \in Runs, ReserveRun(r)
  PROVE  Reviewed /\ UNCHANGED promotions
<1>1. run \in [Runs -> RunRows] /\ run[r] \in RunRows /\ ~run[r].attached
  BY TypesOK DEF ReserveRun, BaselineInv, RowsOK, RowOK, Before
<1>2. ASSUME NEW q \in ApprovedRuns' PROVE q \in ApprovedRuns
  <2>1. q \in Runs /\ run'[q].active /\ run'[q].attached
    BY DEF ApprovedRuns
  <2>2. CASE q = r
    <3>1. run'[r].attached = run[r].attached
      BY <1>1 DEF ReserveRun, RunRows
    <3> QED BY <1>1, <2>1, <2>2, <3>1
  <2>3. CASE q # r /\ q \in Superseded(r)
    <3>1. run'[q] = [Touch(run[q]) EXCEPT !.active = FALSE, !.state = "superseded"]
      BY <2>1, <2>3 DEF ReserveRun
    <3>2. ~run'[q].active
      BY <1>1, <2>1, <3>1 DEF Touch, RunRows
    <3> QED BY <2>1, <3>2
  <2>4. CASE q # r /\ q \notin Superseded(r)
    <3>1. run'[q] = run[q]
      BY <2>1, <2>4 DEF ReserveRun
    <3> QED BY <2>1, <3>1 DEF ApprovedRuns
  <2> QED BY <2>2, <2>3, <2>4
<1> QED BY <1>2 DEF Reviewed, ReserveRun

\* A promotion accepts an approved run, and every other approval is void.
LEMMA PromoteIsStep ==
  ASSUME BaselineInv, BaselineInv', HistoryOK, HistoryOK', NEW p \in Passes, Promote(p),
         Promotable(p)
  PROVE  History!Accept
<1> DEFINE n == Len(promotions)
<1>1. pass[p].at # "idle"
  BY DEF Promote
<1>2. PICK mine \in Runs : mine = Id(p).run
  BY <1>1, AtWork
<1>3. /\ ~run'[mine].active /\ \A r \in Runs : r # mine => OtherMoves(r)
      /\ run[mine].active /\ mine \in ApprovedRuns
  BY <1>2, PromotionMoves DEF Promotable, ReadyFor, ActiveGuard, RunOf, ApprovedRuns
<1>4. mine \in Runs \ History!Accepted /\ [run |-> mine, against |-> History!End] \in Approvals
  BY <1>3 DEF HistoryOK
<1>5. ApprovedRuns' = {}
  <2>1. ASSUME NEW r \in ApprovedRuns' PROVE FALSE
    <3>1. r \in Runs /\ run'[r].active /\ run'[r].comparison = "ready"
      BY DEF ApprovedRuns
    <3>2. r # mine
      BY <1>3, <3>1
    <3> QED BY <1>3, <3>1, <3>2 DEF OtherMoves
  <2> QED BY <2>1
<1>6. Approvals' = {}
  BY <1>5 DEF HistoryOK
<1>7. PICK new : new.id = Id(p) /\ promotions' = Append(promotions, new)
  BY DEF Promote
<1>8. /\ promotions \in Seq([id : Ids, previous : Ids \cup {None}, baseline : Nat])
      /\ n \in Nat /\ DOMAIN promotions = 1..n
      /\ promotions' \in Seq([id : Ids, previous : Ids \cup {None}, baseline : Nat])
      /\ DOMAIN promotions' = 1..Len(promotions')
  BY TypesOK, LenProperties DEF BaselineInv, OpenRunIsCurrent, TypeOK
<1>9. /\ Len(promotions') = n + 1 /\ promotions'[n + 1].id.run = mine
      /\ \A i \in 1..n : promotions'[i] = promotions[i]
  BY <1>2, <1>7, <1>8
<1>10. Line' = Append(Line, mine)
  <2>1. Line' \in Seq(Runs) /\ Len(Line') = n + 1 /\ Line \in Seq(Runs) /\ Len(Line) = n
    BY <1>9 DEF HistoryOK
  <2>2. /\ Append(Line, mine) \in Seq(Runs) /\ Len(Append(Line, mine)) = n + 1
        /\ \A i \in 1..n : Append(Line, mine)[i] = Line[i]
        /\ Append(Line, mine)[n + 1] = mine
    BY <1>8, <2>1, AppendProperties
  <2>3. ASSUME NEW i \in 1..(n + 1) PROVE Line'[i] = Append(Line, mine)[i]
    <3>1. Line'[i] = promotions'[i].id.run
      BY <1>9 DEF HistoryOK
    <3>2. CASE i = n + 1
      BY <1>9, <2>2, <3>1, <3>2
    <3>3. CASE i # n + 1
      <4>1. i \in 1..n
        BY <1>8, <3>3
      <4> QED BY <1>9, <2>2, <3>1, <4>1 DEF HistoryOK
    <3> QED BY <3>2, <3>3
  <2> QED BY <2>1, <2>2, <2>3, SeqEqual
<1>11. ASSUME NEW q \in History!Accepted PROVE q.commit <= mine.commit
  <2>1. PICK i \in 1..n : q = promotions[i].id.run
    BY <1>8 DEF History!Accepted, HistoryOK
  <2>2. i \in 1..n + 1 /\ n + 1 \in 1..n + 1 /\ i < n + 1
    BY <1>8
  <2>3. promotions'[i].id.run.commit <= promotions'[n + 1].id.run.commit
    BY <1>8, <1>9, <2>2 DEF BaselineInv, BaselineLine, BaselineMovesForward
  <2> QED BY <1>9, <2>1, <2>3
<1> QED BY <1>4, <1>6, <1>10, <1>11 DEF History!Accept

LEMMA HistoryStep ==
  ASSUME BaselineInv, BaselineInv', HistoryOK, HistoryOK', [Next]_vars
  PROVE  [History!Next]_(History!history)
<1>1. ASSUME UNCHANGED <<run, promotions>> PROVE [History!Next]_(History!history)
  <2>1. Reviewed
    BY <1>1 DEF Reviewed, ApprovedRuns
  <2> QED BY <1>1, <2>1, ReviewIsStep
<1>2. ASSUME NEW r \in Runs, ReserveRun(r) PROVE [History!Next]_(History!history)
  BY <1>2, ReserveIsReviewed, ReviewIsStep
<1>3. ASSUME NEW r \in Runs,
             \/ SelectReference(r) \/ SealRun(r) \/ FailRun(r) \/ ExpireRun(r)
             \/ BeginComparison(r) \/ AttachComparison(r) \/ StopComparison(r)
             \/ FinalizeComparison(r)
             \/ AdmitDecision(r) \/ SaveDecision(r) \/ RefuseDecision(r) \/ RetireReplaced(r)
      PROVE  [History!Next]_(History!history)
  BY <1>3, RunStepWritesOne, OneIsReviewed, ReviewIsStep
<1>4. ASSUME NEW p \in Passes, Promote(p) PROVE [History!Next]_(History!history)
  <2>1. CASE Promotable(p)
    BY <1>4, <2>1, PromoteIsStep DEF History!Next
  <2>2. CASE ~Promotable(p)
    BY <1>1, <1>4, <2>2 DEF Promote
  <2> QED BY <2>1, <2>2
<1>5. ASSUME NEW p \in Passes, CancelPrepared(p) PROVE [History!Next]_(History!history)
  <2>1. CASE Cancellable(p)
    <3>1. PICK r \in Runs : r = Id(p).run
      BY <1>5, AtWork DEF CancelPrepared
    <3>2. WritesOne(r) /\ UNCHANGED promotions
      BY <1>5, <2>1, <3>1, TypesOK DEF CancelPrepared, WritesOne
    <3> QED BY <3>2, OneIsReviewed, ReviewIsStep
  <2>2. CASE ~Cancellable(p)
    BY <1>1, <1>5, <2>2 DEF CancelPrepared
  <2> QED BY <2>1, <2>2
<1>6. ASSUME NEW p \in Passes,
             \/ ClaimLease(p) \/ ReadForPrepare(p) \/ PreparePromotion(p) \/ VerifyOriginals(p)
             \/ VerifyLater(p) \/ ReadForPromote(p) \/ ReadForCancel(p) \/ ReleaseLease(p)
             \/ PassStops(p)
      PROVE  [History!Next]_(History!history)
  BY <1>1, <1>6 DEF ClaimLease, ReadForPrepare, PreparePromotion, VerifyOriginals, VerifyLater,
     ReadForPromote, ReadForCancel, ReleaseLease, PassStops
<1>7. ASSUME NEW p \in Passes,
             \/ \E r \in Runs : PickCandidate(p, r)
             \/ \E id \in Copying : PickInterrupted(p, id)
      PROVE  [History!Next]_(History!history)
  BY <1>1, <1>7 DEF PickCandidate, PickInterrupted
<1>8. CASE (\E lease \in leases : LeaseEnds(lease)) \/ UNCHANGED vars
  BY <1>1, <1>8 DEF LeaseEnds, vars
<1>9. ASSUME NEW id \in Eligible, RetireSnapshot(id) PROVE [History!Next]_(History!history)
  <2>1. id \in Accepted
    BY DEF BaselineInv, Standing
  <2>2. PICK mine \in Runs : mine = id.run
    BY <2>1, OneSnapshot
  <2>3. WritesOne(mine) /\ UNCHANGED promotions
    BY <1>9, <2>2, RetirementMoves DEF WritesOne, RetireSnapshot
  <2> QED BY <2>3, OneIsReviewed, ReviewIsStep
<1> QED BY <1>2, <1>3, <1>4, <1>5, <1>6, <1>7, <1>8, <1>9 DEF Next, Step

(* The project implements BaselineHistory: for every set of runs and every *)
(* number of passes, what is accepted was approved against the baseline it *)
(* replaces at the moment of its promotion, however long before a pass     *)
(* read it, and no approval of a replaced baseline stays.                  *)
THEOREM BaselineImplementsHistory == Spec => ImplementsHistory
<1>1. Init => History!Init
  <2> SUFFICES ASSUME Init PROVE History!Init
    OBVIOUS
  <2>1. promotions = <<>> /\ DOMAIN promotions = {}
    BY DEF Init
  <2>2. Line = <<>>
    BY <2>1 DEF Line
  <2>3. ApprovedRuns = {}
    BY DEF Init, NewRun, ApprovedRuns
  <2>4. Approvals = {}
    BY <2>3 DEF Approvals
  <2> QED BY <2>2, <2>4 DEF History!Init
<1>2. BaselineInv /\ BaselineInv' /\ HistoryOK /\ HistoryOK' /\ [Next]_vars
        => [History!Next]_(History!history)
  BY HistoryStep
<1> QED
  BY <1>1, <1>2, HistoryFacts, BaselineInvariantHolds, PTL
  DEF Spec, ImplementsHistory, History!Spec
=============================================================================
