----------------------------- MODULE CheckProofs -----------------------------
(***************************************************************************)
(* The checks of a commit, for every number of attempts, requests and      *)
(* deliveries that run at a time, and stops.  A request reads a row, calls *)
(* GitHub and writes again, while others move the row on, so what carries  *)
(* the proof is what no other request can take back: a row never gets      *)
(* pending again, a row that left "active" has no new sender, an attempt   *)
(* keeps the row that it bound, and a Plan without visual work stays one.  *)
(* The end of the module shows that the rows keep the promise of           *)
(* CommitChecks: each step is told by what it does to the rows, and each   *)
(* such change is a step of the promise.                                   *)
(***************************************************************************)
EXTENDS WorkflowAttempts, FiniteSetTheorems, WellFoundedInduction, TLAPS

-----------------------------------------------------------------------------
(* The checks of the attempts of a workflow.                               *)

CheckRows == [state : CheckRowStates, attempt : 0..LastAttempt, plan : Plans]
Works == [ended : BOOLEAN, plan : Plans, source : Attempts, submitted : BOOLEAN]
Requests == [at : HandlerPlaces, kind : Kinds, attempt : Attempts, gen : Generations,
             read : CheckRows]

Written(g) == rows[g].state \in {"active", "failed", "docs_complete"}
Quiet(g) == rows[g].state \in {"failed", "docs_complete"}

RowTypes ==
  /\ rows \in [Generations -> CheckRows] /\ checkOf \in [Generations -> Shown]
  /\ sending \subseteq Generations /\ admitted \subseteq Attempts
PlanTypes == newest \in Attempts /\ work \in [Attempts -> Works]
OtherTypes == moved \in BOOLEAN /\ receipts \subseteq Attempts /\ halts \in 0..MaxHalts

\* Generations come one after the other, and only the last one can wait
\* for its check or have a sender.
RowsInLine ==
  /\ Exists(0)
  /\ \A g \in Generations :
       /\ Exists(g) => \A before \in Generations : before < g => Exists(before)
       /\ rows[g].state \in Unready \/ g \in sending =>
            \A later \in Generations : later > g => ~Exists(later)
       /\ ~Exists(g) => rows[g] = NoCheckRow /\ checkOf[g] = "none"

SendersHaveRuns == \A g \in sending : rows[g].attempt \in admitted

NonePlanned ==
  \A g \in Generations : rows[g].plan = "none" =>
    rows[g].attempt \in Attempts /\ work[rows[g].attempt].plan = "none"

\* A Plan that a rerun carried is the Plan of the attempt that ran it.
PlansCarried ==
  /\ \A a \in Attempts : work[a].source <= a /\ (work[a].source # a => work[a].plan # "unknown")
  /\ \A a \in Attempts : newest < a => work[a].plan = "unknown" /\ work[a].source = a
  /\ \A a, b \in Attempts : work[a].source = work[b].source => work[a].plan = work[b].plan

\* What a request of attempt a knows at each place, with row g and what it
\* read of it.
PlaceOK(place, kind, a, g, read) ==
  /\ place = "ensure" => Exists(g)
  /\ place \in {"patchFailed", "readRetired", "patchRetired"} => Written(g)
  /\ place = "bind" => \/ read.state = "absent" /\ BoundTo(a) # {}
                       \/ read.state \in Unready
                       \/ Written(g)
  /\ place \in {"unbound", "previous", "fence"} => Written(g)
  /\ place \in {"readSending", "close", "patchClosed", "insert"} => Quiet(g)
  /\ place \in {"close", "patchClosed", "insert"} => g \notin sending
  /\ place = "insert" => checkOf[g] # "open"
  /\ place \in {"inherit", "report"} => rows[g].attempt = a
  /\ place = "patchPassed" => rows[g].plan = "none"
  /\ place = "report" => kind = "report"
  /\ place # "idle" /\ kind = "report" => work[a].plan = "none"
  /\ place = "record" => kind = "submit"
  /\ place # "idle" /\ kind = "submit" => work[a].plan = "visual"
RequestOK(me) == PlaceOK(me.at, me.kind, me.attempt, me.gen, me.read)

RequestTypes == handler \in [Handlers -> Requests]
RequestsOK == \A h \in Handlers : RequestOK(handler[h])

\* The checks and rows of the commit, and the inductive invariant.
ChecksOK ==
  RowTypes /\ RowsInLine /\ SendersHaveRuns /\ NonePlanned /\ OneOpenCheck /\ PassedByPlan
AttemptInv ==
  /\ ChecksOK /\ PlanTypes /\ PlansCarried /\ OtherTypes
  /\ RequestTypes /\ RequestsOK

\* What no step takes back from a row.
RowKept(g) ==
  /\ Exists(g) => rows'[g].state # "absent"
  /\ Written(g) => rows'[g].state \in {"active", "failed", "docs_complete"}
  /\ Quiet(g) => rows'[g].state \in {"failed", "docs_complete"}
  /\ rows[g].attempt # 0 => rows'[g].attempt = rows[g].attempt
  /\ rows[g].plan = "none" => rows'[g].plan = "none"
  /\ Quiet(g) /\ g \notin sending =>
       g \notin sending' /\ (checkOf[g] # "open" => checkOf'[g] # "open")
Kept ==
  /\ \A g \in Generations : RowKept(g)
  /\ \A a \in Attempts : work[a].plan # "unknown" => work'[a].plan = work[a].plan

-----------------------------------------------------------------------------
(* Numbers and records.                                                    *)
LEMMA LeastIsIn ==
  ASSUME NEW S \in SUBSET Nat, S # {}
  PROVE  \E x \in S : \A y \in S : x <= y
  <1>1. PICK x \in S : \A y \in S : <<y, x>> \notin OpToRel(<, Nat)
    BY NatLessThanWellFounded, WFMin
  <1>2. \A y \in S : ~(y < x)
    BY <1>1 DEF OpToRel
  <1> QED BY <1>2

(* The latest generation is there: the commit has a first one.             *)
LEMMA LatestIsThere ==
  ASSUME Exists(0)
  PROVE  /\ Latest \in Generations /\ Exists(Latest)
         /\ \A later \in Generations : later > Latest => ~Exists(later)
  <1> DEFINE S == {g \in Generations : Exists(g)}
             T == {LastAttempt - g : g \in S}
  <1>1. \A g \in Generations : g \in Nat /\ LastAttempt - g \in Nat
    BY AttemptsAssumption DEF Generations
  <1>2. 0 \in S
    BY AttemptsAssumption DEF Generations
  <1>3. T \in SUBSET Nat /\ T # {}
    BY <1>1, <1>2
  <1>4. PICK m \in T : \A n \in T : m <= n
    BY <1>3, LeastIsIn
  <1>5. PICK g \in S : m = LastAttempt - g
    OBVIOUS
  <1>6. \A later \in Generations : later > g => ~Exists(later)
    <2> SUFFICES ASSUME NEW later \in Generations, later > g, Exists(later) PROVE FALSE
      OBVIOUS
    <2>1. LastAttempt - later \in T
      OBVIOUS
    <2>2. LastAttempt - g <= LastAttempt - later
      BY <1>4, <1>5, <2>1
    <2> HIDE DEF T
    <2> QED BY <1>1, <2>2, AttemptsAssumption
  <1>7. \E r \in Generations :
          Exists(r) /\ \A later \in Generations : later > r => ~Exists(later)
    BY <1>6
  <1> HIDE DEF S, T
  <1> QED BY <1>7 DEF Latest

LEMMA CheckRowWritten ==
  ASSUME NEW r \in CheckRows
  PROVE  /\ \A x \in CheckRowStates : LET u == [r EXCEPT !.state = x] IN
              u \in CheckRows /\ u.state = x /\ u.attempt = r.attempt /\ u.plan = r.plan
         /\ \A x \in 0..LastAttempt : LET u == [r EXCEPT !.attempt = x] IN
              u \in CheckRows /\ u.state = r.state /\ u.attempt = x /\ u.plan = r.plan
         /\ \A x \in Plans : LET u == [r EXCEPT !.plan = x] IN
              u \in CheckRows /\ u.state = r.state /\ u.attempt = r.attempt /\ u.plan = x
  BY DEF CheckRows

LEMMA Zeros ==
  /\ 0 \in Generations /\ 1 \in Attempts /\ 0 \notin Attempts
  /\ Attempts \subseteq 0..LastAttempt /\ Generations \subseteq Nat /\ Attempts \subseteq Nat
  /\ NoCheckRow \in CheckRows /\ NoCheckRow.state = "absent" /\ NoCheckRow.attempt = 0
  /\ NoCheckRow.plan = "unknown"
  BY AttemptsAssumption DEF Generations, Attempts, NoCheckRow, CheckRows, CheckRowStates, Plans

LEMMA IdleRequest ==
  /\ HandlerIdle \in Requests /\ HandlerIdle.at = "idle" /\ HandlerIdle.read = NoCheckRow
  BY Zeros DEF HandlerIdle, Requests, HandlerPlaces, Kinds

(* The attempt that a row was bound to has it.                             *)
LEMMA BoundRows ==
  ASSUME AttemptInv, NEW a \in Attempts, NEW g
  PROVE  g \in BoundTo(a) <=> g \in Generations /\ rows[g].attempt = a
  <1>1. g \in Generations /\ rows[g].attempt = a => Exists(g)
    BY Zeros DEF AttemptInv, ChecksOK, RowsInLine
  <1> QED BY <1>1 DEF BoundTo

-----------------------------------------------------------------------------
(* A request that does not move keeps what it knows.                       *)
LEMMA RequestStays ==
  ASSUME AttemptInv, Kept, NEW h \in Handlers, handler'[h] = handler[h]
  PROVE  RequestOK(handler[h])'
  <1> DEFINE me == handler[h]
  <1>0. /\ me \in Requests /\ RequestOK(me)
        /\ me.gen \in Generations /\ me.attempt \in Attempts /\ RowKept(me.gen)
    BY DEF AttemptInv, RequestTypes, RequestsOK, Requests, Kept
  <1>1. BoundTo(me.attempt) # {} => BoundTo(me.attempt)' # {}
    <2> SUFFICES ASSUME NEW g \in BoundTo(me.attempt) PROVE g \in BoundTo(handler[h].attempt)'
      OBVIOUS
    <2>1. g \in Generations /\ Exists(g) /\ rows[g].attempt = me.attempt /\ RowKept(g)
      BY DEF BoundTo, Kept
    <2>2. rows[g].attempt # 0
      BY <1>0, <2>1, Zeros
    <2> QED BY <2>1, <2>2 DEF BoundTo, Exists, RowKept
  <1>2. rows[me.gen].attempt = me.attempt => rows'[me.gen].attempt = me.attempt
    BY <1>0, Zeros DEF RowKept
  <1>3. work[me.attempt].plan # "unknown" => work'[me.attempt].plan = work[me.attempt].plan
    BY <1>0 DEF Kept
  <1> QED BY <1>0, <1>1, <1>2, <1>3 DEF RequestOK, PlaceOK, RowKept, Written, Quiet, Exists

(* One request moves, and the others stay.                                 *)
LEMMA RequestStep ==
  ASSUME AttemptInv, Kept, NEW h \in Handlers, NEW me \in Requests,
         handler' = [handler EXCEPT ![h] = me], RequestOK(me)',
         ChecksOK', PlanTypes', PlansCarried', OtherTypes'
  PROVE  AttemptInv'
  <1>1. RequestTypes'
    BY DEF AttemptInv, RequestTypes
  <1>2. RequestsOK'
    <2> SUFFICES ASSUME NEW q \in Handlers PROVE RequestOK(handler[q])'
      BY DEF RequestsOK
    <2>1. handler'[q] = IF q = h THEN me ELSE handler[q]
      BY DEF AttemptInv, RequestTypes
    <2>2. q = h => RequestOK(handler[q])'
      BY <2>1 DEF RequestOK
    <2> QED BY <2>1, <2>2, RequestStays
  <1> QED BY <1>1, <1>2 DEF AttemptInv

Placed(me, place, g, read) ==
  [at |-> place, kind |-> me.kind, attempt |-> me.attempt, gen |-> g, read |-> read]

Sets(h, me) == handler' = [handler EXCEPT ![h] = me]
Rereads(h, x, r) == handler' = [handler EXCEPT ![h].at = x, ![h].read = r]
Turns(h, x, g) == handler' = [handler EXCEPT ![h].at = x, ![h].gen = g]
TurnsTo(h, x, g, r) == handler' = [handler EXCEPT ![h].at = x, ![h].gen = g, ![h].read = r]

LEMMA Moves ==
  ASSUME RequestTypes, NEW h \in Handlers, NEW me \in Requests, me = handler[h],
         NEW x \in HandlerPlaces, NEW g \in Generations, NEW r \in CheckRows
  PROVE  /\ To(h, x) => Sets(h, Placed(me, x, me.gen, me.read))
         /\ Forget(h, x) => Sets(h, Placed(me, x, me.gen, NoCheckRow))
         /\ Rereads(h, x, r) => Sets(h, Placed(me, x, me.gen, r))
         /\ Turns(h, x, g) => Sets(h, Placed(me, x, g, me.read))
         /\ TurnsTo(h, x, g, r) => Sets(h, Placed(me, x, g, r))
  <1> DEFINE u == [me EXCEPT !.at = x]
             v == [u EXCEPT !.gen = g]
  <1>1. u = Placed(me, x, me.gen, me.read) /\ u \in Requests
    BY DEF Requests, Placed
  <1>z. /\ [me EXCEPT !.at = x, !.read = NoCheckRow] = [u EXCEPT !.read = NoCheckRow]
        /\ [me EXCEPT !.at = x, !.read = r] = [u EXCEPT !.read = r]
        /\ [me EXCEPT !.at = x, !.gen = g] = v
        /\ [me EXCEPT !.at = x, !.gen = g, !.read = r] = [v EXCEPT !.read = r]
    BY Zenon
  <1> HIDE DEF u
  <1>u. u.kind = me.kind /\ u.attempt = me.attempt /\ u.gen = me.gen /\ u.read = me.read /\ u.at = x
    BY <1>1 DEF Placed
  <1>v. v = Placed(me, x, g, me.read) /\ v \in Requests
    BY <1>1, <1>u DEF Requests, Placed
  <1> HIDE DEF v
  <1>2. [me EXCEPT !.at = x, !.read = NoCheckRow] = Placed(me, x, me.gen, NoCheckRow)
    <2>1. [u EXCEPT !.read = NoCheckRow] = Placed(me, x, me.gen, NoCheckRow)
      BY <1>1, <1>u DEF Requests, Placed
    <2> QED BY <1>z, <2>1
  <1>3. [me EXCEPT !.at = x, !.read = r] = Placed(me, x, me.gen, r)
    <2>1. [u EXCEPT !.read = r] = Placed(me, x, me.gen, r)
      BY <1>1, <1>u DEF Requests, Placed
    <2> QED BY <1>z, <2>1
  <1>4. [me EXCEPT !.at = x, !.gen = g] = Placed(me, x, g, me.read)
    BY <1>z, <1>v
  <1>5. [me EXCEPT !.at = x, !.gen = g, !.read = r] = Placed(me, x, g, r)
    <2>0. v.kind = me.kind /\ v.attempt = me.attempt /\ v.gen = g /\ v.at = x
      BY <1>v DEF Placed
    <2>1. [v EXCEPT !.read = r] = Placed(me, x, g, r)
      BY <1>v, <2>0 DEF Requests, Placed
    <2> QED BY <1>z, <2>1
  <1>6. h \in DOMAIN handler
    BY DEF RequestTypes
  <1>7. To(h, x) => handler' = [handler EXCEPT ![h] = Placed(me, x, me.gen, me.read)]
    BY <1>1 DEF To, u
  <1>8. Forget(h, x) => handler' = [handler EXCEPT ![h] = Placed(me, x, me.gen, NoCheckRow)]
    BY <1>2, <1>6 DEF Forget, RequestTypes
  <1>9. handler' = [handler EXCEPT ![h].at = x, ![h].read = r] =>
          handler' = [handler EXCEPT ![h] = Placed(me, x, me.gen, r)]
    BY <1>3, <1>6 DEF RequestTypes
  <1>10. handler' = [handler EXCEPT ![h].at = x, ![h].gen = g] =>
           handler' = [handler EXCEPT ![h] = Placed(me, x, g, me.read)]
    BY <1>4, <1>6 DEF RequestTypes
  <1>11. handler' = [handler EXCEPT ![h].at = x, ![h].gen = g, ![h].read = r] =>
           handler' = [handler EXCEPT ![h] = Placed(me, x, g, r)]
    BY <1>5, <1>6 DEF RequestTypes
  <1> QED BY <1>7, <1>8, <1>9, <1>10, <1>11 DEF Sets, Rereads, Turns, TurnsTo

(* A request comes to a place, knowing what that place needs.              *)
LEMMA PlaceStep ==
  ASSUME AttemptInv, Kept, NEW h \in Handlers, NEW me \in Requests,
         NEW x \in HandlerPlaces, NEW g \in Generations, NEW r \in CheckRows,
         Sets(h, Placed(me, x, g, r)),
         PlaceOK(x, me.kind, me.attempt, g, r)',
         ChecksOK', PlanTypes', PlansCarried', OtherTypes'
  PROVE  AttemptInv'
  <1> DEFINE u == Placed(me, x, g, r)
  <1>1. u \in Requests /\ u.at = x /\ u.kind = me.kind /\ u.attempt = me.attempt /\ u.gen = g
        /\ u.read = r
    BY DEF Requests, Placed
  <1> HIDE DEF u
  <1>2. RequestOK(u)'
    BY <1>1 DEF RequestOK
  <1>3. handler' = [handler EXCEPT ![h] = u]
    BY DEF u, Sets
  <1> QED BY <1>1, <1>2, <1>3, RequestStep

LEMMA OverStep ==
  ASSUME AttemptInv, Kept, NEW h \in Handlers, Over(h),
         ChecksOK', PlanTypes', PlansCarried', OtherTypes'
  PROVE  AttemptInv'
  <1>1. RequestOK(HandlerIdle)'
    BY IdleRequest DEF RequestOK, PlaceOK
  <1> QED BY <1>1, IdleRequest, RequestStep DEF Over

LEMMA NobodyMoves ==
  ASSUME AttemptInv, Kept, UNCHANGED handler, ChecksOK', PlanTypes', PlansCarried', OtherTypes'
  PROVE  AttemptInv'
  <1>1. RequestsOK'
    <2> SUFFICES ASSUME NEW q \in Handlers PROVE RequestOK(handler[q])'
      BY DEF RequestsOK
    <2> QED BY RequestStays
  <1> QED BY <1>1 DEF AttemptInv, RequestTypes

-----------------------------------------------------------------------------
(* What the writes of the database and of GitHub keep.                     *)
LEMMA PlansStay ==
  ASSUME AttemptInv, UNCHANGED <<newest, work>>
  PROVE  /\ PlanTypes' /\ PlansCarried'
         /\ \A a \in Attempts : work[a].plan # "unknown" => work'[a].plan = work[a].plan
  BY DEF AttemptInv, PlanTypes, PlansCarried

LEMMA ChecksStay ==
  ASSUME AttemptInv, UNCHANGED <<rows, checkOf, sending>>,
         admitted \subseteq admitted', admitted' \subseteq Attempts,
         \A a \in Attempts : work[a].plan # "unknown" => work'[a].plan = work[a].plan
  PROVE  ChecksOK' /\ Kept
  <1> USE DEF AttemptInv, ChecksOK
  <1>1. RowTypes' /\ RowsInLine' /\ OneOpenCheck'
    BY DEF RowTypes, RowsInLine, Exists, OneOpenCheck
  <1>2. SendersHaveRuns' /\ NonePlanned' /\ PassedByPlan'
    BY DEF SendersHaveRuns, NonePlanned, PassedByPlan
  <1>3. Kept
    BY DEF Kept, RowKept, Written, Quiet, Exists
  <1> QED BY <1>1, <1>2, <1>3

(* A row that is there gets later values.                                  *)
LEMMA RowChanges ==
  ASSUME AttemptInv, NEW g \in Generations, NEW r \in CheckRows,
         rows' = [rows EXCEPT ![g] = r], UNCHANGED <<checkOf, sending, admitted>>,
         Written(g), r.state \in {"active", "failed", "docs_complete"},
         Quiet(g) => r.state \in {"failed", "docs_complete"},
         rows[g].attempt # 0 => r.attempt = rows[g].attempt,
         rows[g].plan = "none" => r.plan = "none",
         r.plan = "none" => r.attempt \in Attempts /\ work[r.attempt].plan = "none",
         \A a \in Attempts : work[a].plan # "unknown" => work'[a].plan = work[a].plan
  PROVE  ChecksOK' /\ Kept
  <1> USE DEF AttemptInv, ChecksOK
  <1>1. \A e \in Generations : rows'[e] = IF e = g THEN r ELSE rows[e]
    BY DEF RowTypes
  <1>2. RowTypes'
    BY DEF RowTypes
  <1>3. \A e \in Generations : Exists(e)' <=> Exists(e)
    BY <1>1 DEF Exists, Written
  <1>4. RowsInLine'
    <2>1. Exists(0)'
      BY <1>3, Zeros DEF RowsInLine
    <2>2. \A e \in Generations : ~Exists(e) => rows'[e] = rows[e]
      BY <1>1 DEF Exists, Written
    <2>3. \A e \in Generations : rows'[e].state \in Unready => rows[e].state \in Unready
      BY <1>1 DEF Unready
    <2> QED BY <1>3, <2>1, <2>2, <2>3 DEF RowsInLine
  <1>5. SendersHaveRuns'
    <2> SUFFICES ASSUME NEW e \in sending PROVE rows'[e].attempt \in admitted
      BY DEF SendersHaveRuns
    <2>1. rows[e].attempt \in admitted /\ rows[e].attempt # 0 /\ e \in Generations
      BY Zeros DEF SendersHaveRuns, RowTypes
    <2> QED BY <1>1, <2>1
  <1>6. NonePlanned'
    BY <1>1 DEF NonePlanned
  <1>7. OneOpenCheck'
    BY <1>3 DEF OneOpenCheck
  <1>8. PassedByPlan'
    <2> SUFFICES ASSUME NEW e \in Generations, checkOf[e] = "success", rows'[e].attempt \notin admitted
                 PROVE  rows'[e].attempt \in Attempts /\ work'[rows'[e].attempt].plan = "none"
      BY DEF PassedByPlan
    <2>1. rows[e].attempt \in admitted => rows[e].attempt # 0
      BY Zeros DEF RowTypes
    <2>2. rows[e].attempt \notin admitted => rows[e].attempt # 0
      BY Zeros DEF PassedByPlan
    <2>3. rows'[e].attempt = rows[e].attempt
      BY <1>1, <2>1, <2>2
    <2> QED BY <2>3 DEF PassedByPlan
  <1>9. Kept
    BY <1>1 DEF Kept, RowKept, Written, Quiet, Exists
  <1> QED BY <1>2, <1>4, <1>5, <1>6, <1>7, <1>8, <1>9

(* A PATCH, of the outbox or of a request.                                 *)
LEMMA CheckChanges ==
  ASSUME AttemptInv, NEW g \in Generations, NEW shown \in Results, Patch(g, shown),
         UNCHANGED <<rows, work, admitted>>, sending' \subseteq sending, Exists(g),
         shown = "open" => /\ \A later \in Generations : later > g => ~Exists(later)
                           /\ ~Quiet(g) \/ g \in sending,
         shown = "success" => rows[g].attempt \in admitted \/ rows[g].plan = "none"
  PROVE  ChecksOK' /\ Kept
  <1> USE DEF AttemptInv, ChecksOK
  <1>1. \A e \in Generations : checkOf'[e] = IF e = g THEN shown ELSE checkOf[e]
    BY DEF RowTypes, Patch
  <1>2. RowTypes'
    BY DEF RowTypes, Patch, Results
  <1>3. RowsInLine'
    BY <1>1 DEF RowsInLine, Exists
  <1>4. SendersHaveRuns' /\ NonePlanned'
    BY DEF SendersHaveRuns, NonePlanned
  <1>5. OneOpenCheck'
    BY <1>1 DEF OneOpenCheck, Exists
  <1>6. PassedByPlan'
    BY <1>1 DEF PassedByPlan, NonePlanned
  <1>7. Kept
    BY <1>1 DEF Kept, RowKept, Written, Quiet, Exists
  <1> QED BY <1>2, <1>3, <1>4, <1>5, <1>6, <1>7

(* A row that waits for its check is the last one.                         *)
LEMMA CreationChanges ==
  ASSUME AttemptInv, NEW g \in Generations, rows[g].state \in Unready,
         NEW to \in {"posted", "stored", "active"},
         rows' = [rows EXCEPT ![g].state = to], UNCHANGED <<checkOf, sending, work, admitted>>
  PROVE  ChecksOK' /\ Kept
  <1> USE DEF AttemptInv, ChecksOK
  <1> DEFINE r == [rows[g] EXCEPT !.state = to]
  <1>0. rows[g] \in CheckRows
    BY DEF RowTypes
  <1>1. rows' = [rows EXCEPT ![g] = r]
    OBVIOUS
  <1>2. r \in CheckRows /\ r.state = to /\ r.attempt = rows[g].attempt /\ r.plan = rows[g].plan
    <2>1. to \in CheckRowStates
      BY DEF CheckRowStates
    <2> QED BY <1>0, <2>1, CheckRowWritten
  <1> HIDE DEF r
  <1>3. \A e \in Generations : rows'[e] = IF e = g THEN r ELSE rows[e]
    BY <1>1 DEF RowTypes
  <1>4. RowTypes'
    BY <1>1, <1>2 DEF RowTypes
  <1>5. \A e \in Generations : Exists(e)' <=> Exists(e)
    BY <1>2, <1>3 DEF Exists, Unready
  <1>6. RowsInLine'
    <2>1. Exists(0)'
      BY <1>5, Zeros DEF RowsInLine
    <2>2. \A e \in Generations : ~Exists(e) => rows'[e] = rows[e]
      BY <1>3 DEF Exists, Unready
    <2>3. \A e \in Generations : rows'[e].state \in Unready => rows[e].state \in Unready
      BY <1>3
    <2> QED BY <1>5, <2>1, <2>2, <2>3 DEF RowsInLine
  <1>7. \A e \in Generations : rows'[e].attempt = rows[e].attempt /\ rows'[e].plan = rows[e].plan
    BY <1>2, <1>3
  <1>8. SendersHaveRuns'
    BY <1>7 DEF SendersHaveRuns, RowTypes
  <1>9. NonePlanned' /\ PassedByPlan'
    BY <1>7 DEF NonePlanned, PassedByPlan
  <1>10. OneOpenCheck'
    BY <1>5 DEF OneOpenCheck
  <1>11. Kept
    BY <1>2, <1>3, <1>7 DEF Kept, RowKept, Written, Quiet, Exists, Unready
  <1> QED BY <1>4, <1>6, <1>8, <1>9, <1>10, <1>11

LEMMA StillChecks ==
  ASSUME AttemptInv, UNCHANGED <<rows, checkOf, sending, newest, work, admitted>>
  PROVE  ChecksOK' /\ Kept /\ PlanTypes' /\ PlansCarried'
  <1>1. admitted' \subseteq Attempts
    BY DEF AttemptInv, ChecksOK, RowTypes
  <1>2. ChecksOK' /\ Kept
    BY <1>1, ChecksStay
  <1> QED BY <1>2, PlansStay

-----------------------------------------------------------------------------
(* The workflow, its run and the outbox.                                   *)
LEMMA PlanRunsStep ==
  ASSUME AttemptInv, NEW plan \in {"visual", "none"}, PlanRuns(plan)
  PROVE  AttemptInv'
  <1>0. /\ UNCHANGED <<rows, checkOf, sending, newest, admitted, receipts, moved, handler, halts>>
        /\ work[newest].plan = "unknown" /\ newest \in Attempts /\ work[newest] \in Works
        /\ plan \in Plans /\ work \in [Attempts -> Works]
    BY DEF PlanRuns, AttemptInv, PlanTypes, Plans
  <1> DEFINE w == [work[newest] EXCEPT !.plan = plan]
  <1>1. w \in Works /\ w.plan = plan /\ w.source = work[newest].source
    BY <1>0 DEF Works
  <1>2. work' = [work EXCEPT ![newest] = w]
    BY DEF PlanRuns
  <1> HIDE DEF w
  <1>3. \A a \in Attempts : work'[a] = IF a = newest THEN w ELSE work[a]
    BY <1>0, <1>2
  <1>4. PlanTypes'
    BY <1>0, <1>1, <1>2 DEF PlanTypes
  <1>5. \A a \in Attempts : work[a].plan # "unknown" => work'[a].plan = work[a].plan
    BY <1>0, <1>3
  <1>6. PlansCarried'
    <2>1. \A a \in Attempts : work'[a].source = work[a].source
      BY <1>1, <1>3
    <2>2. work[newest].source = newest
      BY <1>0 DEF AttemptInv, PlansCarried
    <2>3. \A a \in Attempts : work[a].source = newest => a = newest
      <3> SUFFICES ASSUME NEW a \in Attempts, work[a].source = newest, a # newest PROVE FALSE
        OBVIOUS
      <3>1. work[a].plan = work[newest].plan
        BY <1>0, <2>2 DEF AttemptInv, PlansCarried
      <3>2. work[a].plan # "unknown"
        BY DEF AttemptInv, PlansCarried
      <3> QED BY <1>0, <3>1, <3>2
    <2>4. \A a \in Attempts : a # newest => work'[a].plan = work[a].plan
      BY <1>3
    <2>5. \A a \in Attempts : newest < a => a # newest
      BY <1>0, Zeros
    <2>6. work'[newest].plan # "unknown"
      BY <1>0, <1>1, <1>3
    <2>7. \A a \in Attempts : work[a].source # a => a # newest
      BY <2>2
    <2>8. \A a \in Attempts :
            work'[a].source <= a /\ (work'[a].source # a => work'[a].plan # "unknown")
      BY <2>1, <2>4, <2>7 DEF AttemptInv, PlansCarried
    <2>9. \A a \in Attempts : newest < a => work'[a].plan = "unknown" /\ work'[a].source = a
      BY <2>1, <2>4, <2>5 DEF AttemptInv, PlansCarried
    <2>10. \A a, b \in Attempts : work'[a].source = work'[b].source => work'[a].plan = work'[b].plan
      <3> SUFFICES ASSUME NEW a \in Attempts, NEW b \in Attempts, work[a].source = work[b].source
                   PROVE  work'[a].plan = work'[b].plan
        BY <2>1
      <3>1. CASE a = newest \/ b = newest
        <4>1. a = newest /\ b = newest
          BY <2>2, <2>3, <3>1
        <4> QED BY <4>1
      <3>2. CASE a # newest /\ b # newest
        BY <2>4, <3>2 DEF AttemptInv, PlansCarried
      <3> QED BY <3>1, <3>2
    <2> QED BY <1>0, <2>8, <2>9, <2>10 DEF PlansCarried
  <1>7. ChecksOK' /\ Kept
    <2>1. admitted' \subseteq Attempts
      BY <1>0 DEF AttemptInv, ChecksOK, RowTypes
    <2> QED BY <1>0, <1>5, <2>1, ChecksStay
  <1>8. OtherTypes'
    BY <1>0 DEF AttemptInv, OtherTypes
  <1> QED BY <1>0, <1>4, <1>6, <1>7, <1>8, NobodyMoves

(* What ends or was submitted is not spoken of, as long as Plans stay.     *)
LEMMA WorkStays ==
  ASSUME AttemptInv, work' \in [Attempts -> Works], UNCHANGED newest,
         \A a \in Attempts : work'[a].plan = work[a].plan /\ work'[a].source = work[a].source
  PROVE  PlanTypes' /\ PlansCarried'
  BY DEF AttemptInv, PlanTypes, PlansCarried

LEMMA WorkflowSteps ==
  ASSUME AttemptInv, EndWorkflow \/ MainMoves
  PROVE  AttemptInv'
  <1>0. /\ UNCHANGED <<rows, checkOf, sending, newest, admitted, handler, halts>>
        /\ newest \in Attempts /\ work \in [Attempts -> Works]
    BY DEF EndWorkflow, MainMoves, AttemptInv, PlanTypes
  <1>1. OtherTypes'
    BY <1>0 DEF EndWorkflow, MainMoves, AttemptInv, OtherTypes
  <1>2. /\ work' \in [Attempts -> Works]
        /\ \A a \in Attempts : work'[a].plan = work[a].plan /\ work'[a].source = work[a].source
    <2>1. CASE EndWorkflow
      <3> DEFINE w == [work[newest] EXCEPT !.ended = TRUE]
      <3>0. work[newest] \in Works
        BY <1>0
      <3>1. w \in Works /\ w.plan = work[newest].plan /\ w.source = work[newest].source
        BY <3>0 DEF Works
      <3>2. work' = [work EXCEPT ![newest] = w]
        BY <2>1 DEF EndWorkflow
      <3> HIDE DEF w
      <3> QED BY <1>0, <3>1, <3>2
    <2>2. CASE MainMoves
      BY <1>0, <2>2 DEF MainMoves
    <2> QED BY <2>1, <2>2
  <1>3. PlanTypes' /\ PlansCarried'
    BY <1>0, <1>2, WorkStays
  <1>4. ChecksOK' /\ Kept
    <2>1. admitted' \subseteq Attempts
      BY <1>0 DEF AttemptInv, ChecksOK, RowTypes
    <2> QED BY <1>0, <1>2, <2>1, ChecksStay
  <1> QED BY <1>0, <1>1, <1>3, <1>4, NobodyMoves

(* A rerun has its own Plan to make, or carries one that was made.         *)
LEMMA RerunStep ==
  ASSUME AttemptInv, NEW carried \in BOOLEAN, Rerun(carried)
  PROVE  AttemptInv'
  <1> DEFINE next == newest + 1
  <1>0. /\ UNCHANGED <<rows, checkOf, sending, admitted, receipts, moved, handler, halts>>
        /\ newest' = next /\ newest \in Attempts /\ next \in Attempts
        /\ work \in [Attempts -> Works] /\ newest < next
    BY AttemptsAssumption DEF Rerun, AttemptInv, PlanTypes, Attempts
  <1>1. OtherTypes'
    BY <1>0 DEF AttemptInv, OtherTypes
  <1>2. work[next].plan = "unknown" /\ work[next].source = next
    BY <1>0 DEF AttemptInv, PlansCarried
  <1>n. \A a \in Attempts : next < a => newest < a
    BY <1>0, Zeros
  <1>3. CASE ~carried
    <2>1. work' = work
      BY <1>3 DEF Rerun
    <2>2. PlanTypes' /\ PlansCarried'
      BY <1>0, <1>n, <2>1 DEF AttemptInv, PlanTypes, PlansCarried
    <2>3. ChecksOK' /\ Kept
      <3>1. admitted' \subseteq Attempts
        BY <1>0 DEF AttemptInv, ChecksOK, RowTypes
      <3> QED BY <1>0, <2>1, <3>1, ChecksStay
    <2> QED BY <1>0, <1>1, <2>2, <2>3, NobodyMoves
  <1>4. CASE carried
    <2> DEFINE u == [work[next] EXCEPT !.plan = work[newest].plan]
               w == [u EXCEPT !.source = work[newest].source]
    <2>1. work[newest] \in Works /\ work[next] \in Works /\ work[newest].plan # "unknown"
      BY <1>0, <1>4 DEF Rerun
    <2>2. /\ w \in Works /\ w.plan = work[newest].plan /\ w.source = work[newest].source
      BY <2>1 DEF Works
    <2>3. work' = [work EXCEPT ![next] = w]
      <3>1. work' = [work EXCEPT ![next].plan = work[newest].plan,
                                 ![next].source = work[newest].source]
        BY <1>4 DEF Rerun
      <3> QED BY <1>0, <3>1
    <2> HIDE DEF u, w
    <2>4. \A a \in Attempts : work'[a] = IF a = next THEN w ELSE work[a]
      BY <1>0, <2>3
    <2>5. PlanTypes'
      BY <1>0, <2>2, <2>3 DEF PlanTypes
    <2>6. \A a \in Attempts : work[a].plan # "unknown" => work'[a].plan = work[a].plan
      BY <1>2, <2>4
    <2>7. work[newest].source <= newest
      BY <1>0 DEF AttemptInv, PlansCarried
    <2>8. \A a \in Attempts :
            work'[a].source <= a /\ (work'[a].source # a => work'[a].plan # "unknown")
      <3> SUFFICES ASSUME NEW a \in Attempts
                   PROVE  work'[a].source <= a /\ (work'[a].source # a => work'[a].plan # "unknown")
        OBVIOUS
      <3>1. CASE a = next
        <4>1. work[newest].source \in Nat /\ newest \in Nat /\ next \in Nat
          BY <1>0, <2>1, Zeros DEF Works
        <4>2. work[newest].source <= next
          BY <1>0, <2>7, <4>1
        <4>3. work'[a].source = work[newest].source /\ work'[a].plan # "unknown"
          BY <2>1, <2>2, <2>4, <3>1
        <4> QED BY <3>1, <4>2, <4>3
      <3>2. CASE a # next
        BY <2>4, <3>2 DEF AttemptInv, PlansCarried
      <3> QED BY <3>1, <3>2
    <2>9. \A a \in Attempts : next < a => work'[a].plan = "unknown" /\ work'[a].source = a
      <3>1. \A a \in Attempts : next < a => a # next
        BY <1>0, Zeros
      <3> QED BY <1>n, <2>4, <3>1 DEF AttemptInv, PlansCarried
    <2>10. \A a, b \in Attempts : work'[a].source = work'[b].source => work'[a].plan = work'[b].plan
      <3>1. \A a \in Attempts : work'[a].source = work[newest].source =>
              work'[a].plan = work[newest].plan
        BY <1>0, <2>2, <2>4 DEF AttemptInv, PlansCarried
      <3>2. \A a, b \in Attempts : a # next /\ b # next /\ work'[a].source = work'[b].source =>
              work'[a].plan = work'[b].plan
        BY <2>4 DEF AttemptInv, PlansCarried
      <3>3. work'[next].source = work[newest].source /\ work'[next].plan = work[newest].plan
        BY <1>0, <2>2, <2>4
      <3> QED BY <3>1, <3>2, <3>3
    <2>11. PlansCarried'
      BY <1>0, <2>8, <2>9, <2>10 DEF PlansCarried
    <2>12. ChecksOK' /\ Kept
      <3>1. admitted' \subseteq Attempts
        BY <1>0 DEF AttemptInv, ChecksOK, RowTypes
      <3> QED BY <1>0, <2>6, <3>1, ChecksStay
    <2> QED BY <1>0, <1>1, <2>5, <2>11, <2>12, NobodyMoves
  <1> QED BY <1>3, <1>4

LEMMA AdmitStep ==
  ASSUME AttemptInv, NEW a \in Attempts, Admit(a)
  PROVE  AttemptInv'
  <1>0. /\ UNCHANGED <<rows, checkOf, sending, newest, work, receipts, moved, handler, halts>>
        /\ admitted' = admitted \cup {a}
    BY DEF Admit, gitHub
  <1>1. ChecksOK' /\ Kept
    <2>1. admitted' \subseteq Attempts
      BY <1>0 DEF AttemptInv, ChecksOK, RowTypes
    <2> QED BY <1>0, <2>1, ChecksStay
  <1>2. OtherTypes'
    BY <1>0 DEF AttemptInv, OtherTypes
  <1> QED BY <1>0, <1>1, <1>2, PlansStay, NobodyMoves

(* The outbox sends for the last generation only, while it is active.      *)
LEMMA PostLandsStep ==
  ASSUME AttemptInv, NEW g \in Generations, PostLands(g)
  PROVE  AttemptInv'
  <1>1. /\ UNCHANGED <<rows, sending, newest, work, moved, admitted, halts, receipts, handler>>
        /\ Patch(g, "open") /\ rows[g].state = "posted"
    BY DEF PostLands, gitHub
  <1>2. OtherTypes' /\ PlanTypes' /\ PlansCarried'
    BY <1>1, PlansStay DEF AttemptInv, OtherTypes
  <1>3. Exists(g) /\ ~Quiet(g) /\ "open" \in Results
        /\ \A later \in Generations : later > g => ~Exists(later)
    BY <1>1 DEF Exists, Quiet, Results, Shown, AttemptInv, ChecksOK, RowsInLine, Unready
  <1>4. ChecksOK' /\ Kept
    BY <1>1, <1>3, CheckChanges
  <1> QED BY <1>1, <1>2, <1>4, NobodyMoves

LEMMA SendStep ==
  ASSUME AttemptInv, NEW g \in Generations, Send(g)
  PROVE  AttemptInv'
  <1>0. /\ UNCHANGED <<rows, checkOf, newest, work, admitted, receipts, moved, handler, halts>>
        /\ sending' = sending \cup {g} /\ rows[g].attempt \in admitted
        /\ rows[g].state = "active" /\ g = Latest
    BY DEF Send, CurrentCheck, gitHub
  <1> USE DEF AttemptInv, ChecksOK
  <1>1. \A later \in Generations : later > g => ~Exists(later)
    BY <1>0, LatestIsThere DEF RowsInLine
  <1>2. RowTypes' /\ OneOpenCheck' /\ PassedByPlan' /\ NonePlanned'
    BY <1>0 DEF RowTypes, OneOpenCheck, PassedByPlan, NonePlanned, Exists
  <1>3. RowsInLine' /\ SendersHaveRuns'
    BY <1>0, <1>1 DEF RowsInLine, SendersHaveRuns, Exists
  <1>4. Kept
    BY <1>0 DEF Kept, RowKept, Written, Quiet, Exists
  <1>5. OtherTypes'
    BY <1>0 DEF OtherTypes
  <1> QED BY <1>0, <1>2, <1>3, <1>4, <1>5, PlansStay, NobodyMoves

LEMMA LandStep ==
  ASSUME AttemptInv, NEW g \in Generations, NEW result \in Results, Land(g, result)
  PROVE  AttemptInv'
  <1>0. /\ UNCHANGED <<rows, newest, work, admitted, receipts, moved, handler, halts>>
        /\ g \in sending /\ sending' = sending \ {g} /\ Patch(g, result)
    BY DEF Land, gitHub
  <1>1. rows[g].attempt \in admitted
    BY <1>0 DEF AttemptInv, ChecksOK, SendersHaveRuns
  <1>2. Exists(g)
    BY <1>0, <1>1, Zeros DEF AttemptInv, ChecksOK, RowsInLine, RowTypes
  <1>3. \A later \in Generations : later > g => ~Exists(later)
    BY <1>0 DEF AttemptInv, ChecksOK, RowsInLine
  <1>4. ChecksOK' /\ Kept
    BY <1>0, <1>1, <1>2, <1>3, CheckChanges
  <1>5. OtherTypes'
    BY <1>0 DEF AttemptInv, OtherTypes
  <1> QED BY <1>0, <1>4, <1>5, PlansStay, NobodyMoves

-----------------------------------------------------------------------------
(* The steps of a request.                                                 *)
LEMMA Requester ==
  ASSUME AttemptInv, NEW h \in Handlers
  PROVE  \E me \in Requests :
           /\ me = handler[h] /\ RequestOK(me)
           /\ me.gen \in Generations /\ me.attempt \in Attempts /\ me.read \in CheckRows
           /\ me.kind \in Kinds /\ rows[me.gen] \in CheckRows
  <1> DEFINE me == handler[h]
  <1>1. me \in Requests /\ RequestOK(me)
    BY DEF AttemptInv, RequestTypes, RequestsOK
  <1>2. /\ me.gen \in Generations /\ me.attempt \in Attempts /\ me.read \in CheckRows
        /\ me.kind \in Kinds
    BY <1>1 DEF Requests
  <1>3. rows[me.gen] \in CheckRows
    BY <1>2 DEF AttemptInv, ChecksOK, RowTypes
  <1> QED BY <1>1, <1>2, <1>3

LEMMA MoveStep ==
  ASSUME AttemptInv, Kept, NEW h \in Handlers, NEW me \in Requests, me = handler[h],
         NEW x \in HandlerPlaces, x # "bind", To(h, x) \/ Forget(h, x),
         PlaceOK(x, me.kind, me.attempt, me.gen, me.read)',
         ChecksOK', PlanTypes', PlansCarried', OtherTypes'
  PROVE  AttemptInv'
  <1>1. RequestTypes /\ me.gen \in Generations /\ me.read \in CheckRows
    BY DEF AttemptInv, Requests
  <1>2. PICK r \in CheckRows : Sets(h, Placed(me, x, me.gen, r))
    <2>1. CASE To(h, x)
      BY <1>1, <2>1, Moves
    <2>2. CASE Forget(h, x)
      BY <1>1, <2>2, Moves, Zeros
    <2> QED BY <2>1, <2>2
  <1>3. PlaceOK(x, me.kind, me.attempt, me.gen, r)'
    BY DEF PlaceOK
  <1> QED BY <1>1, <1>2, <1>3, PlaceStep

(* A conditional UPDATE of the state of a row.                             *)
LEMMA SetStateStep ==
  ASSUME AttemptInv, NEW g \in Generations, NEW to \in {"failed", "docs_complete"},
         SetState(g, "active", to), UNCHANGED <<checkOf, sending, work, admitted>>
  PROVE  /\ ChecksOK' /\ Kept
         /\ Written(g) => Quiet(g)'
  <1>1. CASE rows[g].state # "active"
    <2>1. UNCHANGED rows
      BY <1>1 DEF SetState
    <2>2. admitted' \subseteq Attempts
      BY DEF AttemptInv, ChecksOK, RowTypes
    <2> QED BY <1>1, <2>1, <2>2, ChecksStay DEF Written, Quiet
  <1>2. CASE rows[g].state = "active"
    <2> DEFINE r == [rows[g] EXCEPT !.state = to]
    <2>0. rows[g] \in CheckRows /\ to \in CheckRowStates
      BY DEF AttemptInv, ChecksOK, RowTypes, CheckRowStates
    <2>1. r \in CheckRows /\ r.state = to /\ r.attempt = rows[g].attempt /\ r.plan = rows[g].plan
      BY <2>0, CheckRowWritten
    <2>2. rows' = [rows EXCEPT ![g] = r]
      BY <1>2 DEF SetState
    <2> HIDE DEF r
    <2>3. rows[g].plan = "none" => rows[g].attempt \in Attempts /\ work[rows[g].attempt].plan = "none"
      BY DEF AttemptInv, ChecksOK, NonePlanned
    <2>4. ChecksOK' /\ Kept
      BY <1>2, <2>1, <2>2, <2>3, RowChanges DEF Written, Quiet
    <2>5. rows'[g] = r
      BY <2>2 DEF AttemptInv, ChecksOK, RowTypes
    <2> QED BY <2>1, <2>4, <2>5 DEF Quiet
  <1> QED BY <1>1, <1>2

LEMMA StartedRequest ==
  ASSUME NEW x, NEW k, NEW a, NEW g
  PROVE  [HandlerIdle EXCEPT !.at = x, !.kind = k, !.attempt = a, !.gen = g] =
           [at |-> x, kind |-> k, attempt |-> a, gen |-> g, read |-> NoCheckRow]
  <1> DEFINE u == [HandlerIdle EXCEPT !.at = x]
             v == [u EXCEPT !.kind = k]
             w == [v EXCEPT !.attempt = a]
  <1>1. [HandlerIdle EXCEPT !.at = x, !.kind = k, !.attempt = a, !.gen = g] = [w EXCEPT !.gen = g]
    BY Zenon
  <1>2. u = [at |-> x, kind |-> "settle", attempt |-> 1, gen |-> 0, read |-> NoCheckRow]
    BY DEF HandlerIdle
  <1> HIDE DEF u
  <1>3. v = [at |-> x, kind |-> k, attempt |-> 1, gen |-> 0, read |-> NoCheckRow]
    BY <1>2
  <1> HIDE DEF v
  <1>4. w = [at |-> x, kind |-> k, attempt |-> a, gen |-> 0, read |-> NoCheckRow]
    BY <1>3
  <1> HIDE DEF w
  <1>5. [w EXCEPT !.gen = g] = [at |-> x, kind |-> k, attempt |-> a, gen |-> g, read |-> NoCheckRow]
    BY <1>4
  <1> QED BY <1>1, <1>5

LEMMA SignedCallStep ==
  ASSUME AttemptInv, NEW h \in Handlers, NEW kind \in {"submit", "report"}, SignedCall(h, kind)
  PROVE  AttemptInv'
  <1>0. UNCHANGED <<rows, checkOf, sending, newest, work, moved, admitted, halts, receipts>>
    BY DEF SignedCall, Reads, rest, gitHub
  <1>1. OtherTypes'
    BY <1>0 DEF AttemptInv, OtherTypes
  <1>2. /\ newest \in Attempts
        /\ (kind = "report" => work[newest].plan = "none")
        /\ (kind = "submit" => work[newest].plan = "visual")
    BY DEF SignedCall, AttemptInv, PlanTypes
  <1>3. Latest \in Generations /\ Exists(Latest)
    BY LatestIsThere DEF AttemptInv, ChecksOK, RowsInLine
  <1>4. ChecksOK' /\ Kept /\ PlanTypes' /\ PlansCarried'
    BY <1>0, StillChecks
  <1> DEFINE request(place, g) ==
        [at |-> place, kind |-> kind, attempt |-> newest, gen |-> g, read |-> NoCheckRow]
  <1>5. \A place \in {"ensure", "noVisual"}, g \in Generations : request(place, g) \in Requests
    BY <1>2, Zeros DEF Requests, HandlerPlaces, Kinds
  <1>6. CASE kind = "report" /\ PlanOf(newest) = "none"
    <2>1. BoundTo(newest) # {}
      BY <1>6 DEF PlanOf
    <2>2. PICK g \in Generations : g = CHOOSE b \in BoundTo(newest) : TRUE
      BY <2>1 DEF BoundTo
    <2>3. PICK me \in Requests : me = request("noVisual", g)
      BY <1>5
    <2>4. handler' = [handler EXCEPT ![h] = me]
      <3>1. handler' = [handler EXCEPT ![h] =
              [HandlerIdle EXCEPT !.at = "noVisual", !.kind = kind, !.attempt = newest,
                                  !.gen = CHOOSE b \in BoundTo(newest) : TRUE]]
        BY <1>6 DEF SignedCall
      <3>2. [HandlerIdle EXCEPT !.at = "noVisual", !.kind = kind, !.attempt = newest, !.gen = g] = me
        BY <2>3, StartedRequest
      <3> QED BY <2>2, <3>1, <3>2
    <2>5. RequestOK(me)'
      BY <1>0, <1>2, <2>3 DEF RequestOK, PlaceOK
    <2> QED BY <1>1, <1>4, <2>4, <2>5, RequestStep
  <1>7. CASE ~(kind = "report" /\ PlanOf(newest) = "none")
    <2>2. PICK g \in Generations : g = Latest
      BY <1>3
    <2>3. PICK me \in Requests : me = request("ensure", g)
      BY <1>5
    <2>4. handler' = [handler EXCEPT ![h] = me]
      <3>1. handler' = [handler EXCEPT ![h] =
              [HandlerIdle EXCEPT !.at = "ensure", !.kind = kind, !.attempt = newest,
                                  !.gen = Latest]]
        BY <1>7 DEF SignedCall
      <3>2. [HandlerIdle EXCEPT !.at = "ensure", !.kind = kind, !.attempt = newest, !.gen = g] = me
        BY <2>3, StartedRequest
      <3> QED BY <2>2, <3>1, <3>2
    <2>5. RequestOK(me)'
      BY <1>0, <1>2, <1>3, <2>2, <2>3 DEF RequestOK, PlaceOK, Exists
    <2> QED BY <1>1, <1>4, <2>4, <2>5, RequestStep
  <1> QED BY <1>6, <1>7

(* A step of ensureStoredCheck, from either of its callers.                *)
LEMMA CreateStep ==
  ASSUME AttemptInv, NEW h \in Handlers, NEW g \in Generations, Create(h, g),
         rows[g].state \in Unready,
         UNCHANGED <<checkOf, sending, newest, work, moved, admitted, halts, receipts>>
  PROVE  AttemptInv'
  <1>1. OtherTypes' /\ PlanTypes' /\ PlansCarried'
    BY PlansStay DEF AttemptInv, OtherTypes
  <1>2. CASE Over(h) /\ UNCHANGED rows
    BY <1>1, <1>2, StillChecks, OverStep
  <1>3. CASE ~(Over(h) /\ UNCHANGED rows)
    <2>1. PICK to \in {"posted", "stored", "active"} :
            rows' = [rows EXCEPT ![g].state = to] /\ UNCHANGED handler
      BY <1>3 DEF Create, SetState
    <2>2. ChecksOK' /\ Kept
      BY <2>1, CreationChanges
    <2> QED BY <1>1, <2>1, <2>2, NobodyMoves
  <1> QED BY <1>2, <1>3

LEMMA EnsureCheckStep ==
  ASSUME AttemptInv, NEW h \in Handlers, EnsureCheck(h)
  PROVE  AttemptInv'
  <1>0. UNCHANGED <<sending, newest, work, moved, admitted, halts, receipts>>
    BY DEF EnsureCheck, rest, gitHub
  <1>1. OtherTypes' /\ PlanTypes' /\ PlansCarried'
    BY <1>0, PlansStay DEF AttemptInv, OtherTypes
  <1>2. PICK me \in Requests :
          /\ me = handler[h] /\ RequestOK(me)
          /\ me.gen \in Generations /\ me.attempt \in Attempts /\ me.read \in CheckRows
          /\ me.kind \in Kinds /\ rows[me.gen] \in CheckRows
    BY Requester
  <1>3. /\ me.at = "ensure" /\ Exists(me.gen)
        /\ (me.kind = "report" => work[me.attempt].plan = "none")
        /\ (me.kind = "submit" => work[me.attempt].plan = "visual")
    BY <1>2 DEF EnsureCheck, At, RequestOK, PlaceOK
  <1>4. CASE rows[me.gen].state \in Unready
    <2>1. Create(h, me.gen) /\ UNCHANGED checkOf
      BY <1>2, <1>4 DEF EnsureCheck, Gen
    <2> QED BY <1>0, <1>2, <1>4, <2>1, CreateStep
  <1>5. CASE rows[me.gen].state \notin Unready
    <2>1. /\ UNCHANGED <<rows, checkOf>>
          /\ handler' = [handler EXCEPT ![h].at = "bind", ![h].read = rows[me.gen]]
      BY <1>2, <1>5 DEF EnsureCheck, Gen
    <2>2. ChecksOK' /\ Kept
      BY <1>0, <2>1, StillChecks
    <2>3. PICK r \in CheckRows : r = rows[me.gen]
      BY <1>2
    <2>4. Sets(h, Placed(me, "bind", me.gen, r))
      <3>1. RequestTypes /\ "bind" \in HandlerPlaces
        BY DEF AttemptInv, HandlerPlaces
      <3>2. Rereads(h, "bind", r)
        BY <2>1, <2>3 DEF Rereads
      <3> QED BY <1>2, <3>1, <3>2, Moves
    <2>5. Written(me.gen)
      BY <1>2, <1>3, <1>5 DEF Written, Exists, Unready, CheckRows, CheckRowStates
    <2>6. PlaceOK("bind", me.kind, me.attempt, me.gen, r)'
      BY <1>0, <1>3, <2>1, <2>5 DEF PlaceOK, Written
    <2> QED BY <1>1, <1>2, <2>2, <2>4, <2>6, PlaceStep DEF HandlerPlaces
  <1> QED BY <1>4, <1>5

LEMMA BindStep ==
  ASSUME AttemptInv, NEW h \in Handlers, Bind(h)
  PROVE  AttemptInv'
  <1>0. UNCHANGED <<sending, newest, work, moved, admitted, halts, receipts>>
    BY DEF Bind, rest, gitHub
  <1>1. OtherTypes' /\ PlanTypes' /\ PlansCarried'
    BY <1>0, PlansStay DEF AttemptInv, OtherTypes
  <1>2. PICK me \in Requests :
          /\ me = handler[h] /\ RequestOK(me)
          /\ me.gen \in Generations /\ me.attempt \in Attempts /\ me.read \in CheckRows
          /\ me.kind \in Kinds /\ rows[me.gen] \in CheckRows
    BY Requester
  <1>3. /\ me.at = "bind"
        /\ (me.kind = "report" => work[me.attempt].plan = "none")
        /\ (me.kind = "submit" => work[me.attempt].plan = "visual")
    BY <1>2 DEF Bind, At, RequestOK, PlaceOK
  <1>4. CASE BoundTo(me.attempt) # {}
    <2>1. PICK g \in BoundTo(me.attempt) : g = CHOOSE b \in BoundTo(me.attempt) : TRUE
      BY <1>4
    <2>2. g \in Generations /\ Exists(g) /\ rows[g].attempt = me.attempt
      BY DEF BoundTo
    <2>3. CASE rows[g].state \in Unready
      <3>1. Create(h, g) /\ UNCHANGED checkOf
        BY <1>2, <1>4, <2>1, <2>3 DEF Bind, Me
      <3> QED BY <1>0, <2>2, <2>3, <3>1, CreateStep
    <2>4. CASE rows[g].state \notin Unready
      <3>1. Continue(h, "inherit", g) /\ UNCHANGED <<rows, checkOf>>
        BY <1>2, <1>4, <2>1, <2>4 DEF Bind, Me
      <3>2. ChecksOK' /\ Kept
        BY <1>0, <3>1, StillChecks
      <3>3. PICK r \in CheckRows : r = rows[g]
        BY <2>2 DEF AttemptInv, ChecksOK, RowTypes
      <3>4. Sets(h, Placed(me, "inherit", g, r))
        <4>1. RequestTypes /\ "inherit" \in HandlerPlaces
          BY DEF AttemptInv, HandlerPlaces
        <4>2. TurnsTo(h, "inherit", g, r)
          BY <3>1, <3>3 DEF Continue, TurnsTo
        <4>3. g \in Generations
          BY <2>2
        <4> QED BY <1>2, <4>1, <4>2, <4>3, Moves
      <3>5. PlaceOK("inherit", me.kind, me.attempt, g, r)'
        BY <1>0, <1>3, <2>2, <3>1 DEF PlaceOK
      <3> QED BY <1>1, <1>2, <2>2, <3>2, <3>4, <3>5, PlaceStep DEF HandlerPlaces
    <2> QED BY <2>3, <2>4
  <1>5. CASE BoundTo(me.attempt) = {}
    <2>1. UNCHANGED <<rows, checkOf>>
      BY <1>2, <1>5 DEF Bind, Me
    <2>2. ChecksOK' /\ Kept
      BY <1>0, <2>1, StillChecks
    <2>3. me.read.state \in Unready \/ Written(me.gen)
      BY <1>2, <1>3, <1>5 DEF RequestOK, PlaceOK
    <2>4. CASE me.read.state \in Unready
      <3>1. Over(h)
        BY <1>2, <1>5, <2>4 DEF Bind, Me, Read, Unready
      <3> QED BY <1>1, <2>2, <3>1, OverStep
    <2>5. CASE me.read.state \notin Unready
      <3>1. PICK x \in {"unbound", "previous"} : To(h, x)
        BY <1>2, <1>5, <2>5 DEF Bind, Me, Read, Gen
      <3>2. PlaceOK(x, me.kind, me.attempt, me.gen, me.read)'
        BY <1>0, <1>3, <2>1, <2>3, <2>5 DEF PlaceOK, Written
      <3> QED BY <1>1, <1>2, <2>2, <3>1, <3>2, MoveStep DEF HandlerPlaces
    <2> QED BY <2>4, <2>5
  <1> QED BY <1>4, <1>5

LEMMA BindUnboundStep ==
  ASSUME AttemptInv, NEW h \in Handlers, BindUnbound(h)
  PROVE  AttemptInv'
  <1>0. UNCHANGED <<checkOf, sending, newest, work, moved, admitted, halts, receipts>>
    BY DEF BindUnbound, rest, gitHub
  <1>1. OtherTypes' /\ PlanTypes' /\ PlansCarried'
    BY <1>0, PlansStay DEF AttemptInv, OtherTypes
  <1>2. PICK me \in Requests :
          /\ me = handler[h] /\ RequestOK(me)
          /\ me.gen \in Generations /\ me.attempt \in Attempts /\ me.read \in CheckRows
          /\ me.kind \in Kinds /\ rows[me.gen] \in CheckRows
    BY Requester
  <1>3. /\ me.at = "unbound"
        /\ (me.kind = "report" => work[me.attempt].plan = "none")
        /\ (me.kind = "submit" => work[me.attempt].plan = "visual")
        /\ Written(me.gen)
    BY <1>2 DEF BindUnbound, At, RequestOK, PlaceOK
  <1> DEFINE free == rows[me.gen].state = "active" /\ rows[me.gen].attempt = 0
  <1>4. CASE Over(h) /\ UNCHANGED rows
    BY <1>0, <1>1, <1>4, StillChecks, OverStep
  <1>5. CASE ~(Over(h) /\ UNCHANGED rows)
    <2>1. /\ rows' = IF free THEN [rows EXCEPT ![me.gen].attempt = me.attempt] ELSE rows
          /\ LET bound == {g \in Generations : rows'[g].attempt = me.attempt}
             IN IF bound = {} THEN To(h, "previous")
                ELSE \E g \in bound :
                  handler' = [handler EXCEPT ![h].at = "inherit", ![h].gen = g,
                                             ![h].read = rows'[g]]
      BY <1>2, <1>5 DEF BindUnbound, Gen, Me
    <2>2. ChecksOK' /\ Kept
      <3>1. CASE ~free
        BY <1>0, <2>1, <3>1, StillChecks
      <3>2. CASE free
        <4> DEFINE r == [rows[me.gen] EXCEPT !.attempt = me.attempt]
        <4>1. /\ r \in CheckRows /\ r.state = "active" /\ r.attempt = me.attempt
              /\ r.plan = rows[me.gen].plan
          BY <1>2, <3>2, CheckRowWritten, Zeros
        <4>2. rows' = [rows EXCEPT ![me.gen] = r]
          BY <2>1, <3>2
        <4> HIDE DEF r
        <4>3. rows[me.gen].plan # "none"
          BY <1>2, <3>2, Zeros DEF AttemptInv, ChecksOK, NonePlanned
        <4> QED BY <1>0, <1>2, <1>3, <3>2, <4>1, <4>2, <4>3, RowChanges DEF Quiet
      <3> QED BY <3>1, <3>2
    <2>3. CASE To(h, "previous")
      <3>1. PlaceOK("previous", me.kind, me.attempt, me.gen, me.read)'
        BY <1>0, <1>2, <1>3, <2>2 DEF PlaceOK, Written, Kept, RowKept
      <3> QED BY <1>1, <1>2, <2>2, <2>3, <3>1, MoveStep DEF HandlerPlaces
    <2>4. CASE ~To(h, "previous")
      <3>1. PICK g \in Generations :
              /\ rows'[g].attempt = me.attempt
              /\ handler' = [handler EXCEPT ![h].at = "inherit", ![h].gen = g, ![h].read = rows'[g]]
        BY <2>1, <2>4
      <3>2. PICK r \in CheckRows : r = rows'[g]
        BY <2>2 DEF ChecksOK, RowTypes
      <3>3. Sets(h, Placed(me, "inherit", g, r))
        <4>1. RequestTypes /\ "inherit" \in HandlerPlaces
          BY DEF AttemptInv, HandlerPlaces
        <4>2. TurnsTo(h, "inherit", g, r)
          BY <3>1, <3>2 DEF TurnsTo
        <4>3. g \in Generations
          BY <3>1
        <4> QED BY <1>2, <4>1, <4>2, <4>3, Moves
      <3>4. PlaceOK("inherit", me.kind, me.attempt, g, r)'
        BY <1>0, <1>3, <3>1 DEF PlaceOK
      <3> QED BY <1>1, <1>2, <2>2, <3>3, <3>4, PlaceStep DEF HandlerPlaces
    <2> QED BY <2>3, <2>4
  <1> QED BY <1>4, <1>5

(* A step of a request that only reads, or whose write is accounted for.   *)
LEMMA ReadPreviousStep ==
  ASSUME AttemptInv, NEW h \in Handlers, ReadPrevious(h)
  PROVE  AttemptInv'
  <1>0. UNCHANGED <<rows, checkOf, sending, newest, work, moved, admitted, halts, receipts>>
    BY DEF ReadPrevious, Reads, rest, gitHub
  <1>1. OtherTypes' /\ PlanTypes' /\ PlansCarried' /\ ChecksOK' /\ Kept
    BY <1>0, StillChecks DEF AttemptInv, OtherTypes
  <1>2. PICK me \in Requests :
          /\ me = handler[h] /\ RequestOK(me)
          /\ me.gen \in Generations /\ me.attempt \in Attempts /\ me.read \in CheckRows
          /\ me.kind \in Kinds /\ rows[me.gen] \in CheckRows
    BY Requester
  <1>3. PlaceOK("fence", me.kind, me.attempt, me.gen, me.read)'
    BY <1>0, <1>2 DEF ReadPrevious, At, RequestOK, PlaceOK, Written
  <1>4. Over(h) \/ Forget(h, "fence")
    BY DEF ReadPrevious
  <1> QED BY <1>1, <1>2, <1>3, <1>4, OverStep, MoveStep DEF HandlerPlaces

LEMMA FencePreviousStep ==
  ASSUME AttemptInv, NEW h \in Handlers, FencePrevious(h)
  PROVE  AttemptInv'
  <1>0. /\ UNCHANGED <<checkOf, sending, newest, work, moved, admitted, halts, receipts>>
        /\ To(h, "readSending")
    BY DEF FencePrevious, rest, gitHub
  <1>1. OtherTypes' /\ PlanTypes' /\ PlansCarried'
    BY <1>0, PlansStay DEF AttemptInv, OtherTypes
  <1>2. PICK me \in Requests :
          /\ me = handler[h] /\ RequestOK(me)
          /\ me.gen \in Generations /\ me.attempt \in Attempts /\ me.read \in CheckRows
          /\ me.kind \in Kinds /\ rows[me.gen] \in CheckRows
    BY Requester
  <1>3. SetState(me.gen, "active", "failed")
    BY <1>2 DEF FencePrevious, Gen
  <1>4. ChecksOK' /\ Kept /\ (Written(me.gen) => Quiet(me.gen)')
    BY <1>0, <1>2, <1>3, SetStateStep
  <1>5. PlaceOK("readSending", me.kind, me.attempt, me.gen, me.read)'
    BY <1>0, <1>2, <1>4 DEF FencePrevious, At, RequestOK, PlaceOK, Quiet
  <1> QED BY <1>0, <1>1, <1>2, <1>4, <1>5, MoveStep DEF HandlerPlaces

LEMMA ReadSendingStep ==
  ASSUME AttemptInv, NEW h \in Handlers, ReadSending(h)
  PROVE  AttemptInv'
  <1>0. UNCHANGED <<rows, checkOf, sending, newest, work, moved, admitted, halts, receipts>>
    BY DEF ReadSending, Reads, rest, gitHub
  <1>1. OtherTypes' /\ PlanTypes' /\ PlansCarried' /\ ChecksOK' /\ Kept
    BY <1>0, StillChecks DEF AttemptInv, OtherTypes
  <1>2. PICK me \in Requests :
          /\ me = handler[h] /\ RequestOK(me)
          /\ me.gen \in Generations /\ me.attempt \in Attempts /\ me.read \in CheckRows
          /\ me.kind \in Kinds /\ rows[me.gen] \in CheckRows
    BY Requester
  <1>3. CASE me.gen \in sending
    BY <1>1, <1>2, <1>3, OverStep DEF ReadSending, Sender, Gen
  <1>4. CASE me.gen \notin sending
    <2>1. To(h, "close")
      BY <1>2, <1>4 DEF ReadSending, Sender, Gen
    <2>2. PlaceOK("close", me.kind, me.attempt, me.gen, me.read)'
      BY <1>0, <1>2, <1>4 DEF ReadSending, At, RequestOK, PlaceOK, Quiet
    <2> QED BY <1>1, <1>2, <2>1, <2>2, MoveStep DEF HandlerPlaces
  <1> QED BY <1>3, <1>4

LEMMA ReadSettledStep ==
  ASSUME AttemptInv, NEW h \in Handlers, ReadSettled(h)
  PROVE  AttemptInv'
  <1>0. UNCHANGED <<rows, checkOf, sending, newest, work, moved, admitted, halts, receipts>>
    BY DEF ReadSettled, Reads, rest, gitHub
  <1>1. OtherTypes' /\ PlanTypes' /\ PlansCarried' /\ ChecksOK' /\ Kept
    BY <1>0, StillChecks DEF AttemptInv, OtherTypes
  <1>2. PICK me \in Requests :
          /\ me = handler[h] /\ RequestOK(me)
          /\ me.gen \in Generations /\ me.attempt \in Attempts /\ me.read \in CheckRows
          /\ me.kind \in Kinds /\ rows[me.gen] \in CheckRows
    BY Requester
  <1>3. PICK x \in {"patchClosed", "insert"} :
          To(h, x) /\ (x = "insert" => checkOf[me.gen] # "open")
    BY <1>2 DEF ReadSettled, Gen
  <1>4. PlaceOK(x, me.kind, me.attempt, me.gen, me.read)'
    BY <1>0, <1>2, <1>3 DEF ReadSettled, At, RequestOK, PlaceOK, Quiet
  <1> QED BY <1>1, <1>2, <1>3, <1>4, MoveStep DEF HandlerPlaces

LEMMA ClosePreviousStep ==
  ASSUME AttemptInv, NEW h \in Handlers, ClosePrevious(h)
  PROVE  AttemptInv'
  <1>0. /\ UNCHANGED <<rows, sending, newest, work, moved, admitted, halts, receipts>>
        /\ To(h, "insert")
    BY DEF ClosePrevious, rest, gitHub
  <1>1. OtherTypes' /\ PlanTypes' /\ PlansCarried'
    BY <1>0, PlansStay DEF AttemptInv, OtherTypes
  <1>2. PICK me \in Requests :
          /\ me = handler[h] /\ RequestOK(me)
          /\ me.gen \in Generations /\ me.attempt \in Attempts /\ me.read \in CheckRows
          /\ me.kind \in Kinds /\ rows[me.gen] \in CheckRows
    BY Requester
  <1>3. Patch(me.gen, "failure") /\ me.at = "patchClosed"
    BY <1>2 DEF ClosePrevious, At, Gen
  <1>4. Quiet(me.gen) /\ Exists(me.gen) /\ me.gen \notin sending
        /\ (me.kind = "report" => work[me.attempt].plan = "none")
        /\ (me.kind = "submit" => work[me.attempt].plan = "visual")
    BY <1>2, <1>3 DEF RequestOK, PlaceOK, Quiet, Exists
  <1>5. ChecksOK' /\ Kept
    BY <1>0, <1>2, <1>3, <1>4, CheckChanges DEF Results, Shown
  <1>6. checkOf'[me.gen] = "failure"
    BY <1>2, <1>3 DEF Patch, AttemptInv, ChecksOK, RowTypes
  <1>7. PlaceOK("insert", me.kind, me.attempt, me.gen, me.read)'
    BY <1>0, <1>4, <1>6 DEF PlaceOK, Quiet
  <1> QED BY <1>0, <1>1, <1>2, <1>5, <1>7, MoveStep DEF HandlerPlaces

(* A check that failed or passed stays so: the next generation starts.     *)
LEMMA NextRow ==
  ASSUME AttemptInv, NEW g \in Generations, NEW next \in Generations, next = g + 1,
         NEW a \in Attempts, ~Exists(next), Quiet(g), g \notin sending, checkOf[g] # "open",
         rows' = [rows EXCEPT ![next] = [state |-> "pending", attempt |-> a, plan |-> "unknown"]],
         UNCHANGED <<checkOf, sending, work, admitted>>
  PROVE  ChecksOK' /\ Kept
  <1> USE DEF AttemptInv, ChecksOK
  <1> DEFINE r == [state |-> "pending", attempt |-> a, plan |-> "unknown"]
  <1>0. r \in CheckRows /\ r.state = "pending" /\ r.attempt = a /\ r.plan = "unknown"
    BY Zeros DEF CheckRows, CheckRowStates, Plans
  <1>1. rows' = [rows EXCEPT ![next] = r]
    OBVIOUS
  <1> HIDE DEF r
  <1>2. \A e \in Generations : rows'[e] = IF e = next THEN r ELSE rows[e]
    BY <1>1 DEF RowTypes
  <1>3. \A e \in Generations : Exists(e)' <=> Exists(e) \/ e = next
    BY <1>0, <1>2 DEF Exists
  <1>4. rows[next] = NoCheckRow /\ checkOf[next] = "none"
    BY DEF RowsInLine
  <1>5. \A e \in Generations : e \in Int /\ (e < next <=> e <= g) /\ (e > g => e >= next)
    BY DEF Generations
  <1>6. \A e \in Generations : Exists(e) => e <= g
    <2> SUFFICES ASSUME NEW e \in Generations, Exists(e), ~(e <= g) PROVE FALSE
      OBVIOUS
    <2>1. e = next \/ next < e
      BY <1>5
    <2> QED BY <2>1 DEF RowsInLine
  <1>7. \A e \in Generations : e <= g => Exists(e)
    <2>1. Exists(g)
      BY DEF Quiet, Exists
    <2>2. \A e \in Generations : e <= g => e = g \/ e < g
      BY DEF Generations
    <2> QED BY <2>1, <2>2 DEF RowsInLine
  <1>8. next \notin sending /\ sending \subseteq Generations
    BY <1>4, Zeros DEF SendersHaveRuns, RowTypes
  <1>9. RowTypes'
    BY <1>0, <1>1 DEF RowTypes
  <1>10. RowsInLine'
    <2>1. Exists(0)'
      BY <1>3, Zeros DEF RowsInLine
    <2>2. \A e \in Generations : Exists(e)' =>
            \A before \in Generations : before < e => Exists(before)'
      BY <1>3, <1>5, <1>7 DEF RowsInLine
    <2>3. \A e \in Generations : rows'[e].state \in Unready \/ e \in sending' => e = next
      <3> SUFFICES ASSUME NEW e \in Generations, e # next, rows[e].state \in Unready \/ e \in sending
                   PROVE  FALSE
        BY <1>2
      <3>1. Exists(e)
        BY Zeros DEF Exists, SendersHaveRuns, RowsInLine, RowTypes, Unready
      <3>2. e # g
        BY DEF Quiet, Unready
      <3>3. e < g
        BY <1>6, <3>1, <3>2 DEF Generations
      <3>4. Exists(g)
        BY DEF Quiet, Exists
      <3> QED BY <3>3, <3>4 DEF RowsInLine, Generations
    <2>4. \A later \in Generations : later > next => ~Exists(later)'
      BY <1>3, <1>5, <1>6 DEF Generations
    <2>5. \A e \in Generations : ~Exists(e)' => rows'[e] = NoCheckRow /\ checkOf'[e] = "none"
      BY <1>2, <1>3 DEF RowsInLine
    <2> QED BY <2>1, <2>2, <2>3, <2>4, <2>5 DEF RowsInLine
  <1>11. SendersHaveRuns' /\ NonePlanned' /\ PassedByPlan'
    BY <1>0, <1>2, <1>4, <1>8 DEF SendersHaveRuns, NonePlanned, PassedByPlan
  <1>12. OneOpenCheck'
    <2> SUFFICES ASSUME NEW e \in Generations, checkOf[e] = "open",
                        NEW later \in Generations, later > e, Exists(later)'
                 PROVE  FALSE
      BY DEF OneOpenCheck
    <2>1. Exists(e) /\ e # g
      BY DEF RowsInLine
    <2>2. e < g
      BY <1>6, <2>1 DEF Generations
    <2>3. Exists(g)
      BY DEF Quiet, Exists
    <2> QED BY <2>2, <2>3 DEF OneOpenCheck, Generations
  <1>13. Kept
    BY <1>0, <1>2, <1>4, Zeros DEF Kept, RowKept, Written, Quiet, Exists
  <1> QED BY <1>9, <1>10, <1>11, <1>12, <1>13

LEMMA InsertNextStep ==
  ASSUME AttemptInv, NEW h \in Handlers, InsertNext(h)
  PROVE  AttemptInv'
  <1>0. UNCHANGED <<checkOf, sending, newest, work, moved, admitted, halts, receipts>>
    BY DEF InsertNext, rest, gitHub
  <1>1. OtherTypes' /\ PlanTypes' /\ PlansCarried'
    BY <1>0, PlansStay DEF AttemptInv, OtherTypes
  <1>2. PICK me \in Requests :
          /\ me = handler[h] /\ RequestOK(me)
          /\ me.gen \in Generations /\ me.attempt \in Attempts /\ me.read \in CheckRows
          /\ me.kind \in Kinds /\ rows[me.gen] \in CheckRows
    BY Requester
  <1> DEFINE next == me.gen + 1
             free == next \in Generations /\ ~Exists(next) /\ BoundTo(me.attempt) = {}
  <1>3. /\ me.at = "insert" /\ Quiet(me.gen) /\ me.gen \notin sending /\ checkOf[me.gen] # "open"
        /\ (me.kind = "report" => work[me.attempt].plan = "none")
        /\ (me.kind = "submit" => work[me.attempt].plan = "visual")
    BY <1>2 DEF InsertNext, At, RequestOK, PlaceOK
  <1>4. /\ rows' = IF free
                     THEN [rows EXCEPT ![next] =
                            [state |-> "pending", attempt |-> me.attempt, plan |-> "unknown"]]
                     ELSE rows
        /\ IF next \in Generations /\ rows'[next].attempt = me.attempt
             THEN To(h, "bind") ELSE Over(h)
    BY <1>2 DEF InsertNext, Gen, Me
  <1>5. ChecksOK' /\ Kept
    <2>1. CASE free
      <3>1. PICK n \in Generations : n = next
        BY <2>1
      <3> QED BY <1>0, <1>2, <1>3, <1>4, <2>1, <3>1, NextRow
    <2>2. CASE ~free
      BY <1>0, <1>4, <2>2, StillChecks
    <2> QED BY <2>1, <2>2
  <1>6. CASE Over(h)
    BY <1>1, <1>5, <1>6, OverStep
  <1>7. CASE ~Over(h)
    <2>1. next \in Generations /\ rows'[next].attempt = me.attempt /\ To(h, "bind")
      BY <1>4, <1>7
    <2>2. PICK n \in Generations : n = next /\ rows'[n].attempt = me.attempt
      BY <2>1
    <2>3. rows'[n].state # "absent"
      BY <1>2, <1>5, <2>2, Zeros DEF ChecksOK, RowsInLine, Exists
    <2>4. n \in BoundTo(me.attempt)'
      BY <2>2, <2>3 DEF BoundTo, Exists
    <2>5. Sets(h, Placed(me, "bind", me.gen, me.read))
      <3>1. RequestTypes /\ "bind" \in HandlerPlaces
        BY DEF AttemptInv, HandlerPlaces
      <3> QED BY <1>2, <2>1, <3>1, Moves
    <2>6. me.read.state \in {"absent", "pending"} \/ Written(me.gen)'
      BY <1>3, <1>5, <1>2 DEF Kept, RowKept, Quiet, Written
    <2>7. PlaceOK("bind", me.kind, me.attempt, me.gen, me.read)'
      BY <1>0, <1>3, <2>4, <2>6 DEF PlaceOK, Unready
    <2> QED BY <1>1, <1>2, <1>5, <2>5, <2>7, PlaceStep DEF HandlerPlaces
  <1> QED BY <1>6, <1>7

-----------------------------------------------------------------------------
(* The Plan of the attempt.                                                *)
LEMMA RecordedPlan ==
  ASSUME AttemptInv, NEW a \in Attempts
  PROVE  PlanOf(a) \in Plans /\ (PlanOf(a) = "none" => work[a].plan = "none")
  <1>1. CASE BoundTo(a) = {}
    BY <1>1 DEF PlanOf, Plans
  <1>2. CASE BoundTo(a) # {}
    <2>1. PICK g \in BoundTo(a) : PlanOf(a) = rows[g].plan
      BY <1>2 DEF PlanOf
    <2>2. g \in Generations /\ rows[g].attempt = a /\ rows[g] \in CheckRows
      BY DEF BoundTo, AttemptInv, ChecksOK, RowTypes
    <2> QED BY <2>1, <2>2 DEF AttemptInv, ChecksOK, NonePlanned, CheckRows
  <1> QED BY <1>1, <1>2

(* A Plan is written on a row that is active.                              *)
LEMMA PlanWritten ==
  ASSUME AttemptInv, NEW g \in Generations, NEW p \in Plans,
         rows' = [rows EXCEPT ![g].plan = p], UNCHANGED <<checkOf, sending, admitted>>,
         rows[g].state = "active", rows[g].plan = "none" => p = "none",
         p = "none" => rows[g].attempt \in Attempts /\ work[rows[g].attempt].plan = "none",
         \A a \in Attempts : work[a].plan # "unknown" => work'[a].plan = work[a].plan
  PROVE  ChecksOK' /\ Kept /\ rows'[g].attempt = rows[g].attempt
  <1> DEFINE r == [rows[g] EXCEPT !.plan = p]
  <1>0. rows[g] \in CheckRows
    BY DEF AttemptInv, ChecksOK, RowTypes
  <1>1. r \in CheckRows /\ r.state = "active" /\ r.attempt = rows[g].attempt /\ r.plan = p
    BY <1>0, CheckRowWritten
  <1>2. rows' = [rows EXCEPT ![g] = r]
    OBVIOUS
  <1> HIDE DEF r
  <1>3. ChecksOK' /\ Kept
    BY <1>1, <1>2, RowChanges DEF Written, Quiet
  <1>4. rows'[g] = r
    BY <1>2 DEF AttemptInv, ChecksOK, RowTypes
  <1> QED BY <1>1, <1>3, <1>4

LEMMA AfterPlanPlaces ==
  ASSUME NEW h \in Handlers
  PROVE  /\ AfterPlan(h) \in {"record", "report", "decide"}
         /\ AfterPlan(h) = "report" => handler[h].kind = "report"
         /\ AfterPlan(h) = "record" => handler[h].kind = "submit"
  BY DEF AfterPlan

LEMMA InheritStep ==
  ASSUME AttemptInv, NEW h \in Handlers, Inherit(h)
  PROVE  AttemptInv'
  <1>0. UNCHANGED <<checkOf, sending, newest, work, moved, admitted, halts, receipts>>
    BY DEF Inherit, rest, gitHub
  <1>1. OtherTypes' /\ PlanTypes' /\ PlansCarried'
    BY <1>0, PlansStay DEF AttemptInv, OtherTypes
  <1>2. PICK me \in Requests :
          /\ me = handler[h] /\ RequestOK(me)
          /\ me.gen \in Generations /\ me.attempt \in Attempts /\ me.read \in CheckRows
          /\ me.kind \in Kinds /\ rows[me.gen] \in CheckRows
    BY Requester
  <1>3. /\ me.at = "inherit" /\ rows[me.gen].attempt = me.attempt
        /\ (me.kind = "report" => work[me.attempt].plan = "none")
        /\ (me.kind = "submit" => work[me.attempt].plan = "visual")
    BY <1>2 DEF Inherit, At, RequestOK, PlaceOK
  <1>4. CASE Forget(h, AfterPlan(h)) /\ UNCHANGED rows
    <2>1. ChecksOK' /\ Kept
      BY <1>0, <1>4, StillChecks
    <2>2. PICK x \in {"record", "report", "decide"} : x = AfterPlan(h)
      BY AfterPlanPlaces
    <2>3. PlaceOK(x, me.kind, me.attempt, me.gen, me.read)'
      BY <1>0, <1>2, <1>3, <1>4, <2>2, AfterPlanPlaces DEF PlaceOK
    <2> QED BY <1>1, <1>2, <1>4, <2>1, <2>2, <2>3, MoveStep DEF HandlerPlaces
  <1>5. CASE ~(Forget(h, AfterPlan(h)) /\ UNCHANGED rows)
    <2> DEFINE free == rows[me.gen].state = "active" /\ rows[me.gen].plan = "unknown"
    <2>1. PICK b \in PriorPlan(me.attempt) :
            /\ rows' = IF Execution(b, me.attempt) = "carried" /\ free
                         THEN [rows EXCEPT ![me.gen].plan = PlanOf(b)] ELSE rows
            /\ CASE Execution(b, me.attempt) = "changed" -> Over(h)
                 [] Execution(b, me.attempt) = "carried" /\ free /\ PlanOf(b) = "none" ->
                      Forget(h, "noVisual")
                 [] OTHER -> Forget(h, AfterPlan(h))
      BY <1>2, <1>5 DEF Inherit, Me, Gen
    <2>2. b \in Attempts
      BY <1>2, <2>1, AttemptsAssumption DEF PriorPlan, Attempts
    <2>3. ChecksOK' /\ Kept /\ rows'[me.gen].attempt = rows[me.gen].attempt
      <3>1. CASE ~(Execution(b, me.attempt) = "carried" /\ free)
        BY <1>0, <2>1, <3>1, StillChecks
      <3>2. CASE Execution(b, me.attempt) = "carried" /\ free
        <4>1. work[me.attempt].source = work[b].source
          BY <3>2 DEF Execution
        <4>2. PICK p \in Plans : p = PlanOf(b)
          BY <2>2, RecordedPlan
        <4>3. p = "none" => work[me.attempt].plan = "none"
          <5>1. p = "none" => work[b].plan = "none"
            BY <2>2, <4>2, RecordedPlan
          <5>2. work[me.attempt].plan = work[b].plan
            BY <1>2, <2>2, <4>1 DEF AttemptInv, PlansCarried
          <5> QED BY <5>1, <5>2
        <4>4. rows' = [rows EXCEPT ![me.gen].plan = p]
          BY <2>1, <3>2, <4>2
        <4> QED BY <1>0, <1>2, <1>3, <3>2, <4>3, <4>4, PlanWritten
      <3> QED BY <3>1, <3>2
    <2>4. CASE Over(h)
      BY <1>1, <2>3, <2>4, OverStep
    <2>5. CASE ~Over(h)
      <3>1. PICK x \in {"noVisual", "record", "report", "decide"} :
              /\ Forget(h, x)
              /\ (x = "report" => me.kind = "report") /\ (x = "record" => me.kind = "submit")
        BY <1>2, <2>1, <2>5, AfterPlanPlaces
      <3>2. PlaceOK(x, me.kind, me.attempt, me.gen, me.read)'
        BY <1>0, <1>3, <2>3, <3>1 DEF PlaceOK
      <3> QED BY <1>1, <1>2, <2>3, <3>1, <3>2, MoveStep DEF HandlerPlaces
    <2> QED BY <2>4, <2>5
  <1> QED BY <1>4, <1>5

LEMMA RecordVisualStep ==
  ASSUME AttemptInv, NEW h \in Handlers, RecordVisual(h)
  PROVE  AttemptInv'
  <1>0. UNCHANGED <<checkOf, sending, newest, moved, admitted, halts, receipts>> /\ Over(h)
    BY DEF RecordVisual, rest, gitHub
  <1>2. PICK me \in Requests :
          /\ me = handler[h] /\ RequestOK(me)
          /\ me.gen \in Generations /\ me.attempt \in Attempts /\ me.read \in CheckRows
          /\ me.kind \in Kinds /\ rows[me.gen] \in CheckRows
    BY Requester
  <1>3. OtherTypes' /\ work \in [Attempts -> Works]
    BY <1>0 DEF AttemptInv, OtherTypes, PlanTypes
  <1>4. CASE rows[me.gen].state = "active" /\ rows[me.gen].plan # "none"
    <2>1. rows' = [rows EXCEPT ![me.gen].plan = "visual"]
      BY <1>2, <1>4 DEF RecordVisual, Gen
    <2>2. PICK succeeds \in BOOLEAN :
            work' = [work EXCEPT ![me.attempt].submitted = @ \/ succeeds]
      BY <1>2, <1>4 DEF RecordVisual, Gen, Me
    <2> DEFINE old == work[me.attempt]
               w == [old EXCEPT !.submitted = old.submitted \/ succeeds]
    <2>3. old \in Works
      BY <1>2, <1>3
    <2>4. w \in Works /\ w.plan = old.plan /\ w.source = old.source
      BY <2>3 DEF Works
    <2>5. work' = [work EXCEPT ![me.attempt] = w]
      BY <2>2
    <2> HIDE DEF w
    <2>6. /\ work' \in [Attempts -> Works]
          /\ \A a \in Attempts : work'[a].plan = work[a].plan /\ work'[a].source = work[a].source
      BY <1>2, <1>3, <2>4, <2>5
    <2>7. PlanTypes' /\ PlansCarried'
      BY <1>0, <2>6, WorkStays
    <2>8. ChecksOK' /\ Kept
      BY <1>0, <1>2, <1>4, <2>1, <2>6, PlanWritten DEF Plans
    <2> QED BY <1>0, <1>3, <2>7, <2>8, OverStep
  <1>5. CASE ~(rows[me.gen].state = "active" /\ rows[me.gen].plan # "none")
    <2>1. UNCHANGED <<rows, work>>
      BY <1>2, <1>5 DEF RecordVisual, Gen
    <2> QED BY <1>0, <1>3, <2>1, StillChecks, OverStep
  <1> QED BY <1>4, <1>5

LEMMA RecordNoneStep ==
  ASSUME AttemptInv, NEW h \in Handlers, RecordNone(h)
  PROVE  AttemptInv'
  <1>0. UNCHANGED <<checkOf, sending, newest, work, moved, admitted, halts, receipts>>
    BY DEF RecordNone, rest, gitHub
  <1>1. OtherTypes' /\ PlanTypes' /\ PlansCarried'
    BY <1>0, PlansStay DEF AttemptInv, OtherTypes
  <1>2. PICK me \in Requests :
          /\ me = handler[h] /\ RequestOK(me)
          /\ me.gen \in Generations /\ me.attempt \in Attempts /\ me.read \in CheckRows
          /\ me.kind \in Kinds /\ rows[me.gen] \in CheckRows
    BY Requester
  <1>3. /\ me.at = "report" /\ rows[me.gen].attempt = me.attempt /\ me.kind = "report"
        /\ work[me.attempt].plan = "none"
    BY <1>2 DEF RecordNone, At, RequestOK, PlaceOK
  <1>4. CASE rows[me.gen].state = "active" /\ rows[me.gen].plan # "visual"
    <2>1. rows' = [rows EXCEPT ![me.gen].plan = "none"] /\ To(h, "noVisual")
      BY <1>2, <1>4 DEF RecordNone, Gen
    <2>2. ChecksOK' /\ Kept
      BY <1>0, <1>2, <1>3, <1>4, <2>1, PlanWritten DEF Plans
    <2>3. PlaceOK("noVisual", me.kind, me.attempt, me.gen, me.read)'
      BY <1>0, <1>3 DEF PlaceOK
    <2> QED BY <1>1, <1>2, <2>1, <2>2, <2>3, MoveStep DEF HandlerPlaces
  <1>5. CASE ~(rows[me.gen].state = "active" /\ rows[me.gen].plan # "visual")
    <2>1. Over(h) /\ UNCHANGED rows
      BY <1>2, <1>5 DEF RecordNone, Gen
    <2> QED BY <1>0, <1>1, <2>1, StillChecks, OverStep
  <1> QED BY <1>4, <1>5

LEMMA ReadNoneStep ==
  ASSUME AttemptInv, NEW h \in Handlers, ReadNone(h)
  PROVE  AttemptInv'
  <1>0. UNCHANGED <<rows, checkOf, sending, newest, work, moved, admitted, halts, receipts>>
    BY DEF ReadNone, Reads, rest, gitHub
  <1>1. OtherTypes' /\ PlanTypes' /\ PlansCarried' /\ ChecksOK' /\ Kept
    BY <1>0, StillChecks DEF AttemptInv, OtherTypes
  <1>2. PICK me \in Requests :
          /\ me = handler[h] /\ RequestOK(me)
          /\ me.gen \in Generations /\ me.attempt \in Attempts /\ me.read \in CheckRows
          /\ me.kind \in Kinds /\ rows[me.gen] \in CheckRows
    BY Requester
  <1>3. /\ me.at = "noVisual"
        /\ (me.kind = "report" => work[me.attempt].plan = "none")
        /\ (me.kind = "submit" => work[me.attempt].plan = "visual")
    BY <1>2 DEF ReadNone, At, RequestOK, PlaceOK
  <1>4. \/ Over(h) \/ To(h, "decide")
        \/ To(h, "patchPassed") /\ rows[me.gen].plan = "none"
    BY <1>2 DEF ReadNone, AfterNone, Gen
  <1>5. CASE Over(h)
    BY <1>1, <1>5, OverStep
  <1>6. CASE ~Over(h)
    <2>1. PICK x \in {"decide", "patchPassed"} :
            To(h, x) /\ (x = "patchPassed" => rows[me.gen].plan = "none")
      BY <1>4, <1>6
    <2>2. PlaceOK(x, me.kind, me.attempt, me.gen, me.read)'
      BY <1>0, <1>3, <2>1 DEF PlaceOK
    <2> QED BY <1>1, <1>2, <2>1, <2>2, MoveStep DEF HandlerPlaces
  <1> QED BY <1>5, <1>6

LEMMA PatchPassedStep ==
  ASSUME AttemptInv, NEW h \in Handlers, PatchPassed(h)
  PROVE  AttemptInv'
  <1>0. UNCHANGED <<rows, sending, newest, work, moved, admitted, halts, receipts>>
    BY DEF PatchPassed, rest, gitHub
  <1>1. OtherTypes' /\ PlanTypes' /\ PlansCarried'
    BY <1>0, PlansStay DEF AttemptInv, OtherTypes
  <1>2. PICK me \in Requests :
          /\ me = handler[h] /\ RequestOK(me)
          /\ me.gen \in Generations /\ me.attempt \in Attempts /\ me.read \in CheckRows
          /\ me.kind \in Kinds /\ rows[me.gen] \in CheckRows
    BY Requester
  <1>3. /\ me.at = "patchPassed"
        /\ (me.kind = "report" => work[me.attempt].plan = "none")
        /\ (me.kind = "submit" => work[me.attempt].plan = "visual")
        /\ rows[me.gen].plan = "none" /\ Patch(me.gen, "success") /\ To(h, "passed")
    BY <1>2 DEF PatchPassed, At, Gen, RequestOK, PlaceOK
  <1>4. Exists(me.gen)
    BY <1>2, <1>3, Zeros DEF AttemptInv, ChecksOK, RowsInLine
  <1>5. ChecksOK' /\ Kept
    BY <1>0, <1>2, <1>3, <1>4, CheckChanges DEF Results, Shown
  <1>6. PlaceOK("passed", me.kind, me.attempt, me.gen, me.read)'
    BY <1>0, <1>3 DEF PlaceOK
  <1> QED BY <1>1, <1>2, <1>3, <1>5, <1>6, MoveStep DEF HandlerPlaces

LEMMA CompleteNoneStep ==
  ASSUME AttemptInv, NEW h \in Handlers, CompleteNone(h)
  PROVE  AttemptInv'
  <1>0. UNCHANGED <<checkOf, sending, newest, work, moved, admitted, halts, receipts>>
    BY DEF CompleteNone, rest, gitHub
  <1>1. OtherTypes' /\ PlanTypes' /\ PlansCarried'
    BY <1>0, PlansStay DEF AttemptInv, OtherTypes
  <1>2. PICK me \in Requests :
          /\ me = handler[h] /\ RequestOK(me)
          /\ me.gen \in Generations /\ me.attempt \in Attempts /\ me.read \in CheckRows
          /\ me.kind \in Kinds /\ rows[me.gen] \in CheckRows
    BY Requester
  <1>3. /\ me.at = "passed"
        /\ (me.kind = "report" => work[me.attempt].plan = "none")
        /\ (me.kind = "submit" => work[me.attempt].plan = "visual")
        /\ SetState(me.gen, "active", "docs_complete")
    BY <1>2 DEF CompleteNone, At, Gen, RequestOK, PlaceOK
  <1>4. ChecksOK' /\ Kept
    BY <1>0, <1>2, <1>3, SetStateStep
  <1>5. PlaceOK("decide", me.kind, me.attempt, me.gen, me.read)'
    BY <1>0, <1>3 DEF PlaceOK
  <1>6. To(h, "decide") \/ Over(h)
    BY DEF CompleteNone, AfterNone
  <1> QED BY <1>1, <1>2, <1>4, <1>5, <1>6, MoveStep, OverStep DEF HandlerPlaces

-----------------------------------------------------------------------------
(* The delivery of the end of an attempt.                                  *)
LEMMA DeliverEndStep ==
  ASSUME AttemptInv, NEW h \in Handlers, NEW a \in Attempts, DeliverEnd(h, a)
  PROVE  AttemptInv'
  <1>0. UNCHANGED <<rows, checkOf, sending, newest, work, moved, admitted, halts>>
    BY DEF DeliverEnd, rest, gitHub
  <1>1. OtherTypes' /\ PlanTypes' /\ PlansCarried' /\ ChecksOK' /\ Kept
    BY <1>0, StillChecks DEF DeliverEnd, AttemptInv, OtherTypes
  <1>2. CASE UNCHANGED handler
    BY <1>1, <1>2, NobodyMoves
  <1>3. CASE ~UNCHANGED handler
    <2> DEFINE u == [HandlerIdle EXCEPT !.at = "settle"]
               v == [u EXCEPT !.attempt = a]
    <2>1. handler' = [handler EXCEPT ![h] = [HandlerIdle EXCEPT !.at = "settle", !.attempt = a]]
      BY <1>3 DEF DeliverEnd
    <2>2. [HandlerIdle EXCEPT !.at = "settle", !.attempt = a] = v
      BY Zenon
    <2>3. u = [at |-> "settle", kind |-> "settle", attempt |-> 1, gen |-> 0, read |-> NoCheckRow]
      BY DEF HandlerIdle
    <2> HIDE DEF u
    <2>4. v = [at |-> "settle", kind |-> "settle", attempt |-> a, gen |-> 0, read |-> NoCheckRow]
      BY <2>3
    <2> HIDE DEF v
    <2>5. v \in Requests
      BY <2>4, Zeros DEF Requests, HandlerPlaces, Kinds
    <2>6. PICK me \in Requests : me = v
      BY <2>5
    <2>7. RequestOK(me)'
      BY <2>4, <2>6 DEF RequestOK, PlaceOK
    <2> QED BY <1>1, <2>1, <2>2, <2>6, <2>7, RequestStep
  <1> QED BY <1>2, <1>3

LEMMA CandidateStep ==
  ASSUME AttemptInv, NEW h \in Handlers, Candidate(h)
  PROVE  AttemptInv'
  <1>0. UNCHANGED <<rows, checkOf, sending, newest, work, moved, admitted, halts>>
    BY DEF Candidate, rest, gitHub
  <1>1. OtherTypes' /\ PlanTypes' /\ PlansCarried' /\ ChecksOK' /\ Kept
    BY <1>0, StillChecks DEF Candidate, Continue, AttemptInv, OtherTypes, Acknowledge, Throws, Later
  <1>2. PICK me \in Requests :
          /\ me = handler[h] /\ RequestOK(me)
          /\ me.gen \in Generations /\ me.attempt \in Attempts /\ me.read \in CheckRows
          /\ me.kind \in Kinds /\ rows[me.gen] \in CheckRows
    BY Requester
  <1>3. /\ me.at = "settle"
        /\ (me.kind = "report" => work[me.attempt].plan = "none")
        /\ (me.kind = "submit" => work[me.attempt].plan = "visual")
    BY <1>2 DEF Candidate, At, RequestOK, PlaceOK
  <1>4. CASE Over(h)
    BY <1>1, <1>4, OverStep
  <1>5. CASE To(h, "moved")
    <2>1. PlaceOK("moved", me.kind, me.attempt, me.gen, me.read)'
      BY <1>0, <1>3 DEF PlaceOK
    <2> QED BY <1>1, <1>2, <1>5, <2>1, MoveStep DEF HandlerPlaces
  <1>6. CASE ~Over(h) /\ ~To(h, "moved")
    <2>1. Continue(h, "bind", Latest)
      BY <1>6 DEF Candidate, Acknowledge, Later
    <2>2. Latest \in Generations /\ Exists(Latest)
      BY LatestIsThere DEF AttemptInv, ChecksOK, RowsInLine
    <2>3. PICK g \in Generations : g = Latest /\ Exists(g)
      BY <2>2
    <2>4. PICK r \in CheckRows : r = rows[g]
      BY DEF AttemptInv, ChecksOK, RowTypes
    <2>5. TurnsTo(h, "bind", g, r)
      BY <2>1, <2>3, <2>4 DEF Continue, TurnsTo
    <2>6. Sets(h, Placed(me, "bind", g, r))
      <3>1. RequestTypes /\ "bind" \in HandlerPlaces
        BY DEF AttemptInv, HandlerPlaces
      <3> QED BY <1>2, <2>5, <3>1, Moves
    <2>7. r.state \in CheckRowStates
      BY DEF CheckRows
    <2>8. r.state \in Unready \/ Written(g)'
      BY <1>0, <2>3, <2>4, <2>7 DEF Exists, Written, CheckRowStates, Unready
    <2>9. PlaceOK("bind", me.kind, me.attempt, g, r)'
      BY <1>0, <1>3, <2>8 DEF PlaceOK
    <2> QED BY <1>1, <1>2, <2>6, <2>9, PlaceStep DEF HandlerPlaces
  <1> QED BY <1>4, <1>5, <1>6

LEMMA DecideStep ==
  ASSUME AttemptInv, NEW h \in Handlers, Decide(h)
  PROVE  AttemptInv'
  <1>0. UNCHANGED <<rows, checkOf, sending, newest, work, moved, admitted, halts>>
    BY DEF Decide, rest, gitHub
  <1>1. OtherTypes' /\ PlanTypes' /\ PlansCarried' /\ ChecksOK' /\ Kept
    BY <1>0, StillChecks DEF Decide, AttemptInv, OtherTypes, Acknowledge, Throws, Later
  <1>2. PICK me \in Requests :
          /\ me = handler[h] /\ RequestOK(me)
          /\ me.gen \in Generations /\ me.attempt \in Attempts /\ me.read \in CheckRows
          /\ me.kind \in Kinds /\ rows[me.gen] \in CheckRows
    BY Requester
  <1>3. /\ me.at = "decide"
        /\ (me.kind = "report" => work[me.attempt].plan = "none")
        /\ (me.kind = "submit" => work[me.attempt].plan = "visual")
    BY <1>2 DEF Decide, At, RequestOK, PlaceOK
  <1>4. CASE Over(h)
    BY <1>1, <1>4, OverStep
  <1>5. CASE ~Over(h)
    <2>1. PICK x \in {"failed", "patchFailed"} : To(h, x) /\ rows[me.gen].state = "active"
      BY <1>2, <1>5 DEF Decide, Acknowledge, Later, Throws, Gen, Me
    <2>2. PlaceOK(x, me.kind, me.attempt, me.gen, me.read)'
      BY <1>0, <1>3, <2>1 DEF PlaceOK, Written
    <2> QED BY <1>1, <1>2, <2>1, <2>2, MoveStep DEF HandlerPlaces
  <1> QED BY <1>4, <1>5

LEMMA FailCheckStep ==
  ASSUME AttemptInv, NEW h \in Handlers, FailCheck(h)
  PROVE  AttemptInv'
  <1>0. UNCHANGED <<rows, sending, newest, work, moved, admitted, halts, receipts>>
    BY DEF FailCheck, rest, gitHub
  <1>1. OtherTypes' /\ PlanTypes' /\ PlansCarried'
    BY <1>0, PlansStay DEF AttemptInv, OtherTypes
  <1>2. PICK me \in Requests :
          /\ me = handler[h] /\ RequestOK(me)
          /\ me.gen \in Generations /\ me.attempt \in Attempts /\ me.read \in CheckRows
          /\ me.kind \in Kinds /\ rows[me.gen] \in CheckRows
    BY Requester
  <1>3. /\ me.at = "patchFailed"
        /\ (me.kind = "report" => work[me.attempt].plan = "none")
        /\ (me.kind = "submit" => work[me.attempt].plan = "visual")
        /\ Exists(me.gen) /\ Patch(me.gen, "failure") /\ To(h, "failed")
    BY <1>2 DEF FailCheck, At, Gen, RequestOK, PlaceOK, Written, Exists
  <1>5. ChecksOK' /\ Kept
    BY <1>0, <1>2, <1>3, CheckChanges DEF Results, Shown
  <1>6. PlaceOK("failed", me.kind, me.attempt, me.gen, me.read)'
    BY <1>0, <1>3 DEF PlaceOK
  <1> QED BY <1>1, <1>2, <1>3, <1>5, <1>6, MoveStep DEF HandlerPlaces

LEMMA StoreFailedStep ==
  ASSUME AttemptInv, NEW h \in Handlers, StoreFailed(h)
  PROVE  AttemptInv'
  <1>0. UNCHANGED <<checkOf, sending, newest, work, moved, admitted, halts>>
    BY DEF StoreFailed, rest, gitHub
  <1>1. OtherTypes' /\ PlanTypes' /\ PlansCarried' /\ Over(h)
    BY <1>0, PlansStay DEF StoreFailed, Acknowledge, AttemptInv, OtherTypes
  <1>2. PICK me \in Requests :
          /\ me = handler[h] /\ RequestOK(me)
          /\ me.gen \in Generations /\ me.attempt \in Attempts /\ me.read \in CheckRows
          /\ me.kind \in Kinds /\ rows[me.gen] \in CheckRows
    BY Requester
  <1>3. SetState(me.gen, "active", "failed")
    BY <1>2 DEF StoreFailed, Gen
  <1> QED BY <1>0, <1>1, <1>2, <1>3, SetStateStep, OverStep

LEMMA SettleSupersededStep ==
  ASSUME AttemptInv, NEW h \in Handlers, SettleSuperseded(h)
  PROVE  AttemptInv'
  <1>0. UNCHANGED <<rows, checkOf, sending, newest, work, moved, admitted, halts>>
    BY DEF SettleSuperseded, rest, gitHub
  <1>1. OtherTypes' /\ PlanTypes' /\ PlansCarried' /\ ChecksOK' /\ Kept
    BY <1>0, StillChecks DEF SettleSuperseded, AttemptInv, OtherTypes, Acknowledge, Throws, Later
  <1>2. PICK me \in Requests :
          /\ me = handler[h] /\ RequestOK(me)
          /\ me.gen \in Generations /\ me.attempt \in Attempts /\ me.read \in CheckRows
          /\ me.kind \in Kinds /\ rows[me.gen] \in CheckRows
    BY Requester
  <1>3. /\ me.at = "moved"
        /\ (me.kind = "report" => work[me.attempt].plan = "none")
        /\ (me.kind = "submit" => work[me.attempt].plan = "visual")
    BY <1>2 DEF SettleSuperseded, At, RequestOK, PlaceOK
  <1>4. CASE Over(h)
    BY <1>1, <1>4, OverStep
  <1>5. CASE ~Over(h)
    <2>1. PICK g \in BoundTo(me.attempt) : Turns(h, "retire", g)
      BY <1>2, <1>5 DEF SettleSuperseded, Acknowledge, Throws, Me, Turns
    <2>2. g \in Generations
      BY DEF BoundTo
    <2>3. Sets(h, Placed(me, "retire", g, me.read))
      <3>1. RequestTypes /\ "retire" \in HandlerPlaces
        BY DEF AttemptInv, HandlerPlaces
      <3> QED BY <1>2, <2>1, <2>2, <3>1, Moves
    <2>4. PlaceOK("retire", me.kind, me.attempt, g, me.read)'
      BY <1>0, <1>3 DEF PlaceOK
    <2> QED BY <1>1, <1>2, <2>2, <2>3, <2>4, PlaceStep DEF HandlerPlaces
  <1> QED BY <1>4, <1>5

LEMMA FenceRetiredStep ==
  ASSUME AttemptInv, NEW h \in Handlers, FenceRetired(h)
  PROVE  AttemptInv'
  <1>0. UNCHANGED <<checkOf, sending, newest, work, moved, admitted, halts, receipts>>
    BY DEF FenceRetired, rest, gitHub
  <1>1. OtherTypes' /\ PlanTypes' /\ PlansCarried'
    BY <1>0, PlansStay DEF AttemptInv, OtherTypes
  <1>2. PICK me \in Requests :
          /\ me = handler[h] /\ RequestOK(me)
          /\ me.gen \in Generations /\ me.attempt \in Attempts /\ me.read \in CheckRows
          /\ me.kind \in Kinds /\ rows[me.gen] \in CheckRows
    BY Requester
  <1>3. /\ me.at = "retire"
        /\ (me.kind = "report" => work[me.attempt].plan = "none")
        /\ (me.kind = "submit" => work[me.attempt].plan = "visual")
    BY <1>2 DEF FenceRetired, At, RequestOK, PlaceOK
  <1> DEFINE free == rows[me.gen].state = "active" /\ ~Sender(me.gen)
  <1>4. ChecksOK' /\ Kept
    <2>1. CASE free
      <3>1. SetState(me.gen, "active", "failed")
        BY <1>2, <2>1 DEF FenceRetired, Gen, SetState
      <3> QED BY <1>0, <1>2, <3>1, SetStateStep
    <2>2. CASE ~free
      <3>1. UNCHANGED rows
        BY <1>2, <2>2 DEF FenceRetired, Gen
      <3> QED BY <1>0, <3>1, StillChecks
    <2> QED BY <2>1, <2>2
  <1>5. CASE Over(h)
    BY <1>1, <1>4, <1>5, OverStep
  <1>6. CASE ~Over(h)
    <2>1. To(h, "readRetired") /\ rows[me.gen].state \in {"active", "failed"}
      BY <1>2, <1>6 DEF FenceRetired, Gen
    <2>2. Written(me.gen)'
      BY <1>2, <1>4, <2>1 DEF Kept, RowKept, Written
    <2>3. PlaceOK("readRetired", me.kind, me.attempt, me.gen, me.read)'
      BY <1>0, <1>3, <2>2 DEF PlaceOK
    <2> QED BY <1>1, <1>2, <1>4, <2>1, <2>3, MoveStep DEF HandlerPlaces
  <1> QED BY <1>5, <1>6

LEMMA ReadRetiredStep ==
  ASSUME AttemptInv, NEW h \in Handlers, ReadRetired(h)
  PROVE  AttemptInv'
  <1>0. UNCHANGED <<rows, checkOf, sending, newest, work, moved, admitted, halts>>
    BY DEF ReadRetired, rest, gitHub
  <1>1. OtherTypes' /\ PlanTypes' /\ PlansCarried' /\ ChecksOK' /\ Kept
    BY <1>0, StillChecks DEF ReadRetired, AttemptInv, OtherTypes, Acknowledge, Throws, Later
  <1>2. PICK me \in Requests :
          /\ me = handler[h] /\ RequestOK(me)
          /\ me.gen \in Generations /\ me.attempt \in Attempts /\ me.read \in CheckRows
          /\ me.kind \in Kinds /\ rows[me.gen] \in CheckRows
    BY Requester
  <1>3. /\ me.at = "readRetired"
        /\ (me.kind = "report" => work[me.attempt].plan = "none")
        /\ (me.kind = "submit" => work[me.attempt].plan = "visual")
        /\ Written(me.gen)
    BY <1>2 DEF ReadRetired, At, RequestOK, PlaceOK
  <1>4. Over(h) \/ To(h, "patchRetired")
    BY DEF ReadRetired, Later, Acknowledge
  <1>5. PlaceOK("patchRetired", me.kind, me.attempt, me.gen, me.read)'
    BY <1>0, <1>3 DEF PlaceOK, Written
  <1> QED BY <1>1, <1>2, <1>4, <1>5, MoveStep, OverStep DEF HandlerPlaces

LEMMA FailRetiredStep ==
  ASSUME AttemptInv, NEW h \in Handlers, FailRetired(h)
  PROVE  AttemptInv'
  <1>0. UNCHANGED <<rows, sending, newest, work, moved, admitted, halts>>
    BY DEF FailRetired, rest, gitHub
  <1>1. OtherTypes' /\ PlanTypes' /\ PlansCarried' /\ Over(h)
    BY <1>0, PlansStay DEF FailRetired, Acknowledge, AttemptInv, OtherTypes
  <1>2. PICK me \in Requests :
          /\ me = handler[h] /\ RequestOK(me)
          /\ me.gen \in Generations /\ me.attempt \in Attempts /\ me.read \in CheckRows
          /\ me.kind \in Kinds /\ rows[me.gen] \in CheckRows
    BY Requester
  <1>3. Exists(me.gen) /\ Patch(me.gen, "failure")
    BY <1>2 DEF FailRetired, At, Gen, RequestOK, PlaceOK, Written, Exists
  <1>4. ChecksOK' /\ Kept
    BY <1>0, <1>2, <1>3, CheckChanges DEF Results, Shown
  <1> QED BY <1>1, <1>4, OverStep

(* A request that stops leaves what it wrote.                              *)
LEMMA HaltStep ==
  ASSUME AttemptInv, NEW h \in Handlers, Halt(h)
  PROVE  AttemptInv'
  <1>0. UNCHANGED <<rows, checkOf, sending, newest, work, moved, admitted, receipts>> /\ Over(h)
    BY DEF Halt, gitHub
  <1>1. OtherTypes'
    BY <1>0, AttemptsAssumption DEF Halt, AttemptInv, OtherTypes
  <1> QED BY <1>0, <1>1, StillChecks, OverStep

-----------------------------------------------------------------------------
LEMMA AttemptsStart == AInit => AttemptInv
  <1> SUFFICES ASSUME AInit PROVE AttemptInv
    OBVIOUS
  <1> DEFINE first == [NoCheckRow EXCEPT !.state = "pending"]
  <1>1. /\ first \in CheckRows /\ first.state = "pending" /\ first.attempt = 0
        /\ first.plan = "unknown"
    BY Zeros DEF NoCheckRow, CheckRows, CheckRowStates, Plans
  <1>2. rows = [g \in Generations |-> IF g = 0 THEN first ELSE NoCheckRow]
    BY DEF AInit
  <1> HIDE DEF first
  <1>3. checkOf = [g \in Generations |-> "none"] /\ sending = {} /\ admitted = {} /\ receipts = {}
        /\ newest = 1 /\ moved = FALSE /\ halts = 0
        /\ handler = [h \in Handlers |-> HandlerIdle]
    BY DEF AInit
  <1>4. \A g \in Generations : Exists(g) <=> g = 0
    BY <1>1, <1>2, Zeros DEF Exists
  <1>5. ChecksOK
    <2>1. RowTypes
      BY <1>1, <1>2, <1>3, Zeros DEF RowTypes, Shown
    <2>2. \A g \in Generations : g # 0 => g > 0
      BY DEF Generations
    <2>3. RowsInLine
      BY <1>2, <1>3, <1>4, <2>2, Zeros DEF RowsInLine, Generations
    <2>4. SendersHaveRuns /\ NonePlanned /\ OneOpenCheck /\ PassedByPlan
      BY <1>1, <1>2, <1>3, Zeros DEF SendersHaveRuns, NonePlanned, OneOpenCheck, PassedByPlan
    <2> QED BY <2>1, <2>3, <2>4 DEF ChecksOK
  <1>6. \A a \in Attempts : /\ work[a] \in Works /\ work[a].plan = "unknown"
                            /\ work[a].source = a
    BY DEF AInit, Works, Plans
  <1>7. PlanTypes
    <2>1. work \in [Attempts -> Works]
      BY <1>6 DEF AInit
    <2> QED BY <1>3, <2>1, Zeros DEF PlanTypes
  <1>8. PlansCarried
    <2>1. \A a \in Attempts : a <= a
      BY Zeros
    <2> QED BY <1>6, <2>1 DEF PlansCarried
  <1>9. OtherTypes
    <2>1. halts \in 0..MaxHalts
      BY <1>3, AttemptsAssumption
    <2>2. moved \in BOOLEAN /\ receipts \subseteq Attempts
      BY <1>3
    <2> QED BY <2>1, <2>2 DEF OtherTypes
  <1>10. RequestTypes /\ RequestsOK
    BY <1>3, IdleRequest DEF RequestTypes, RequestsOK, RequestOK, PlaceOK
  <1> QED BY <1>5, <1>7, <1>8, <1>9, <1>10 DEF AttemptInv

LEMMA AttemptsGoOn == AttemptInv /\ [ANext]_attemptVars => AttemptInv'
  <1> SUFFICES ASSUME AttemptInv, [ANext]_attemptVars PROVE AttemptInv'
    OBVIOUS
  <1>1. CASE UNCHANGED attemptVars
    <2>1. /\ UNCHANGED <<rows, checkOf, sending, newest, work, admitted, receipts, moved, halts>>
          /\ UNCHANGED handler
      BY <1>1 DEF attemptVars
    <2>2. OtherTypes'
      BY <2>1 DEF AttemptInv, OtherTypes
    <2> QED BY <2>1, <2>2, StillChecks, NobodyMoves
  <1>2. CASE \/ \E plan \in {"visual", "none"} : PlanRuns(plan)
             \/ EndWorkflow \/ MainMoves
             \/ \E carried \in BOOLEAN : Rerun(carried)
             \/ \E a \in Attempts : Admit(a)
    BY <1>2, PlanRunsStep, WorkflowSteps, RerunStep, AdmitStep
  <1>3. CASE \E g \in Generations :
               PostLands(g) \/ Send(g) \/ \E result \in Results : Land(g, result)
    BY <1>3, PostLandsStep, SendStep, LandStep
  <1>4. ASSUME NEW h \in Handlers,
               \/ \E kind \in {"submit", "report"} : SignedCall(h, kind)
               \/ \E a \in Attempts : DeliverEnd(h, a)
               \/ Halt(h)
        PROVE  AttemptInv'
    BY <1>4, SignedCallStep, DeliverEndStep, HaltStep
  <1>5. ASSUME NEW h \in Handlers,
               \/ EnsureCheck(h) \/ Bind(h) \/ BindUnbound(h) \/ ReadPrevious(h)
               \/ FencePrevious(h) \/ ReadSending(h) \/ ReadSettled(h) \/ ClosePrevious(h)
               \/ InsertNext(h)
        PROVE  AttemptInv'
    BY <1>5, EnsureCheckStep, BindStep, BindUnboundStep, ReadPreviousStep, FencePreviousStep,
       ReadSendingStep, ReadSettledStep, ClosePreviousStep, InsertNextStep
  <1>6. ASSUME NEW h \in Handlers,
               \/ Inherit(h) \/ RecordVisual(h) \/ RecordNone(h) \/ ReadNone(h)
               \/ PatchPassed(h) \/ CompleteNone(h)
        PROVE  AttemptInv'
    BY <1>6, InheritStep, RecordVisualStep, RecordNoneStep, ReadNoneStep, PatchPassedStep,
       CompleteNoneStep
  <1>7. ASSUME NEW h \in Handlers,
               \/ Candidate(h) \/ Decide(h) \/ FailCheck(h) \/ StoreFailed(h)
               \/ SettleSuperseded(h) \/ FenceRetired(h) \/ ReadRetired(h) \/ FailRetired(h)
        PROVE  AttemptInv'
    BY <1>7, CandidateStep, DecideStep, FailCheckStep, StoreFailedStep, SettleSupersededStep,
       FenceRetiredStep, ReadRetiredStep, FailRetiredStep
  <1> QED BY <1>1, <1>2, <1>3, <1>4, <1>5, <1>6, <1>7 DEF ANext, HandlerStep

(* What the requests, deliveries and reruns of one commit keep: the rows   *)
(* of ensureSignedAttemptCheck, bindWorkflowCheck and                      *)
(* settlePreRunWorkflow, and what each request may rely on where it is.    *)
THEOREM AttemptsCorrect == ASpec => []AttemptInv
  BY AttemptsStart, AttemptsGoOn, PTL DEF ASpec

(* Only the newest generation of a commit can have an open check, with     *)
(* requests and deliveries of several attempts between its reads, the      *)
(* fence, the PATCH and the INSERT of bindWorkflowCheck.                   *)
THEOREM OneCheckIsOpen == ASpec => []OneOpenCheck
  <1>1. AttemptInv => OneOpenCheck
    BY DEF AttemptInv, ChecksOK
  <1> QED BY <1>1, AttemptsCorrect, PTL

(* A check passes without a run only by the Plan of the attempt that its   *)
(* row is bound to, which inheritVisualPlan can have carried over.         *)
THEOREM PassesByItsPlan == ASpec => []PassedByPlan
  <1>1. AttemptInv => PassedByPlan
    BY DEF AttemptInv, ChecksOK
  <1> QED BY <1>1, AttemptsCorrect, PTL

-----------------------------------------------------------------------------
(* The promise of the checks of a commit.                                  *)

\* What the rows show of their checks, and what holds between generations.
\* A check is made for a row whose POST started, and is there for a row that names one.
CheckMade(g) ==
  /\ checkOf[g] # "none" => Exists(g) /\ rows[g].state # "pending"
  /\ rows[g].state = "stored" \/ Written(g) => checkOf[g] # "none"
  /\ rows[g].plan # "unknown" => Written(g)
ChecksMade ==
  /\ \A g \in Generations : CheckMade(g)
  /\ \A g \in sending : Written(g)
BoundOnce ==
  /\ \A g \in Generations : Exists(g) /\ rows[g].attempt = 0 => g = 0
  /\ \A g, e \in Generations : rows[g].attempt = rows[e].attempt /\ rows[g].attempt # 0 => g = e
QuietBefore == \A g, later \in Generations : g < later /\ Exists(later) => Quiet(g)
RunsNeedWork ==
  /\ \A a \in Attempts : work[a].submitted => work[a].plan = "visual"
  /\ \A a \in admitted : work[a].plan = "visual"

LineInv == ChecksMade /\ BoundOnce /\ QuietBefore /\ RunsNeedWork

-----------------------------------------------------------------------------
(* What a step does to the rows and checks of the commit.                  *)
OneRow(g) == \A e \in Generations : e # g => rows'[e] = rows[e]
Settled == {"active", "failed", "docs_complete"}

NoRow == UNCHANGED <<rows, checkOf>>
Edits(g) ==
  /\ OneRow(g) /\ UNCHANGED checkOf /\ rows[g].state = "active"
  /\ rows'[g].state \in Settled /\ rows'[g].attempt = rows[g].attempt
Binds(g, a) ==
  /\ OneRow(g) /\ UNCHANGED checkOf
  /\ rows[g].state = "active" /\ rows[g].attempt = 0 /\ BoundTo(a) = {}
  /\ rows'[g].state = "active" /\ rows'[g].attempt = a /\ rows'[g].plan = rows[g].plan
Advances(g) ==
  /\ OneRow(g) /\ UNCHANGED checkOf /\ rows[g].state \in Unready
  /\ rows'[g].state \in {"posted", "stored", "active"}
  /\ rows'[g].state # "posted" => checkOf[g] # "none"
  /\ rows'[g].attempt = rows[g].attempt /\ rows'[g].plan = rows[g].plan
Creates(g) ==
  /\ UNCHANGED rows /\ Patch(g, "open") /\ rows[g].state = "posted" /\ checkOf[g] = "none"
Inserts(g, a) ==
  /\ OneRow(g) /\ UNCHANGED checkOf /\ ~Exists(g) /\ BoundTo(a) = {}
  /\ g - 1 \in Generations /\ Quiet(g - 1)
  /\ rows'[g].state = "pending" /\ rows'[g].attempt = a /\ rows'[g].plan = "unknown"
Patches(g, result) ==
  /\ UNCHANGED rows /\ Patch(g, result) /\ Written(g)
  /\ result = "open" => rows[g].attempt \in admitted
                        /\ \A later \in Generations : later > g => ~Exists(later)
  /\ result = "success" => rows[g].attempt \in admitted \/ rows[g].plan = "none"

RowEffect ==
  \/ NoRow
  \/ \E g \in Generations :
       \/ Edits(g) \/ Advances(g) \/ Creates(g)
       \/ \E a \in Attempts : Binds(g, a) \/ Inserts(g, a)
       \/ \E result \in Results : Patches(g, result)

LEMMA StateEdits ==
  ASSUME AttemptInv, NEW g \in Generations, NEW to \in {"failed", "docs_complete"},
         SetState(g, "active", to), UNCHANGED checkOf
  PROVE  NoRow \/ Edits(g)
<1>1. CASE rows[g].state # "active"
  BY <1>1 DEF SetState, NoRow
<1>2. CASE rows[g].state = "active"
  <2> DEFINE r == [rows[g] EXCEPT !.state = to]
  <2>1. rows[g] \in CheckRows /\ to \in CheckRowStates
    BY DEF AttemptInv, ChecksOK, RowTypes, CheckRowStates
  <2>2. r.state = to /\ r.attempt = rows[g].attempt
    BY <2>1, CheckRowWritten
  <2>3. rows' = [rows EXCEPT ![g] = r]
    BY <1>2 DEF SetState
  <2> HIDE DEF r
  <2>4. \A e \in Generations : rows'[e] = IF e = g THEN r ELSE rows[e]
    BY <2>3 DEF AttemptInv, ChecksOK, RowTypes
  <2> QED BY <1>2, <2>2, <2>4 DEF Edits, OneRow, Settled
<1> QED BY <1>1, <1>2

LEMMA PlanEdits ==
  ASSUME AttemptInv, NEW g \in Generations, NEW plan \in Plans, rows[g].state = "active",
         rows' = [rows EXCEPT ![g].plan = plan], UNCHANGED checkOf
  PROVE  Edits(g)
<1> DEFINE r == [rows[g] EXCEPT !.plan = plan]
<1>1. rows[g] \in CheckRows
  BY DEF AttemptInv, ChecksOK, RowTypes
<1>2. r.state = rows[g].state /\ r.attempt = rows[g].attempt
  BY <1>1, CheckRowWritten
<1>3. rows' = [rows EXCEPT ![g] = r]
  OBVIOUS
<1> HIDE DEF r
<1>4. \A e \in Generations : rows'[e] = IF e = g THEN r ELSE rows[e]
  BY <1>3 DEF AttemptInv, ChecksOK, RowTypes
<1> QED BY <1>2, <1>4 DEF Edits, OneRow, Settled

LEMMA CreateEffect ==
  ASSUME AttemptInv, LineInv, NEW h \in Handlers, NEW g \in Generations, Create(h, g),
         UNCHANGED checkOf
  PROVE  NoRow \/ Advances(g)
<1>1. CASE UNCHANGED rows
  BY <1>1 DEF NoRow
<1>2. CASE ~UNCHANGED rows
  <2>1. PICK to \in {"posted", "stored", "active"} :
          /\ rows' = [rows EXCEPT ![g].state = to] /\ rows[g].state \in Unready
          /\ to # "posted" => rows[g].state = "stored" \/ checkOf[g] # "none"
    BY <1>2 DEF Create, SetState, Unready
  <2> DEFINE r == [rows[g] EXCEPT !.state = to]
  <2>2. rows[g] \in CheckRows
    BY DEF AttemptInv, ChecksOK, RowTypes
  <2>3. r.state = to /\ r.attempt = rows[g].attempt /\ r.plan = rows[g].plan
    <3>1. to \in CheckRowStates
      BY DEF CheckRowStates
    <3> QED BY <2>2, <3>1, CheckRowWritten
  <2>4. rows' = [rows EXCEPT ![g] = r]
    BY <2>1
  <2> HIDE DEF r
  <2>5. \A e \in Generations : rows'[e] = IF e = g THEN r ELSE rows[e]
    BY <2>4 DEF AttemptInv, ChecksOK, RowTypes
  <2>6. to # "posted" => checkOf[g] # "none"
    BY <2>1 DEF LineInv, ChecksMade, CheckMade
  <2> QED BY <2>1, <2>3, <2>5, <2>6 DEF Advances, OneRow
<1> QED BY <1>1, <1>2

(* The steps of a request that write a row or a check.                     *)
LEMMA BindingEffect ==
  ASSUME AttemptInv, LineInv, NEW h \in Handlers,
         EnsureCheck(h) \/ Bind(h) \/ BindUnbound(h)
  PROVE  RowEffect
<1>1. PICK me \in Requests :
        /\ me = handler[h] /\ RequestOK(me)
        /\ me.gen \in Generations /\ me.attempt \in Attempts /\ me.read \in CheckRows
        /\ me.kind \in Kinds /\ rows[me.gen] \in CheckRows
  BY Requester
<1>2. CASE EnsureCheck(h)
  <2>1. UNCHANGED checkOf /\ (UNCHANGED rows \/ Create(h, me.gen))
    BY <1>1, <1>2 DEF EnsureCheck, Gen
  <2> QED BY <1>1, <2>1, CreateEffect DEF RowEffect, NoRow
<1>3. CASE Bind(h)
  <2>1. CASE BoundTo(me.attempt) = {}
    BY <1>1, <1>3, <2>1 DEF Bind, Me, NoRow, RowEffect
  <2>2. CASE BoundTo(me.attempt) # {}
    <3>1. PICK g \in BoundTo(me.attempt) : g = CHOOSE b \in BoundTo(me.attempt) : TRUE
      BY <2>2
    <3>2. g \in Generations /\ UNCHANGED checkOf /\ (UNCHANGED rows \/ Create(h, g))
      BY <1>1, <1>3, <2>2, <3>1 DEF Bind, Me, BoundTo
    <3> QED BY <3>2, CreateEffect DEF RowEffect, NoRow
  <2> QED BY <2>1, <2>2
<1>4. CASE BindUnbound(h)
  <2> DEFINE free == rows[me.gen].state = "active" /\ rows[me.gen].attempt = 0
             r == [rows[me.gen] EXCEPT !.attempt = me.attempt]
  <2>1. CASE ~free \/ BoundTo(me.attempt) # {}
    <3>1. UNCHANGED rows
      BY <1>1, <1>4, <2>1 DEF BindUnbound, Gen, Me
    <3> QED BY <1>4, <3>1 DEF BindUnbound, NoRow, RowEffect
  <2>2. CASE free /\ BoundTo(me.attempt) = {}
    <3>1. rows' = [rows EXCEPT ![me.gen].attempt = me.attempt] /\ UNCHANGED checkOf
      BY <1>1, <1>4, <2>2 DEF BindUnbound, Gen, Me
    <3>2. r.state = rows[me.gen].state /\ r.attempt = me.attempt /\ r.plan = rows[me.gen].plan
      BY <1>1, Zeros, CheckRowWritten
    <3>3. rows' = [rows EXCEPT ![me.gen] = r]
      BY <3>1
    <3> HIDE DEF r
    <3>4. \A e \in Generations : rows'[e] = IF e = me.gen THEN r ELSE rows[e]
      BY <3>3 DEF AttemptInv, ChecksOK, RowTypes
    <3>5. Binds(me.gen, me.attempt)
      BY <1>1, <2>2, <3>1, <3>2, <3>4 DEF Binds, OneRow
    <3> QED BY <1>1, <3>5 DEF RowEffect
  <2> QED BY <2>1, <2>2
<1> QED BY <1>2, <1>3, <1>4

LEMMA InsertEffect ==
  ASSUME AttemptInv, NEW h \in Handlers, InsertNext(h)
  PROVE  RowEffect
<1>1. PICK me \in Requests :
        /\ me = handler[h] /\ RequestOK(me)
        /\ me.gen \in Generations /\ me.attempt \in Attempts /\ me.read \in CheckRows
        /\ me.kind \in Kinds /\ rows[me.gen] \in CheckRows
  BY Requester
<1>2. Quiet(me.gen) /\ UNCHANGED checkOf
  BY <1>1 DEF InsertNext, At, RequestOK, PlaceOK
<1> DEFINE next == me.gen + 1
           fits == next \in Generations /\ ~Exists(next) /\ BoundTo(me.attempt) = {}
           r == [state |-> "pending", attempt |-> me.attempt, plan |-> "unknown"]
<1>3. CASE ~fits
  <2>1. UNCHANGED rows
    BY <1>1, <1>3 DEF InsertNext, Gen, Me
  <2> QED BY <1>2, <2>1 DEF NoRow, RowEffect
<1>4. CASE fits
  <2>1. rows' = [rows EXCEPT ![next] = r]
    BY <1>1, <1>4 DEF InsertNext, Gen, Me
  <2>2. r.state = "pending" /\ r.attempt = me.attempt /\ r.plan = "unknown"
    OBVIOUS
  <2> HIDE DEF r
  <2>3. \A e \in Generations : rows'[e] = IF e = next THEN r ELSE rows[e]
    BY <1>4, <2>1 DEF AttemptInv, ChecksOK, RowTypes
  <2>4. next - 1 = me.gen
    <3>1. me.gen \in Int
      BY <1>1, AttemptsAssumption DEF Generations
    <3> QED BY <3>1
  <2> HIDE DEF next
  <2>5. Inserts(next, me.attempt)
    BY <1>1, <1>2, <1>4, <2>2, <2>3, <2>4 DEF Inserts, OneRow
  <2> QED BY <1>1, <1>4, <2>5 DEF RowEffect
<1> QED BY <1>3, <1>4

LEMMA StateEffect ==
  ASSUME AttemptInv, NEW h \in Handlers,
         FencePrevious(h) \/ CompleteNone(h) \/ StoreFailed(h) \/ FenceRetired(h)
  PROVE  RowEffect
<1>1. handler[h].gen \in Generations
  BY DEF AttemptInv, RequestTypes, Requests
<1>2. UNCHANGED checkOf
  BY DEF FencePrevious, CompleteNone, StoreFailed, FenceRetired
<1>3. \/ SetState(handler[h].gen, "active", "failed")
      \/ SetState(handler[h].gen, "active", "docs_complete") \/ UNCHANGED rows
  BY DEF FencePrevious, CompleteNone, StoreFailed, FenceRetired, Gen, SetState
<1> QED BY <1>1, <1>2, <1>3, StateEdits DEF RowEffect, NoRow

LEMMA PlanEffect ==
  ASSUME AttemptInv, NEW h \in Handlers, Inherit(h) \/ RecordVisual(h) \/ RecordNone(h)
  PROVE  RowEffect
<1>1. handler[h].gen \in Generations /\ handler[h].attempt \in Attempts
  BY DEF AttemptInv, RequestTypes, Requests
<1>2. UNCHANGED checkOf
  BY DEF Inherit, RecordVisual, RecordNone
<1>3. CASE UNCHANGED rows
  BY <1>2, <1>3 DEF RowEffect, NoRow
<1>4. CASE ~UNCHANGED rows
  <2>1. CASE RecordVisual(h)
    <3>1. rows[handler[h].gen].state = "active"
          /\ rows' = [rows EXCEPT ![handler[h].gen].plan = "visual"]
      BY <1>4, <2>1 DEF RecordVisual, Gen
    <3> QED BY <1>1, <1>2, <3>1, PlanEdits DEF RowEffect, Plans
  <2>2. CASE RecordNone(h)
    <3>1. rows[handler[h].gen].state = "active"
          /\ rows' = [rows EXCEPT ![handler[h].gen].plan = "none"]
      BY <1>4, <2>2 DEF RecordNone, Gen
    <3> QED BY <1>1, <1>2, <3>1, PlanEdits DEF RowEffect, Plans
  <2>3. CASE Inherit(h)
    <3>1. PICK b \in PriorPlan(handler[h].attempt) :
            /\ rows[handler[h].gen].state = "active"
            /\ rows' = [rows EXCEPT ![handler[h].gen].plan = PlanOf(b)]
      BY <1>4, <2>3 DEF Inherit, Gen, Me
    <3>2. b \in Attempts
      BY <1>1, AttemptsAssumption DEF PriorPlan, Attempts
    <3>3. PlanOf(b) \in Plans
      <4>1. CASE BoundTo(b) = {}
        BY <4>1 DEF PlanOf, Plans
      <4>2. CASE BoundTo(b) # {}
        <5>1. PICK g \in BoundTo(b) : g = CHOOSE c \in BoundTo(b) : TRUE
          BY <4>2
        <5>2. PlanOf(b) = rows[g].plan /\ rows[g] \in CheckRows
          BY <4>2, <5>1 DEF PlanOf, BoundTo, AttemptInv, ChecksOK, RowTypes
        <5> QED BY <5>2 DEF CheckRows
      <4> QED BY <4>1, <4>2
    <3> QED BY <1>1, <1>2, <3>1, <3>3, PlanEdits DEF RowEffect
  <2> QED BY <2>1, <2>2, <2>3
<1> QED BY <1>3, <1>4

(* A PATCH of a request closes a check that is there.                      *)
LEMMA PatchEffect ==
  ASSUME AttemptInv, LineInv, NEW h \in Handlers,
         ClosePrevious(h) \/ PatchPassed(h) \/ FailCheck(h) \/ FailRetired(h)
  PROVE  RowEffect
<1> DEFINE g == handler[h].gen
<1>1. g \in Generations /\ RequestOK(handler[h])
  BY DEF AttemptInv, RequestTypes, Requests, RequestsOK
<1>2. /\ UNCHANGED rows
      /\ Patch(g, "failure") \/ (Patch(g, "success") /\ handler[h].at = "patchPassed")
      /\ handler[h].at \in {"patchClosed", "patchPassed", "patchFailed", "patchRetired"}
  BY DEF ClosePrevious, PatchPassed, FailCheck, FailRetired, At, Gen
<1>3. handler[h].at = "patchPassed" => rows[g].plan = "none"
  BY <1>1 DEF RequestOK, PlaceOK
<1>4. Written(g)
  <2>1. Quiet(g) => Written(g)
    BY DEF Quiet, Written
  <2>2. rows[g].plan = "none" => Written(g)
    BY <1>1 DEF LineInv, ChecksMade, CheckMade
  <2> QED BY <1>1, <1>2, <1>3, <2>1, <2>2 DEF RequestOK, PlaceOK
<1> HIDE DEF g
<1>5. \E result \in Results : Patches(g, result)
  <2>1. "failure" \in Results /\ "success" \in Results
    BY DEF Results, Shown
  <2>2. CASE Patch(g, "failure")
    <3>1. Patches(g, "failure")
      BY <1>2, <1>4, <2>2 DEF Patches
    <3> QED BY <2>1, <3>1
  <2>3. CASE Patch(g, "success") /\ handler[h].at = "patchPassed"
    <3>1. Patches(g, "success")
      BY <1>2, <1>3, <1>4, <2>3 DEF Patches
    <3> QED BY <2>1, <3>1
  <2> QED BY <1>2, <2>2, <2>3
<1> QED BY <1>1, <1>5 DEF RowEffect

LEMMA LandEffect ==
  ASSUME AttemptInv, LineInv, NEW g \in Generations, NEW result \in Results, Land(g, result)
  PROVE  RowEffect
<1>1. g \in sending /\ UNCHANGED rows /\ Patch(g, result)
  BY DEF Land
<1>2. /\ rows[g].attempt \in admitted /\ rows[g].attempt # 0
      /\ \A later \in Generations : later > g => ~Exists(later)
  BY <1>1, Zeros DEF AttemptInv, ChecksOK, SendersHaveRuns, RowsInLine, RowTypes
<1>3. Written(g)
  BY <1>1 DEF LineInv, ChecksMade
<1>4. Patches(g, result)
  BY <1>1, <1>2, <1>3 DEF Patches
<1> QED BY <1>4 DEF RowEffect

LEMMA ReadEffect ==
  ASSUME NEW h \in Handlers,
         \/ ReadPrevious(h) \/ ReadSending(h) \/ ReadSettled(h) \/ ReadNone(h) \/ Candidate(h)
         \/ Decide(h) \/ SettleSuperseded(h) \/ ReadRetired(h) \/ Halt(h)
         \/ \E kind \in {"submit", "report"} : SignedCall(h, kind)
         \/ \E a \in Attempts : DeliverEnd(h, a)
  PROVE  NoRow
BY DEF ReadPrevious, ReadSending, ReadSettled, ReadNone, Candidate, Decide, SettleSuperseded,
   ReadRetired, Halt, SignedCall, DeliverEnd, Reads, NoRow

LEMMA StepEffect ==
  ASSUME AttemptInv, LineInv, [ANext]_attemptVars
  PROVE  RowEffect
<1>1. ASSUME NEW h \in Handlers,
             \/ \E kind \in {"submit", "report"} : SignedCall(h, kind)
             \/ \E a \in Attempts : DeliverEnd(h, a)
             \/ HandlerStep(h) \/ Halt(h)
      PROVE  RowEffect
  <2>1. CASE EnsureCheck(h) \/ Bind(h) \/ BindUnbound(h)
    BY <2>1, BindingEffect
  <2>2. CASE InsertNext(h)
    BY <2>2, InsertEffect
  <2>3. CASE FencePrevious(h) \/ CompleteNone(h) \/ StoreFailed(h) \/ FenceRetired(h)
    BY <2>3, StateEffect
  <2>4. CASE Inherit(h) \/ RecordVisual(h) \/ RecordNone(h)
    BY <2>4, PlanEffect
  <2>5. CASE ClosePrevious(h) \/ PatchPassed(h) \/ FailCheck(h) \/ FailRetired(h)
    BY <2>5, PatchEffect
  <2>6. CASE \/ ReadPrevious(h) \/ ReadSending(h) \/ ReadSettled(h) \/ ReadNone(h) \/ Candidate(h)
             \/ Decide(h) \/ SettleSuperseded(h) \/ ReadRetired(h) \/ Halt(h)
             \/ \E kind \in {"submit", "report"} : SignedCall(h, kind)
             \/ \E a \in Attempts : DeliverEnd(h, a)
    BY <2>6, ReadEffect DEF RowEffect
  <2> QED BY <1>1, <2>1, <2>2, <2>3, <2>4, <2>5, <2>6 DEF HandlerStep
<1>2. ASSUME NEW g \in Generations,
             PostLands(g) \/ Send(g) \/ \E result \in Results : Land(g, result)
      PROVE  RowEffect
  <2>1. CASE Send(g)
    BY <2>1 DEF Send, NoRow, RowEffect
  <2>2. CASE \E result \in Results : Land(g, result)
    BY <2>2, LandEffect
  <2>3. CASE PostLands(g)
    BY <2>3 DEF PostLands, Creates, RowEffect
  <2> QED BY <1>2, <2>1, <2>2, <2>3
<1>3. CASE \/ \E plan \in {"visual", "none"} : PlanRuns(plan)
           \/ EndWorkflow \/ MainMoves \/ \E carried \in BOOLEAN : Rerun(carried)
           \/ \E a \in Attempts : Admit(a)
  BY <1>3 DEF PlanRuns, EndWorkflow, MainMoves, Rerun, Admit, NoRow, RowEffect
<1>4. CASE UNCHANGED attemptVars
  BY <1>4 DEF attemptVars, NoRow, RowEffect
<1> QED BY <1>1, <1>2, <1>3, <1>4 DEF ANext

(* What a step does to the runs and to the work of the attempts.           *)
WorkKept == \A a \in Attempts : work'[a].plan = work[a].plan
NewPlan(a) ==
  /\ work[a].plan = "unknown"
  /\ \A b \in Attempts : b # a => work'[b].plan = work[b].plan

LEMMA WorkEffect ==
  ASSUME AttemptInv, [ANext]_attemptVars
  PROVE  /\ \/ WorkKept
            \/ NoRow /\ UNCHANGED admitted /\ \E a \in Attempts : NewPlan(a)
         /\ \A a \in Attempts : work'[a].submitted => work[a].submitted \/ work[a].plan = "visual"
<1>0. work \in [Attempts -> Works] /\ newest \in Attempts
  BY DEF AttemptInv, PlanTypes
<1>1. ASSUME NEW plan \in {"visual", "none"}, PlanRuns(plan)
      PROVE  /\ NoRow /\ UNCHANGED admitted /\ NewPlan(newest)
             /\ \A a \in Attempts : work'[a].submitted = work[a].submitted
  <2> DEFINE w == [work[newest] EXCEPT !.plan = plan]
  <2>1. w.submitted = work[newest].submitted
    BY <1>0 DEF Works
  <2>2. /\ work' = [work EXCEPT ![newest] = w] /\ work[newest].plan = "unknown"
        /\ UNCHANGED <<rows, checkOf, admitted>>
    BY <1>1 DEF PlanRuns
  <2> HIDE DEF w
  <2>3. \A a \in Attempts : work'[a] = IF a = newest THEN w ELSE work[a]
    BY <1>0, <2>2
  <2> QED BY <2>1, <2>2, <2>3 DEF NoRow, NewPlan
<1>2. CASE EndWorkflow
  <2> DEFINE w == [work[newest] EXCEPT !.ended = TRUE]
  <2>1. w.submitted = work[newest].submitted /\ w.plan = work[newest].plan
    BY <1>0 DEF Works
  <2>2. work' = [work EXCEPT ![newest] = w]
    BY <1>2 DEF EndWorkflow
  <2> HIDE DEF w
  <2>3. \A a \in Attempts : work'[a] = IF a = newest THEN w ELSE work[a]
    BY <1>0, <2>2
  <2> QED BY <2>1, <2>3 DEF WorkKept
<1>3. ASSUME NEW carried \in BOOLEAN, Rerun(carried)
      PROVE  /\ NoRow /\ UNCHANGED admitted /\ NewPlan(newest + 1) /\ newest + 1 \in Attempts
             /\ \A a \in Attempts : work'[a].submitted = work[a].submitted
  <2> DEFINE next == newest + 1
  <2>1. next \in Attempts /\ newest < next /\ UNCHANGED <<rows, checkOf, admitted>>
    BY <1>0, <1>3, AttemptsAssumption DEF Rerun, Attempts
  <2>2. work[next].plan = "unknown"
    BY <2>1 DEF AttemptInv, PlansCarried
  <2>3. CASE ~carried
    <3>1. work' = work
      BY <1>3, <2>3 DEF Rerun
    <3> QED BY <2>1, <2>2, <3>1 DEF NoRow, NewPlan
  <2>4. CASE carried
    <3> DEFINE u == [work[next] EXCEPT !.plan = work[newest].plan]
               w == [u EXCEPT !.source = work[newest].source]
    <3>1. w.submitted = work[next].submitted
      BY <1>0, <2>1 DEF Works
    <3>2. work' = [work EXCEPT ![next] = w]
      <4>1. work' = [work EXCEPT ![newest + 1].plan = work[newest].plan,
                                 ![newest + 1].source = work[newest].source]
        BY <1>3, <2>4 DEF Rerun
      <4> QED BY <1>0, <2>1, <4>1
    <3> HIDE DEF u, w
    <3>3. \A a \in Attempts : work'[a] = IF a = next THEN w ELSE work[a]
      BY <1>0, <2>1, <3>2
    <3> QED BY <2>1, <2>2, <3>1, <3>3 DEF NoRow, NewPlan
  <2> QED BY <2>3, <2>4
<1>4. ASSUME NEW h \in Handlers, RecordVisual(h)
      PROVE  /\ WorkKept
             /\ \A a \in Attempts :
                  work'[a].submitted => work[a].submitted \/ work[a].plan = "visual"
  <2>1. PICK me \in Requests : me = handler[h] /\ me.attempt \in Attempts /\ RequestOK(me)
    BY Requester
  <2>2. work[me.attempt].plan = "visual"
    BY <1>4, <2>1 DEF RecordVisual, At, RequestOK, PlaceOK
  <2>3. CASE UNCHANGED work
    BY <2>3 DEF WorkKept
  <2>4. CASE ~UNCHANGED work
    <3>1. PICK succeeds \in BOOLEAN :
            work' = [work EXCEPT ![me.attempt].submitted = @ \/ succeeds]
      BY <1>4, <2>1, <2>4 DEF RecordVisual, Me
    <3> DEFINE w == [work[me.attempt] EXCEPT !.submitted = @ \/ succeeds]
    <3>2. w.plan = work[me.attempt].plan
      BY <1>0, <2>1 DEF Works
    <3>3. work' = [work EXCEPT ![me.attempt] = w]
      BY <3>1
    <3> HIDE DEF w
    <3>4. \A a \in Attempts : work'[a] = IF a = me.attempt THEN w ELSE work[a]
      BY <1>0, <3>3
    <3> QED BY <2>2, <3>2, <3>4 DEF WorkKept
  <2> QED BY <2>3, <2>4
<1>5. ASSUME NEW h \in Handlers,
             \/ \E kind \in {"submit", "report"} : SignedCall(h, kind)
             \/ \E a \in Attempts : DeliverEnd(h, a)
             \/ HandlerStep(h) \/ Halt(h)
      PROVE  RecordVisual(h) \/ UNCHANGED work
  <2>1. CASE HandlerStep(h)
    BY <2>1 DEF HandlerStep, EnsureCheck, Bind, BindUnbound, ReadPrevious, FencePrevious,
       ReadSending, ReadSettled, ClosePrevious, InsertNext, Inherit, RecordNone, ReadNone,
       PatchPassed, CompleteNone, Candidate, Decide, FailCheck, StoreFailed, SettleSuperseded,
       FenceRetired, ReadRetired, FailRetired, Reads, rest, gitHub
  <2>2. CASE ~HandlerStep(h)
    BY <1>5, <2>2 DEF SignedCall, DeliverEnd, Halt, Reads, rest, gitHub
  <2> QED BY <2>1, <2>2
<1>6. CASE \/ MainMoves \/ \E a \in Attempts : Admit(a)
           \/ \E g \in Generations :
                PostLands(g) \/ Send(g) \/ \E result \in Results : Land(g, result)
           \/ UNCHANGED attemptVars
  <2>1. UNCHANGED work
    BY <1>6 DEF MainMoves, Admit, PostLands, Send, Land, gitHub, attemptVars
  <2> QED BY <2>1 DEF WorkKept
<1>7. CASE UNCHANGED work
  BY <1>7 DEF WorkKept
<1> QED BY <1>0, <1>1, <1>2, <1>3, <1>4, <1>5, <1>6, <1>7 DEF ANext

-----------------------------------------------------------------------------
(* The rows stay in line.                                                  *)
LEMMA LineStart == AInit => LineInv
<1> SUFFICES ASSUME AInit PROVE LineInv
  OBVIOUS
<1>1. /\ rows = [g \in Generations |-> IF g = 0 THEN [NoCheckRow EXCEPT !.state = "pending"]
                                      ELSE NoCheckRow]
      /\ checkOf = [g \in Generations |-> "none"] /\ sending = {} /\ admitted = {}
      /\ \A a \in Attempts : ~work[a].submitted
  BY DEF AInit
<1>2. \A g \in Generations : /\ rows[g].attempt = 0 /\ rows[g].plan = "unknown"
                             /\ ~Written(g) /\ (Exists(g) => g = 0)
  BY <1>1 DEF NoCheckRow, Written, Exists
<1>3. ChecksMade /\ BoundOnce /\ RunsNeedWork
  <2>1. \A g \in Generations : rows[g].state \in {"absent", "pending"} /\ checkOf[g] = "none"
    BY <1>1 DEF NoCheckRow
  <2> QED BY <1>1, <1>2, <2>1 DEF ChecksMade, CheckMade, BoundOnce, RunsNeedWork
<1>4. QuietBefore
  <2> SUFFICES ASSUME NEW g \in Generations, NEW later \in Generations, g < later, Exists(later)
               PROVE  FALSE
    BY DEF QuietBefore
  <2> QED BY <1>2, Zeros
<1> QED BY <1>3, <1>4 DEF LineInv

\* The sets of what rows show follow the effects on one row.
LEMMA RowsAfter ==
  ASSUME NEW g \in Generations,
         Edits(g) \/ Advances(g) \/ \E a \in Attempts : Binds(g, a)
  PROVE  /\ Exists(g) /\ ~Quiet(g) /\ Exists(g)' /\ UNCHANGED checkOf
         /\ ~Advances(g) => Written(g) /\ Written(g)'
         /\ \A e \in Generations : /\ Exists(e)' <=> Exists(e)
                                   /\ Quiet(e) => Quiet(e)'
                                   /\ Written(e) => Written(e)'
                                   /\ e # g => rows'[e] = rows[e]
BY DEF Edits, Advances, Binds, OneRow, Exists, Quiet, Written, Settled, Unready

LEMMA ChecksMadeStep ==
  ASSUME AttemptInv, AttemptInv', LineInv, RowEffect, sending' \subseteq sending
                                                     \/ \E g \in Generations : Send(g)
  PROVE  ChecksMade'
<1>1. \A g \in Generations : checkOf[g] \in Shown /\ rows[g] \in CheckRows
  BY DEF AttemptInv, ChecksOK, RowTypes
<1>2. \A g \in Generations : Written(g) => Written(g)'
  <2>1. CASE \/ NoRow
             \/ \E g \in Generations : Creates(g) \/ \E result \in Results : Patches(g, result)
    BY <2>1 DEF NoRow, Creates, Patches, Written
  <2>2. CASE \E g \in Generations : \E a \in Attempts : Inserts(g, a)
    BY <2>2 DEF Inserts, OneRow, Written, Exists
  <2>3. ASSUME NEW g \in Generations, Edits(g) \/ Advances(g) \/ \E a \in Attempts : Binds(g, a)
        PROVE  \A e \in Generations : Written(e) => Written(e)'
    BY <2>3, RowsAfter
  <2> QED BY <2>1, <2>2, <2>3 DEF RowEffect
<1>3. \A g \in sending' : Written(g)'
  <2>1. sending \subseteq Generations
    BY DEF AttemptInv, ChecksOK, RowTypes
  <2>2. \A g \in Generations : Send(g) => sending' = sending \cup {g} /\ Written(g)
    BY DEF Send, CurrentCheck, Written
  <2> QED BY <1>2, <2>1, <2>2 DEF LineInv, ChecksMade
<1>4. ASSUME NEW e \in Generations PROVE CheckMade(e)'
  <2>0. CheckMade(e)
    BY DEF LineInv, ChecksMade
  <2>1. CASE NoRow
    BY <2>0, <2>1 DEF NoRow, CheckMade, Written, Exists
  <2>2. ASSUME NEW g \in Generations, Edits(g) \/ \E a \in Attempts : Binds(g, a)
        PROVE  CheckMade(e)'
    <3>1. Written(g) /\ Written(g)' /\ UNCHANGED checkOf /\ (e # g => rows'[e] = rows[e])
      BY <2>2, RowsAfter DEF Edits, Binds, Written, OneRow, Settled
    <3> QED BY <2>0, <3>1 DEF CheckMade, Written, Exists
  <2>3. ASSUME NEW g \in Generations, Advances(g) PROVE CheckMade(e)'
    <3>1. CASE e # g
      BY <2>0, <2>3, <3>1 DEF Advances, OneRow, CheckMade, Written, Exists
    <3>2. CASE e = g
      BY <2>0, <2>3, <3>2 DEF Advances, CheckMade, Written, Exists, Unready
    <3> QED BY <3>1, <3>2
  <2>4. ASSUME NEW g \in Generations, Creates(g) PROVE CheckMade(e)'
    <3>1. checkOf'[e] = IF e = g THEN "open" ELSE checkOf[e]
      BY <2>4 DEF Creates, Patch, AttemptInv, ChecksOK, RowTypes
    <3> QED BY <2>0, <2>4, <3>1 DEF Creates, CheckMade, Written, Exists
  <2>5. ASSUME NEW g \in Generations, NEW a \in Attempts, Inserts(g, a) PROVE CheckMade(e)'
    <3>1. checkOf[g] = "none"
      BY <2>5 DEF Inserts, AttemptInv, ChecksOK, RowsInLine
    <3>2. CASE e # g
      BY <2>0, <2>5, <3>2 DEF Inserts, OneRow, CheckMade, Written, Exists
    <3>3. CASE e = g
      BY <2>5, <3>1, <3>3 DEF Inserts, CheckMade, Written, Exists
    <3> QED BY <3>2, <3>3
  <2>6. ASSUME NEW g \in Generations, NEW result \in Results, Patches(g, result)
        PROVE  CheckMade(e)'
    <3>1. checkOf'[e] = IF e = g THEN result ELSE checkOf[e]
      BY <2>6 DEF Patches, Patch, AttemptInv, ChecksOK, RowTypes
    <3>2. result # "none"
      BY DEF Results
    <3> QED BY <2>0, <2>6, <3>1, <3>2 DEF Patches, CheckMade, Written, Exists
  <2> QED BY <2>1, <2>2, <2>3, <2>4, <2>5, <2>6 DEF RowEffect
<1> QED BY <1>3, <1>4 DEF ChecksMade

LEMMA BoundOnceStep ==
  ASSUME AttemptInv, LineInv, RowEffect
  PROVE  BoundOnce'
<1>0. /\ \A g \in Generations : Exists(g) /\ rows[g].attempt = 0 => g = 0
      /\ \A g, e \in Generations :
           rows[g].attempt = rows[e].attempt /\ rows[g].attempt # 0 => g = e
  BY DEF LineInv, BoundOnce
<1>1. CASE \/ NoRow
           \/ \E g \in Generations : Creates(g) \/ \E result \in Results : Patches(g, result)
  BY <1>0, <1>1 DEF NoRow, Creates, Patches, BoundOnce, Exists
<1>2. ASSUME NEW g \in Generations, Edits(g) \/ Advances(g) PROVE BoundOnce'
  <2>1. \A e \in Generations : rows'[e].attempt = rows[e].attempt /\ (Exists(e)' <=> Exists(e))
    <3>1. \A e \in Generations : (Exists(e)' <=> Exists(e)) /\ (e # g => rows'[e] = rows[e])
      BY <1>2, RowsAfter
    <3>2. rows'[g].attempt = rows[g].attempt
      BY <1>2 DEF Edits, Advances
    <3> QED BY <3>1, <3>2
  <2> QED BY <1>0, <2>1 DEF BoundOnce
<1>3. ASSUME NEW g \in Generations, NEW a \in Attempts, Binds(g, a) \/ Inserts(g, a)
      PROVE  BoundOnce'
  <2>1. /\ \A e \in Generations : rows[e].attempt # a
        /\ \A e \in Generations : e # g => rows'[e] = rows[e]
        /\ rows'[g].attempt = a /\ a # 0
    BY <1>3, BoundRows, Zeros DEF Binds, Inserts, OneRow
  <2> QED BY <1>0, <2>1 DEF BoundOnce, Exists
<1> QED BY <1>1, <1>2, <1>3 DEF RowEffect

LEMMA QuietBeforeStep ==
  ASSUME AttemptInv, LineInv, RowEffect
  PROVE  QuietBefore'
<1>0. \A g, later \in Generations : g < later /\ Exists(later) => Quiet(g)
  BY DEF LineInv, QuietBefore
<1>1. CASE \/ NoRow
           \/ \E g \in Generations : Creates(g) \/ \E result \in Results : Patches(g, result)
  BY <1>0, <1>1 DEF NoRow, Creates, Patches, QuietBefore, Exists, Quiet
<1>2. ASSUME NEW g \in Generations,
             Edits(g) \/ Advances(g) \/ \E a \in Attempts : Binds(g, a)
      PROVE  QuietBefore'
  <2>1. \A e \in Generations : (Exists(e)' <=> Exists(e)) /\ (Quiet(e) => Quiet(e)')
    BY <1>2, RowsAfter
  <2> QED BY <1>0, <2>1 DEF QuietBefore
<1>3. ASSUME NEW g \in Generations, NEW a \in Attempts, Inserts(g, a) PROVE QuietBefore'
  <2>1. /\ \A e \in Generations : e # g => rows'[e] = rows[e]
        /\ g - 1 \in Generations /\ Quiet(g - 1) /\ ~Exists(g)
    BY <1>3 DEF Inserts, OneRow
  <2>2. g - 1 < g /\ \A e \in Generations : e < g => e = g - 1 \/ e < g - 1
    BY <2>1, AttemptsAssumption DEF Generations
  <2>3. Exists(g - 1)
    BY <2>1 DEF Quiet, Exists
  <2>4. \A e \in Generations : e < g => Quiet(e) /\ e # g
    BY <1>0, <2>1, <2>2, <2>3, AttemptsAssumption DEF Generations
  <2>5. \A e \in Generations : g < e => ~Exists(e)
    BY <2>1 DEF AttemptInv, ChecksOK, RowsInLine
  <2> SUFFICES ASSUME NEW e \in Generations, NEW later \in Generations, e < later, Exists(later)'
               PROVE  Quiet(e)'
    BY DEF QuietBefore
  <2>6. CASE later = g
    BY <2>1, <2>4, <2>6 DEF Quiet
  <2>7. CASE later # g
    <3>1. Exists(later)
      BY <2>1, <2>7 DEF Exists
    <3>2. Quiet(e) /\ Exists(e)
      BY <1>0, <3>1 DEF Quiet, Exists
    <3> QED BY <2>1, <3>2 DEF Quiet
  <2> QED BY <2>6, <2>7
<1> QED BY <1>1, <1>2, <1>3 DEF RowEffect

(* Only an admission adds a run, and only the outbox starts to send.       *)
LEMMA RequestsKeepRuns ==
  ASSUME NEW h \in Handlers,
         \/ \E kind \in {"submit", "report"} : SignedCall(h, kind)
         \/ \E a \in Attempts : DeliverEnd(h, a)
         \/ HandlerStep(h) \/ Halt(h)
  PROVE  UNCHANGED <<admitted, sending>>
<1>1. CASE EnsureCheck(h) \/ Bind(h) \/ BindUnbound(h) \/ ReadPrevious(h) \/ FencePrevious(h)
           \/ ReadSending(h) \/ ReadSettled(h) \/ ClosePrevious(h) \/ InsertNext(h)
  BY <1>1 DEF EnsureCheck, Bind, BindUnbound, ReadPrevious, FencePrevious, ReadSending, ReadSettled,
     ClosePrevious, InsertNext, Reads, rest
<1>2. CASE Inherit(h) \/ RecordVisual(h) \/ RecordNone(h) \/ ReadNone(h) \/ PatchPassed(h)
           \/ CompleteNone(h) \/ Candidate(h) \/ Decide(h)
  BY <1>2 DEF Inherit, RecordVisual, RecordNone, ReadNone, PatchPassed, CompleteNone, Candidate,
     Decide, Reads, rest
<1>3. CASE FailCheck(h) \/ StoreFailed(h) \/ SettleSuperseded(h) \/ FenceRetired(h)
           \/ ReadRetired(h) \/ FailRetired(h) \/ Halt(h)
  BY <1>3 DEF FailCheck, StoreFailed, SettleSuperseded, FenceRetired, ReadRetired, FailRetired,
     Halt, rest
<1>4. CASE \/ \E kind \in {"submit", "report"} : SignedCall(h, kind)
           \/ \E a \in Attempts : DeliverEnd(h, a)
  BY <1>4 DEF SignedCall, DeliverEnd, Reads, rest
<1> QED BY <1>1, <1>2, <1>3, <1>4 DEF HandlerStep

LEMMA RunsAfter ==
  ASSUME [ANext]_attemptVars
  PROVE  /\ UNCHANGED admitted \/ \E a \in Attempts : Admit(a)
         /\ sending' \subseteq sending \/ \E g \in Generations : Send(g)
<1>1. CASE \/ \E plan \in {"visual", "none"} : PlanRuns(plan)
           \/ EndWorkflow \/ MainMoves \/ \E carried \in BOOLEAN : Rerun(carried)
           \/ UNCHANGED attemptVars
  BY <1>1 DEF PlanRuns, EndWorkflow, MainMoves, Rerun, attemptVars
<1>2. ASSUME NEW g \in Generations,
             PostLands(g) \/ Send(g) \/ \E result \in Results : Land(g, result)
      PROVE  UNCHANGED admitted /\ (Send(g) \/ sending' \subseteq sending)
  BY <1>2 DEF PostLands, Send, Land
<1>3. \A a \in Attempts : Admit(a) => UNCHANGED sending
  BY DEF Admit
<1> QED BY <1>1, <1>2, <1>3, RequestsKeepRuns DEF ANext

LEMMA RunsNeedWorkStep ==
  ASSUME AttemptInv, LineInv, [ANext]_attemptVars
  PROVE  RunsNeedWork'
<1>0. /\ \A a \in Attempts : work[a].submitted => work[a].plan = "visual"
      /\ \A a \in admitted : work[a].plan = "visual"
      /\ admitted \subseteq Attempts
  BY DEF LineInv, RunsNeedWork, AttemptInv, ChecksOK, RowTypes
<1>1. \A a \in Attempts : work[a].plan # "unknown" => work'[a].plan = work[a].plan
  BY WorkEffect DEF WorkKept, NewPlan
<1>2. \A a \in Attempts : work'[a].submitted => work'[a].plan = "visual"
  BY <1>0, <1>1, WorkEffect
<1>3. \A a \in admitted' : work'[a].plan = "visual"
  <2>1. CASE UNCHANGED admitted
    BY <1>0, <1>1, <2>1
  <2>2. ASSUME NEW a \in Attempts, Admit(a) PROVE \A e \in admitted' : work'[e].plan = "visual"
    <3>1. admitted' = admitted \cup {a} /\ work[a].submitted
      BY <2>2 DEF Admit
    <3> QED BY <1>0, <1>1, <3>1
  <2> QED BY <2>1, <2>2, RunsAfter
<1> QED BY <1>2, <1>3 DEF RunsNeedWork

LEMMA LineInvStep ==
  AttemptInv /\ AttemptInv' /\ LineInv /\ [ANext]_attemptVars => LineInv'
BY StepEffect, ChecksMadeStep, BoundOnceStep, QuietBeforeStep, RunsNeedWorkStep, RunsAfter
   DEF LineInv

-----------------------------------------------------------------------------
(* Each step is a step of CommitChecks.                                    *)
LEMMA OwnersAre ==
  Owners = [g \in Generations |-> IF checkOf[g] = "none" THEN 0 ELSE rows[g].attempt]
BY DEF Owners, OwnerOf

LEMMA MadeRows ==
  ASSUME AttemptInv, LineInv, NEW g \in Generations
  PROVE  /\ checkOf[g] # "none" => Owners[g] = rows[g].attempt /\ Exists(g)
         /\ (\A later \in Generations : later > g => ~Exists(later)) =>
              \A later \in Generations : later > g => checkOf[later] = "none"
<1>1. \A e \in Generations : checkOf[e] # "none" => Exists(e)
  BY DEF LineInv, ChecksMade, CheckMade
<1>2. checkOf[g] # "none" => Owners[g] = rows[g].attempt
  BY OwnersAre
<1> QED BY <1>1, <1>2

LEMMA AdmitsInLine ==
  ASSUME AttemptInv, LineInv, NEW a \in Attempts, Admit(a)
  PROVE  Line!Next
<1>1. /\ a \notin admitted /\ work[a].submitted /\ rows[Latest].attempt = a
      /\ checkOf[Latest] = "open" /\ admitted' = admitted \cup {a}
      /\ UNCHANGED <<rows, checkOf, work>>
  BY DEF Admit, gitHub
<1>2. /\ Latest \in Generations /\ \A later \in Generations : later > Latest => ~Exists(later)
  BY LatestIsThere DEF AttemptInv, ChecksOK, RowsInLine
<1>3. /\ Owners[Latest] = a
      /\ \A later \in Generations : later > Latest => checkOf[later] = "none"
  BY <1>1, <1>2, MadeRows
<1>4. a \notin Unneeded
  BY <1>1 DEF Unneeded, LineInv, RunsNeedWork
<1>5. UNCHANGED <<Owners, Unneeded>>
  BY <1>1 DEF Owners, OwnerOf, Unneeded
<1>6. Line!Newest(Latest)
  BY <1>1, <1>3 DEF Line!Newest, Line!Made
<1> QED
  BY <1>1, <1>2, <1>3, <1>4, <1>5, <1>6 DEF Line!Next, Line!Admit

LEMMA PlansInLine ==
  ASSUME AttemptInv, LineInv, NoRow, UNCHANGED admitted, NEW a \in Attempts, NewPlan(a)
  PROVE  [Line!Next]_(Line!commitChecks)
<1>1. UNCHANGED <<checkOf, Owners, admitted>>
  BY DEF NoRow, Owners, OwnerOf
<1>2. a \notin admitted
  BY DEF NewPlan, LineInv, RunsNeedWork
<1>3. CASE work'[a].plan = "none"
  <2>1. Unneeded' = Unneeded \cup {a} /\ a \notin Unneeded
    BY <1>3 DEF Unneeded, NewPlan
  <2> QED BY <1>1, <1>2, <2>1 DEF Line!Next, Line!PlanNothing
<1>4. CASE work'[a].plan # "none"
  <2>1. Unneeded' = Unneeded
    BY <1>4 DEF Unneeded, NewPlan
  <2> QED BY <1>1, <2>1 DEF Line!commitChecks
<1> QED BY <1>3, <1>4

LEMMA EditsInLine ==
  ASSUME AttemptInv, LineInv, UNCHANGED <<admitted, Unneeded>>, NEW g \in Generations,
         NoRow \/ Edits(g) \/ Advances(g) \/ \E a \in Attempts : Inserts(g, a)
  PROVE  UNCHANGED Line!commitChecks
<1>1. UNCHANGED checkOf
  BY DEF NoRow, Edits, Advances, Inserts
<1>2. ~Exists(g) => checkOf[g] = "none"
  BY DEF AttemptInv, ChecksOK, RowsInLine
<1>3. \A e \in Generations : checkOf[e] # "none" => rows'[e].attempt = rows[e].attempt
  BY <1>2 DEF NoRow, Edits, Advances, Inserts, OneRow
<1>4. Owners' = Owners
  BY <1>1, <1>3 DEF Owners, OwnerOf
<1> QED BY <1>1, <1>4 DEF Line!commitChecks

LEMMA CreatesInLine ==
  ASSUME AttemptInv, LineInv, UNCHANGED <<admitted, Unneeded>>, NEW g \in Generations, Creates(g)
  PROVE  Line!Next
<1>1. /\ checkOf[g] = "none" /\ Exists(g) /\ rows[g].attempt \in Attempts \cup {0}
      /\ \A later \in Generations : later > g => ~Exists(later)
      /\ checkOf' = [checkOf EXCEPT ![g] = "open"]
  <2>1. checkOf[g] = "none" /\ Exists(g)
    BY DEF Creates, Exists
  <2>2. rows[g] \in CheckRows
    BY DEF AttemptInv, ChecksOK, RowTypes
  <2>3. \A later \in Generations : later > g => ~Exists(later)
    BY DEF Creates, AttemptInv, ChecksOK, RowsInLine, Unready
  <2>4. 0..LastAttempt = Attempts \cup {0}
    BY AttemptsAssumption DEF Attempts
  <2> QED BY <2>1, <2>2, <2>3, <2>4 DEF CheckRows, Creates, Patch
<1>2. \A before \in Generations : before < g => checkOf[before] \in {"success", "failure"}
  <2> SUFFICES ASSUME NEW e \in Generations, e < g PROVE checkOf[e] \in {"success", "failure"}
    OBVIOUS
  <2>1. g > e
    BY Zeros
  <2>2. checkOf[e] # "open"
    BY <1>1, <2>1 DEF AttemptInv, ChecksOK, OneOpenCheck
  <2>3. checkOf[e] # "none"
    BY <1>1 DEF LineInv, QuietBefore, ChecksMade, CheckMade, Quiet, Written
  <2> QED BY <2>2, <2>3 DEF AttemptInv, ChecksOK, RowTypes, Shown
<1>3. rows[g].attempt = 0 => g = 0
  BY <1>1 DEF LineInv, BoundOnce
<1>4. rows[g].attempt # 0 => \A e \in Generations : Owners[e] # rows[g].attempt
  <2> SUFFICES ASSUME rows[g].attempt # 0, NEW e \in Generations, Owners[e] = rows[g].attempt
               PROVE  FALSE
    OBVIOUS
  <2>1. checkOf[e] # "none" /\ rows[e].attempt = rows[g].attempt
    BY OwnersAre
  <2>2. e = g
    BY <2>1 DEF LineInv, BoundOnce
  <2> QED BY <1>1, <2>1, <2>2
<1>5. Owners' = [Owners EXCEPT ![g] = rows[g].attempt]
  <2>1. \A e \in Generations : Owners'[e] = IF e = g THEN rows[g].attempt ELSE Owners[e]
    <3>1. \A e \in Generations : checkOf'[e] = IF e = g THEN "open" ELSE checkOf[e]
      BY <1>1 DEF AttemptInv, ChecksOK, RowTypes
    <3>2. UNCHANGED rows
      BY DEF Creates
    <3> QED BY <3>1, <3>2 DEF Owners, OwnerOf
  <2>2. Owners' = [e \in Generations |-> Owners'[e]]
    BY DEF Owners
  <2>3. DOMAIN Owners = Generations
    BY DEF Owners
  <2> QED BY <2>1, <2>2, <2>3
<1>6. checkOf' # checkOf
  BY <1>1 DEF AttemptInv, ChecksOK, RowTypes
<1>7. \A later \in Generations : later > g => checkOf[later] = "none"
  BY <1>1, MadeRows
<1>8. Line!Make(g)
  BY <1>1, <1>2, <1>3, <1>4, <1>5, <1>7 DEF Line!Make, Line!Made, Line!Closed, Line!Owns
<1> QED BY <1>6, <1>8 DEF Line!Next

LEMMA BindsInLine ==
  ASSUME AttemptInv, LineInv, UNCHANGED <<admitted, Unneeded>>, NEW g \in Generations,
         NEW a \in Attempts, Binds(g, a)
  PROVE  Line!Next
<1>1. /\ OneRow(g) /\ UNCHANGED checkOf /\ rows'[g].attempt = a /\ rows[g].attempt = 0
      /\ Written(g) /\ ~Quiet(g) /\ Exists(g) /\ BoundTo(a) = {}
  BY DEF Binds, Written, Quiet, Exists
<1>2. g = 0 /\ checkOf[g] # "none"
  BY <1>1 DEF LineInv, BoundOnce, ChecksMade, CheckMade
<1>3. \A later \in Generations : later > g => ~Exists(later)
  <2> SUFFICES ASSUME NEW e \in Generations, e > g, Exists(e) PROVE FALSE
    OBVIOUS
  <2>1. g < e
    BY Zeros
  <2> QED BY <1>1, <2>1 DEF LineInv, QuietBefore
<1>4. Owners[g] = 0 /\ \A later \in Generations : later > g => checkOf[later] = "none"
  BY <1>1, <1>2, <1>3, MadeRows
<1>5. \A e \in Generations : Owners[e] # a
  <2>1. \A e \in Generations : rows[e].attempt # a
    BY <1>1, BoundRows
  <2> QED BY <2>1, OwnersAre, Zeros
<1>6. Owners' = [Owners EXCEPT ![g] = a]
  <2>1. \A e \in Generations : Owners'[e] = IF e = g THEN a ELSE Owners[e]
    BY <1>1, <1>2 DEF Owners, OwnerOf, OneRow
  <2>2. Owners' = [e \in Generations |-> Owners'[e]]
    BY DEF Owners
  <2>3. DOMAIN Owners = Generations
    BY DEF Owners
  <2> QED BY <2>1, <2>2, <2>3
<1>7. Owners'[0] # Owners[0]
  <2>1. Owners'[g] = a
    BY <1>1, <1>2 DEF Owners, OwnerOf
  <2> QED BY <1>2, <1>4, <2>1, Zeros
<1>8. Line!Bind(a)
  BY <1>1, <1>2, <1>4, <1>5, <1>6 DEF Line!Bind, Line!Newest, Line!Made, Line!Owns
<1> QED BY <1>7, <1>8 DEF Line!Next

LEMMA PatchesInLine ==
  ASSUME AttemptInv, LineInv, UNCHANGED <<admitted, Unneeded>>, NEW g \in Generations,
         NEW result \in Results, Patches(g, result)
  PROVE  [Line!Next]_(Line!commitChecks)
<1>1. /\ UNCHANGED rows /\ checkOf' = [checkOf EXCEPT ![g] = result] /\ Written(g)
      /\ result \in {"open", "success", "failure"}
  BY DEF Patches, Patch, Results, Shown
<1>2. checkOf[g] # "none" /\ Owners[g] = rows[g].attempt
  BY <1>1, MadeRows DEF LineInv, ChecksMade, CheckMade
<1>3. Owners' = Owners
  <2>1. \A e \in Generations : checkOf'[e] = IF e = g THEN result ELSE checkOf[e]
    BY <1>1 DEF AttemptInv, ChecksOK, RowTypes
  <2>2. \A e \in Generations : checkOf'[e] = "none" <=> checkOf[e] = "none"
    BY <1>1, <1>2, <2>1
  <2> QED BY <1>1, <2>2 DEF Owners, OwnerOf
<1>4. CASE UNCHANGED checkOf
  BY <1>3, <1>4 DEF Line!commitChecks
<1>5. CASE ~UNCHANGED checkOf /\ result = "open"
  <2>1. /\ rows[g].attempt \in admitted
        /\ \A later \in Generations : later > g => checkOf[later] = "none"
    BY <1>5, MadeRows DEF Patches
  <2>2. Line!Reopen(g)
    BY <1>1, <1>2, <1>3, <1>5, <2>1 DEF Line!Reopen, Line!Newest, Line!Made
  <2> QED BY <1>5, <2>2 DEF Line!Next
<1>6. CASE ~UNCHANGED checkOf /\ result # "open"
  <2>1. result = "success" => rows[g].attempt \in admitted \cup Unneeded
    BY DEF Patches, AttemptInv, ChecksOK, NonePlanned, Unneeded
  <2>2. Line!Close(g, result) /\ result \in {"success", "failure"}
    BY <1>1, <1>2, <1>3, <1>6, <2>1 DEF Line!Close, Line!Made
  <2> QED BY <1>6, <2>2 DEF Line!Next
<1> QED BY <1>4, <1>5, <1>6

LEMMA LineStep ==
  AttemptInv /\ LineInv /\ [ANext]_attemptVars => [Line!Next]_(Line!commitChecks)
<1> SUFFICES ASSUME AttemptInv, LineInv, [ANext]_attemptVars
             PROVE  [Line!Next]_(Line!commitChecks)
  OBVIOUS
<1>1. CASE \E a \in Attempts : Admit(a)
  BY <1>1, AdmitsInLine
<1>2. CASE NoRow /\ UNCHANGED admitted /\ \E a \in Attempts : NewPlan(a)
  BY <1>2, PlansInLine
<1>3. CASE UNCHANGED admitted /\ WorkKept
  <2>1. UNCHANGED <<admitted, Unneeded>>
    BY <1>3 DEF WorkKept, Unneeded
  <2>2. CASE NoRow
    BY <2>1, <2>2, Zeros, EditsInLine
  <2>3. ASSUME NEW g \in Generations,
               Edits(g) \/ Advances(g) \/ \E a \in Attempts : Inserts(g, a)
        PROVE  UNCHANGED Line!commitChecks
    BY <2>1, <2>3, EditsInLine
  <2>4. ASSUME NEW g \in Generations, Creates(g) \/ \E a \in Attempts : Binds(g, a)
        PROVE  Line!Next
    BY <2>1, <2>4, CreatesInLine, BindsInLine
  <2>5. ASSUME NEW g \in Generations, NEW result \in Results, Patches(g, result)
        PROVE  [Line!Next]_(Line!commitChecks)
    BY <2>1, <2>5, PatchesInLine
  <2> QED BY <2>2, <2>3, <2>4, <2>5, StepEffect DEF RowEffect
<1> QED BY <1>1, <1>2, <1>3, RunsAfter, WorkEffect

LEMMA LineBegins == AInit => Line!Init
<1> SUFFICES ASSUME AInit PROVE Line!Init
  OBVIOUS
<1>1. checkOf = [g \in Generations |-> "none"] /\ admitted = {} /\ Unneeded = {}
  BY DEF AInit, Unneeded
<1>2. Owners = [g \in Generations |-> 0]
  BY <1>1 DEF Owners, OwnerOf
<1> QED BY <1>1, <1>2 DEF Line!Init

(* What stands between the generations of a commit: each attempt is bound  *)
(* to one, a later one only follows what is fenced, a row that was written *)
(* has its check, and a run has visual work.                               *)
THEOREM LineStays == ASpec => [](AttemptInv /\ LineInv)
<1>1. AInit => LineInv
  BY LineStart
<1>2. AttemptInv /\ AttemptInv' /\ LineInv /\ [ANext]_attemptVars => LineInv'
  BY LineInvStep
<1> QED BY <1>1, <1>2, AttemptsCorrect, PTL DEF ASpec

(* ensureSignedAttemptCheck, bindWorkflowCheck and settlePreRunWorkflow    *)
(* keep the promise of CommitChecks: checks come one after the other, each *)
(* belongs to one attempt for good, only the newest one is open, and a     *)
(* closed one opens again only for the result of its run.                  *)
THEOREM AttemptsImplementChecks == ASpec => ImplementsChecks
<1>1. AInit => Line!Init
  BY LineBegins
<1>2. AttemptInv /\ LineInv /\ [ANext]_attemptVars => [Line!Next]_(Line!commitChecks)
  BY LineStep
<1> QED BY <1>1, <1>2, LineStays, PTL DEF ASpec, ImplementsChecks, Line!Spec

=============================================================================
