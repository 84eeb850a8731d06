-------------------------- MODULE WorkflowAttempts --------------------------
(***************************************************************************)
(* The checks of one commit of main through the attempts of its workflow.  *)
(*                                                                         *)
(* Each attempt that does visual work has a generation of the row of       *)
(* pre_run_checks, with a check of its own.  A signed Submit or a signed   *)
(* report of the Plan binds the check or closes the one before it; the     *)
(* delivery of the end of the workflow settles it; and main may move on.   *)
(* Each of them reads, calls GitHub and writes with others in between.     *)
(*                                                                         *)
(* The creation of a check is marked, lands, is stored and is verified,    *)
(* whoever calls (PreRunCheckCreation has the claims and their leases);    *)
(* and a PATCH of the outbox is sent and lands (see StatusDelivery).       *)
(***************************************************************************)
EXTENDS Integers, FiniteSets

CONSTANTS
  Handlers,     \* concurrent requests and deliveries
  LastAttempt,  \* bound: attempts of the workflow
  MaxHalts      \* bound: requests that stop midway

ASSUME AttemptsAssumption == LastAttempt \in Nat \ {0} /\ MaxHalts \in Nat

Attempts == 1..LastAttempt
Generations == 0..LastAttempt

VARIABLES
  rows,      \* per generation: its row of pre_run_checks; attempt 0 is NULL
  checkOf,   \* GitHub: what the check of a generation shows
  sending,   \* generations whose request_started or ambiguous is set
  newest,    \* GitHub: the run_attempt of the workflow
  work,      \* GitHub: per attempt, if it ended, its Plan and where that ran, and its Submit
  admitted,  \* attempts with a run
  receipts,  \* attempts whose completed delivery waits
  moved,     \* GitHub: main has a later commit
  handler,   \* per request: its place and locals
  halts      \* requests that stopped midway

attemptVars ==
  <<rows, checkOf, sending, newest, work, admitted, receipts, moved, handler, halts>>
gitHub == <<newest, work, moved>>

\* A creating or ambiguous row whose POST started is "posted" while its check_id is
\* NULL, and "stored" when it names its check.
CheckRowStates == {"absent", "pending", "posted", "stored", "active", "failed", "docs_complete"}
Unready == {"pending", "posted", "stored"}
Plans == {"unknown", "visual", "none"}
Shown == {"none", "open", "success", "failure"}
Results == Shown \ {"none"}
Kinds == {"submit", "report", "settle"}
HandlerPlaces ==
  {"idle", "ensure", "bind", "unbound", "previous", "fence", "readSending", "close",
   "patchClosed", "insert", "inherit", "record", "report", "noVisual", "patchPassed", "passed",
   "settle", "decide", "patchFailed", "failed", "moved", "retire", "readRetired", "patchRetired"}

NoCheckRow == [state |-> "absent", attempt |-> 0, plan |-> "unknown"]
HandlerIdle == [at |-> "idle", kind |-> "settle", attempt |-> 1, gen |-> 0, read |-> NoCheckRow]

Exists(g) == rows[g].state # "absent"
\* storedCheck: the latest generation of the commit.
Latest == CHOOSE g \in Generations : Exists(g) /\ \A later \in Generations : later > g => ~Exists(later)
\* attemptCheck: the generations that an attempt bound; there is at most one.
BoundTo(a) == {g \in Generations : Exists(g) /\ rows[g].attempt = a}

To(h, place) == handler' = [handler EXCEPT ![h].at = place]
Forget(h, place) == handler' = [handler EXCEPT ![h].at = place, ![h].read = NoCheckRow]
\* The request is over, or an error ended it.
Over(h) == handler' = [handler EXCEPT ![h] = HandlerIdle]
Continue(h, place, g) ==
  handler' = [handler EXCEPT ![h].at = place, ![h].gen = g, ![h].read = rows[g]]
SetState(g, from, to) ==
  rows' = IF rows[g].state = from THEN [rows EXCEPT ![g].state = to] ELSE rows
Patch(g, conclusion) == checkOf' = [checkOf EXCEPT ![g] = conclusion]

AInit ==
  /\ rows = [g \in Generations |-> IF g = 0 THEN [NoCheckRow EXCEPT !.state = "pending"] ELSE NoCheckRow]
  /\ checkOf = [g \in Generations |-> "none"] /\ sending = {}
  /\ newest = 1 /\ moved = FALSE
  /\ work = [a \in Attempts |-> [ended |-> FALSE, plan |-> "unknown", source |-> a, submitted |-> FALSE]]
  /\ admitted = {} /\ receipts = {}
  /\ handler = [h \in Handlers |-> HandlerIdle] /\ halts = 0

-----------------------------------------------------------------------------
(* The workflow on GitHub.                                                 *)
PlanRuns(plan) ==
  /\ ~work[newest].ended /\ work[newest].plan = "unknown"
  /\ work' = [work EXCEPT ![newest].plan = plan]
  /\ UNCHANGED <<rows, checkOf, sending, newest, admitted, receipts, moved, handler, halts>>

\* A job ends after the answers to its requests.
EndWorkflow ==
  /\ ~work[newest].ended
  /\ \A h \in Handlers : handler[h].at # "idle" /\ handler[h].kind # "settle"
                           => handler[h].attempt # newest
  /\ work' = [work EXCEPT ![newest].ended = TRUE]
  /\ receipts' = receipts \cup {newest}
  /\ UNCHANGED <<rows, checkOf, sending, newest, admitted, moved, handler, halts>>

\* A rerun of failed jobs carries a Plan that succeeded; one of all jobs runs it again.
Rerun(carried) ==
  /\ work[newest].ended /\ newest < LastAttempt
  /\ carried => work[newest].plan # "unknown"
  /\ newest' = newest + 1
  /\ work' = IF carried
                THEN [work EXCEPT ![newest + 1].plan = work[newest].plan,
                                  ![newest + 1].source = work[newest].source]
                ELSE work
  /\ UNCHANGED <<rows, checkOf, sending, admitted, receipts, moved, handler, halts>>

MainMoves ==
  /\ ~moved /\ moved' = TRUE
  /\ UNCHANGED <<rows, checkOf, sending, newest, work, admitted, receipts, handler, halts>>

-----------------------------------------------------------------------------
(* The run of an attempt, and the outbox of its check.                     *)
Admit(a) ==
  /\ a \notin admitted /\ work[a].submitted
  /\ rows[Latest].attempt = a /\ rows[Latest].state = "active"
  /\ rows[Latest].plan = "visual" /\ checkOf[Latest] = "open"
  /\ admitted' = admitted \cup {a}
  /\ UNCHANGED <<rows, checkOf, sending, gitHub, receipts, handler, halts>>

\* currentPreRunCheckSql
CurrentCheck(g) == rows[g].state = "active" /\ rows[g].plan # "unknown" /\ g = Latest

Send(g) ==
  /\ g \notin sending /\ rows[g].attempt \in admitted /\ CurrentCheck(g)
  /\ sending' = sending \cup {g}
  /\ UNCHANGED <<rows, checkOf, gitHub, admitted, receipts, handler, halts>>

Land(g, result) ==
  /\ g \in sending /\ sending' = sending \ {g}
  /\ Patch(g, result)
  /\ UNCHANGED <<rows, gitHub, admitted, receipts, handler, halts>>

-----------------------------------------------------------------------------
(* Signed requests of a running attempt: ensureSignedAttemptCheck.         *)
rest == <<sending, gitHub, admitted, halts>>
Reads == <<rows, checkOf, rest, receipts>>  \* a step that only reads

At(h, place) == handler[h].at = place
Me(h) == handler[h].attempt
Read(h) == handler[h].read
Gen(h) == handler[h].gen

PlanOf(a) == IF BoundTo(a) = {} THEN "unknown" ELSE rows[CHOOSE g \in BoundTo(a) : TRUE].plan

SignedCall(h, kind) ==
  /\ At(h, "idle") /\ ~work[newest].ended
  /\ work[newest].plan = IF kind = "submit" THEN "visual" ELSE "none"
  /\ kind = "submit" => ~work[newest].submitted /\ PlanOf(newest) # "none"
  /\ kind = "report" => work[newest].source = newest /\ PlanOf(newest) # "visual"
  /\ moved => PlanOf(newest) = "none"  \* workflowCandidate
  /\ handler' = [handler EXCEPT ![h] =
       IF kind = "report" /\ PlanOf(newest) = "none"
         THEN [HandlerIdle EXCEPT !.at = "noVisual", !.kind = kind, !.attempt = newest,
                                  !.gen = CHOOSE g \in BoundTo(newest) : TRUE]
         ELSE [HandlerIdle EXCEPT !.at = "ensure", !.kind = kind, !.attempt = newest,
                                  !.gen = Latest]]
  /\ UNCHANGED Reads

\* ensureStoredCheck of a row without an active check: the mark of its POST, a POST
\* without an answer or a claim that another call holds, the UPDATE with the check
\* that was made or found, and finishCreation, which wants the candidate to be current.
Create(h, g) ==
  \/ rows[g].state = "pending" /\ SetState(g, "pending", "posted") /\ UNCHANGED handler
  \/ rows[g].state = "posted" /\ Over(h) /\ UNCHANGED rows
  \/ /\ rows[g].state = "posted" /\ checkOf[g] # "none"
     /\ SetState(g, "posted", "stored") /\ UNCHANGED handler
  \/ /\ rows[g].state = "stored"
     /\ IF moved \/ g # Latest
          THEN Over(h) /\ UNCHANGED rows
          ELSE SetState(g, "stored", "active") /\ UNCHANGED handler

\* The check is made, whether or not its request still waits.
PostLands(g) ==
  /\ rows[g].state = "posted" /\ checkOf[g] = "none"
  /\ Patch(g, "open")
  /\ UNCHANGED <<rows, sending, gitHub, admitted, receipts, handler, halts>>

\* ensureStoredCheck of the candidate, and the read that follows.
EnsureCheck(h) ==
  /\ At(h, "ensure")
  /\ IF rows[Gen(h)].state \in Unready
       THEN Create(h, Gen(h))
       ELSE /\ handler' = [handler EXCEPT ![h].at = "bind", ![h].read = rows[Gen(h)]]
            /\ UNCHANGED rows
  /\ UNCHANGED <<checkOf, rest, receipts>>

-----------------------------------------------------------------------------
(* bindWorkflowCheck, with the candidate that its caller read.             *)
Bind(h) ==
  /\ At(h, "bind")
  /\ \/ /\ BoundTo(Me(h)) # {}
        /\ LET g == CHOOSE b \in BoundTo(Me(h)) : TRUE
           IN IF rows[g].state \in Unready
                THEN Create(h, g)
                ELSE Continue(h, "inherit", g) /\ UNCHANGED rows
     \/ /\ BoundTo(Me(h)) = {}
        /\ CASE Read(h).state \in Unready -> Over(h)
             [] Read(h).state = "active" /\ Read(h).attempt = 0 /\ checkOf[Gen(h)] = "open" ->
                  To(h, "unbound")
             [] OTHER -> To(h, "previous")
        /\ UNCHANGED rows
  /\ UNCHANGED <<checkOf, rest, receipts>>

\* An attempt binds one row: another one is an error.
BindUnbound(h) ==
  /\ At(h, "unbound")
  /\ LET free == rows[Gen(h)].state = "active" /\ rows[Gen(h)].attempt = 0
     IN IF free /\ BoundTo(Me(h)) # {}
          THEN Over(h) /\ UNCHANGED rows
          ELSE /\ rows' = IF free THEN [rows EXCEPT ![Gen(h)].attempt = Me(h)] ELSE rows
               /\ LET bound == {g \in Generations : rows'[g].attempt = Me(h)}
                  IN IF bound = {} THEN To(h, "previous")
                     ELSE \E g \in bound :
                       handler' = [handler EXCEPT ![h].at = "inherit", ![h].gen = g,
                                                  ![h].read = rows'[g]]
  /\ UNCHANGED <<checkOf, rest, receipts>>

\* An open check is only taken over from an earlier attempt of this workflow that ended.
ReadPrevious(h) ==
  /\ At(h, "previous")
  /\ IF checkOf[Gen(h)] = "open"
          /\ ~(Read(h).attempt \in 1..Me(h) - 1 /\ work[Read(h).attempt].ended)
       THEN Over(h) ELSE Forget(h, "fence")
  /\ UNCHANGED Reads

FencePrevious(h) ==
  /\ At(h, "fence")
  /\ SetState(Gen(h), "active", "failed")
  /\ To(h, "readSending")
  /\ UNCHANGED <<checkOf, rest, receipts>>

\* Mutant: the sender is not looked for.
SenderUnread(g) == FALSE

Sender(g) == g \in sending

ReadSending(h) ==
  /\ At(h, "readSending")
  /\ IF Sender(Gen(h)) THEN Over(h) ELSE To(h, "close")
  /\ UNCHANGED Reads

ReadSettled(h) ==
  /\ At(h, "close")
  /\ To(h, IF checkOf[Gen(h)] = "open" THEN "patchClosed" ELSE "insert")
  /\ UNCHANGED Reads

ClosePrevious(h) ==
  /\ At(h, "patchClosed")
  /\ Patch(Gen(h), "failure") /\ To(h, "insert")
  /\ UNCHANGED <<rows, rest, receipts>>

\* The next generation is inserted unless it or the attempt has a row; Bind creates its check.
InsertNext(h) ==
  /\ At(h, "insert")
  /\ LET next == Gen(h) + 1
     IN /\ rows' = IF next \in Generations /\ ~Exists(next) /\ BoundTo(Me(h)) = {}
                     THEN [rows EXCEPT ![next] =
                            [state |-> "pending", attempt |-> Me(h), plan |-> "unknown"]]
                     ELSE rows
        /\ IF next \in Generations /\ rows'[next].attempt = Me(h) THEN To(h, "bind") ELSE Over(h)
  /\ UNCHANGED <<checkOf, rest, receipts>>

-----------------------------------------------------------------------------
(* The Plan of the attempt: inheritVisualPlan, recordRequiredVisualPlan,   *)
(* reportVisualPlan and completeNoVisualPlan.                              *)

\* Mutant: a Plan is inherited by the name of its job.
ExecutionByName(b, a) == "carried"

\* The Plan of attempt a beside the one recorded for b: jobExecutedInAttempt
\* and verifyCarriedExecution.
Execution(b, a) ==
  CASE work[a].source = a -> "again"
    [] work[a].source < a /\ work[a].source = work[b].source -> "carried"
    [] OTHER -> "changed"

\* The newest earlier attempt with a recorded Plan.
PriorPlan(a) ==
  {b \in 1..a - 1 : PlanOf(b) # "unknown" /\ \A c \in b + 1..a - 1 : PlanOf(c) = "unknown"}

AfterPlan(h) ==
  CASE handler[h].kind = "submit" -> "record"
    [] handler[h].kind = "report" -> "report"
    [] OTHER -> "decide"

Inherit(h) ==
  /\ At(h, "inherit")
  /\ \/ /\ Read(h).plan # "unknown" \/ PriorPlan(Me(h)) = {}
        /\ Forget(h, AfterPlan(h)) /\ UNCHANGED rows
     \/ \E b \in PriorPlan(Me(h)) :
          LET free == rows[Gen(h)].state = "active" /\ rows[Gen(h)].plan = "unknown"
              how == Execution(b, Me(h))
          IN /\ Read(h).plan = "unknown"
             /\ rows' = IF how = "carried" /\ free
                          THEN [rows EXCEPT ![Gen(h)].plan = PlanOf(b)] ELSE rows
             /\ CASE how = "changed" -> Over(h)
                  [] how = "carried" /\ free /\ PlanOf(b) = "none" -> Forget(h, "noVisual")
                  [] OTHER -> Forget(h, AfterPlan(h))
  /\ UNCHANGED <<checkOf, rest, receipts>>

\* The conditional UPDATE decides, whatever the row showed before; the Submit can follow.
RecordVisual(h) ==
  /\ At(h, "record")
  /\ IF rows[Gen(h)].state = "active" /\ rows[Gen(h)].plan # "none"
       THEN /\ rows' = [rows EXCEPT ![Gen(h)].plan = "visual"]
            /\ \E succeeds \in BOOLEAN : work' = [work EXCEPT ![Me(h)].submitted = @ \/ succeeds]
       ELSE UNCHANGED <<rows, work>>
  /\ Over(h)
  /\ UNCHANGED <<checkOf, sending, newest, moved, admitted, halts, receipts>>

RecordNone(h) ==
  /\ At(h, "report")
  /\ IF rows[Gen(h)].state = "active" /\ rows[Gen(h)].plan # "visual"
       THEN /\ rows' = [rows EXCEPT ![Gen(h)].plan = "none"]
            /\ To(h, "noVisual")
       ELSE Over(h) /\ UNCHANGED rows
  /\ UNCHANGED <<checkOf, rest, receipts>>

\* Where a request continues after completeNoVisualPlan.
AfterNone(h) == IF handler[h].kind = "settle" THEN To(h, "decide") ELSE Over(h)

ReadNone(h) ==
  /\ At(h, "noVisual")
  /\ CASE rows[Gen(h)].plan # "none" \/ rows[Gen(h)].state = "docs_complete" -> AfterNone(h)
       [] Gen(h) # Latest -> Over(h)
       [] OTHER -> To(h, "patchPassed")
  /\ UNCHANGED Reads

PatchPassed(h) ==
  /\ At(h, "patchPassed")
  /\ Patch(Gen(h), "success") /\ To(h, "passed")
  /\ UNCHANGED <<rows, rest, receipts>>

CompleteNone(h) ==
  /\ At(h, "passed")
  /\ SetState(Gen(h), "active", "docs_complete")
  /\ AfterNone(h)
  /\ UNCHANGED <<checkOf, rest, receipts>>

-----------------------------------------------------------------------------
(* The completed delivery of an attempt: settlePreRunWorkflow.             *)
Acknowledge(h) == Over(h) /\ receipts' = receipts \ {Me(h)}
Later(h, place) == To(h, place) /\ UNCHANGED receipts
Throws(h) == Over(h) /\ UNCHANGED receipts

\* The delivery of an attempt before the newest is historical.
DeliverEnd(h, a) ==
  /\ At(h, "idle") /\ a \in receipts
  /\ IF a < newest
       THEN receipts' = receipts \ {a} /\ UNCHANGED handler
       ELSE /\ handler' = [handler EXCEPT ![h] = [HandlerIdle EXCEPT !.at = "settle", !.attempt = a]]
            /\ UNCHANGED receipts
  /\ UNCHANGED <<rows, checkOf, rest>>

\* check_id is NULL, though the check may be open on GitHub.
Unnamed(g) == rows[g].state \in {"pending", "posted"}

\* A workflow that bound no check settles none but an open one that no attempt has bound.
NothingToSettle(a, g) ==
  \/ rows[g].state = "docs_complete" /\ rows[g].attempt = a
  \/ Unnamed(g)
  \/ BoundTo(a) = {} /\ (rows[g].attempt # 0 \/ checkOf[g] # "open")

Candidate(h) ==
  /\ At(h, "settle")
  /\ CASE moved -> Later(h, "moved")
       [] ~moved /\ NothingToSettle(Me(h), Latest) -> Acknowledge(h)
       [] OTHER -> Continue(h, "bind", Latest) /\ UNCHANGED receipts
  /\ UNCHANGED <<rows, checkOf, rest>>

\* The row, its run, its check and the jobs of the workflow.
Decide(h) ==
  /\ At(h, "decide")
  /\ LET row == rows[Gen(h)]
     IN CASE row.state \in {"docs_complete", "failed"} \/ Me(h) \in admitted -> Acknowledge(h)
          [] row.state = "active" /\ Me(h) \notin admitted /\ checkOf[Gen(h)] = "failure" ->
               Later(h, "failed")
          [] row.state = "active" /\ Me(h) \notin admitted /\ checkOf[Gen(h)] = "open" ->
               IF work[Me(h)].submitted /\ row.plan = "visual" THEN Acknowledge(h)
               ELSE Later(h, "patchFailed")
          [] OTHER -> Throws(h)
  /\ UNCHANGED <<rows, checkOf, rest>>

FailCheck(h) ==
  /\ At(h, "patchFailed")
  /\ Patch(Gen(h), "failure") /\ To(h, "failed")
  /\ UNCHANGED <<rows, rest, receipts>>

StoreFailed(h) ==
  /\ At(h, "failed")
  /\ SetState(Gen(h), "active", "failed")
  /\ Acknowledge(h)
  /\ UNCHANGED <<checkOf, rest>>

-----------------------------------------------------------------------------
(* The completed delivery after main moved: retireSupersededMainAttempt,   *)
(* or uncreatedSupersededMainAttemptIsHistorical when it bound no check.   *)
Uncreated(a) ==
  /\ BoundTo(a) = {}
  /\ \A g \in Generations : rows[g].state \notin {"absent", "pending"} \/ rows[g].attempt # 0
                              => rows[g].attempt \in Attempts \ {a}

\* Mutant: any open check is left to the sweeps.
LeftToSweeps(a, g) == checkOf[g] = "open" /\ rows[g].state = "active"

\* A sealed run, or a successful Submit that can still become one.
StillMaterializes(a, g) ==
  /\ checkOf[g] = "open" /\ rows[g].state = "active"
  /\ a \in admitted \/ work[a].submitted

SettleSuperseded(h) ==
  /\ At(h, "moved")
  /\ \/ /\ BoundTo(Me(h)) = {}
        /\ IF Uncreated(Me(h)) /\ Me(h) \notin admitted THEN Acknowledge(h) ELSE Throws(h)
     \/ \E g \in BoundTo(Me(h)) :
          CASE Unnamed(g) -> Throws(h)
            [] checkOf[g] = "success" \/ StillMaterializes(Me(h), g) -> Acknowledge(h)
            [] OTHER -> handler' = [handler EXCEPT ![h].at = "retire", ![h].gen = g]
                        /\ UNCHANGED receipts
  /\ UNCHANGED <<rows, checkOf, rest>>

\* retireBoundHistoricalCheck: one statement fences the row unless a sender is marked.
FenceRetired(h) ==
  /\ At(h, "retire")
  /\ LET g == Gen(h)
         free == rows[g].state = "active" /\ ~Sender(g)
     IN /\ rows' = IF free THEN [rows EXCEPT ![g].state = "failed"] ELSE rows
        /\ IF free \/ (rows[g].state = "failed" /\ ~Sender(g)) THEN To(h, "readRetired") ELSE Over(h)
  /\ UNCHANGED <<checkOf, rest, receipts>>

ReadRetired(h) ==
  /\ At(h, "readRetired")
  /\ IF checkOf[Gen(h)] = "open" THEN Later(h, "patchRetired") ELSE Acknowledge(h)
  /\ UNCHANGED <<rows, checkOf, rest>>

FailRetired(h) ==
  /\ At(h, "patchRetired")
  /\ Patch(Gen(h), "failure") /\ Acknowledge(h)
  /\ UNCHANGED <<rows, rest>>

\* The places after a write of a request: a stop before changes nothing.
Midway == {"ensure", "readSending", "close", "insert", "inherit", "noVisual", "patchPassed", "passed",
           "decide", "failed", "readRetired", "patchRetired", "patchClosed", "bind", "record", "report"}

\* A request stops midway; a delivery is processed again.
Halt(h) ==
  /\ handler[h].at \in Midway /\ halts < MaxHalts
  /\ halts' = halts + 1 /\ Over(h)
  /\ UNCHANGED <<rows, checkOf, sending, gitHub, admitted, receipts>>

HandlerStep(h) ==
  \/ EnsureCheck(h) \/ Bind(h) \/ BindUnbound(h) \/ ReadPrevious(h) \/ FencePrevious(h)
  \/ ReadSending(h) \/ ReadSettled(h) \/ ClosePrevious(h) \/ InsertNext(h)
  \/ Inherit(h) \/ RecordVisual(h) \/ RecordNone(h) \/ ReadNone(h) \/ PatchPassed(h)
  \/ CompleteNone(h) \/ Candidate(h) \/ Decide(h) \/ FailCheck(h) \/ StoreFailed(h)
  \/ SettleSuperseded(h) \/ FenceRetired(h) \/ ReadRetired(h) \/ FailRetired(h)

ANext ==
  \/ \E plan \in {"visual", "none"} : PlanRuns(plan)
  \/ EndWorkflow \/ MainMoves
  \/ \E carried \in BOOLEAN : Rerun(carried)
  \/ \E a \in Attempts : Admit(a)
  \/ \E g \in Generations : PostLands(g) \/ Send(g) \/ \E result \in Results : Land(g, result)
  \/ \E h \in Handlers :
       \/ \E kind \in {"submit", "report"} : SignedCall(h, kind)
       \/ \E a \in Attempts : DeliverEnd(h, a)
       \/ HandlerStep(h) \/ Halt(h)

ASpec == AInit /\ [][ANext]_attemptVars

(* Requests go on, senders end, and reconcileWebhooks comes back to the    *)
(* deliveries that wait.                                                   *)
AFairness ==
  /\ \A h \in Handlers : WF_attemptVars(HandlerStep(h))
  /\ WF_attemptVars(\E g \in Generations, result \in Results : Land(g, result))
  /\ WF_attemptVars(\E h \in Handlers, a \in Attempts : DeliverEnd(h, a))

-----------------------------------------------------------------------------
ATypeOK ==
  /\ rows \in [Generations -> [state : CheckRowStates, attempt : 0..LastAttempt, plan : Plans]]
  /\ checkOf \in [Generations -> Shown] /\ sending \subseteq Generations
  /\ newest \in Attempts /\ moved \in BOOLEAN
  /\ work \in [Attempts -> [ended : BOOLEAN, plan : Plans, source : Attempts, submitted : BOOLEAN]]
  /\ admitted \subseteq Attempts /\ receipts \subseteq Attempts
  /\ handler \in [Handlers -> [at : HandlerPlaces, kind : Kinds, attempt : Attempts,
                               gen : Generations,
                               read : [state : CheckRowStates, attempt : 0..LastAttempt, plan : Plans]]]
  /\ halts \in 0..MaxHalts

(* Only the newest generation can have an open check: a later attempt gets *)
(* a row after the check before it is closed, and no sender opens that     *)
(* again, though requests of both attempts run at a time.                  *)
OneOpenCheck ==
  \A g \in Generations : checkOf[g] = "open" =>
    \A later \in Generations : later > g => ~Exists(later)

(* A check passes without a run only when the Plan of its own attempt      *)
(* selected no visual work.                                                *)
PassedByPlan ==
  \A g \in Generations : checkOf[g] = "success" /\ rows[g].attempt \notin admitted =>
    /\ rows[g].attempt \in Attempts
    /\ work[rows[g].attempt].plan = "none"

\* A row has a check once it was created, and its attempt with it.
OwnerOf(g) == IF checkOf[g] = "none" THEN 0 ELSE rows[g].attempt
Owners == [g \in Generations |-> OwnerOf(g)]
Unneeded == {a \in Attempts : work[a].plan = "none"}
Line == INSTANCE CommitChecks WITH shown <- checkOf, owner <- Owners, runs <- admitted,
                                   unneeded <- Unneeded

(* Requests, deliveries and reruns, in any order and with any stops, keep  *)
(* the promise of the checks of a commit.                                  *)
ImplementsChecks == Line!Spec

\* A creation that no request takes up again: a delivery passes over a row that does
\* not name its check, and one that names it is not activated once main moved.
LeftBehind(g) == rows[g].state = "posted" \/ (rows[g].state = "stored" /\ moved)

\* The newest attempt ended without a successful Submit, and its check is
\* open.  Of two requests that run at a time, one that stops between the fence
\* and the PATCH can leave a failed row that the other one takes for a closed
\* check, once main moved.
Unsettled ==
  /\ work[newest].ended /\ ~work[newest].submitted
  /\ \E g \in BoundTo(newest) : checkOf[g] = "open" /\ ~LeftBehind(g)
  /\ ~(moved /\ halts > 0 /\ Cardinality(Handlers) > 1)

(* The delivery of an ended attempt closes its check, after any stop and   *)
(* whether or not main moved, unless a successful Submit or a rerun takes  *)
(* the commit on, or the check was left behind in its creation.            *)
EndedAttemptSettles == []<>~Unsettled
=============================================================================
