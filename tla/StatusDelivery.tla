--------------------------- MODULE StatusDelivery ---------------------------
(***************************************************************************)
(* The delivery of one run's result to its required GitHub check.          *)
(*                                                                         *)
(* Every change of the result is a revision of the project.  A revision    *)
(* becomes a row of work_status_outbox, a pass of the operations worker    *)
(* claims the newest row under a lease on the row of work_checks, reads    *)
(* the check on GitHub and sends one PATCH.  A PATCH without an answer     *)
(* locks the check until a later pass proves what GitHub has.  A rerun of  *)
(* the workflow can take the check over (Closer), with a fence that both   *)
(* sides test.                                                             *)
(*                                                                         *)
(* Every database batch is one action; each await between two batches, or  *)
(* between a batch and a GitHub request, is an interleaving point.  Times  *)
(* are kept relative to now: leaseLeft is lease_until - now, cut off at    *)
(* -ReleaseDelay, below which no guard tells values apart.                 *)
(***************************************************************************)
EXTENDS Integers, FiniteSets

CONSTANTS
  Passes,        \* concurrent passes of the operations worker
  Texts,         \* what a result says on GitHub: conclusion, title, summary
  InProgress,    \* the texts with the conclusion "pending"
  MaxRevision,   \* bound: revisions of the project
  MaxAttempts,   \* max_attempts of an outbox row
  Lease,         \* statusLeaseMilliseconds, in ticks
  WriteTime,     \* a PATCH changes the check within this time of its mark
  ReleaseDelay,  \* lockReleaseDelayMilliseconds, in ticks
  ReadRetry,     \* readRetryMs: attempt -> ticks
  Starting,      \* startingCheckOutput, the text of a new check
  Superseded,    \* the text a rerun closes the check with
  NoLease        \* lease_token IS NULL

ASSUME StatusAssumption ==
  /\ MaxRevision \in Nat \ {0} /\ MaxAttempts \in Nat \ {0}
  /\ Lease \in Nat \ {0} /\ WriteTime \in Nat \ {0} /\ ReleaseDelay \in Nat
  /\ ReadRetry \in [1..MaxAttempts -> Nat]
  /\ InProgress \subseteq Texts
  /\ Starting \notin Texts /\ Superseded \notin Texts /\ Starting # Superseded
  /\ NoLease \notin (1..MaxRevision) \X (1..MaxAttempts)

(* "A PATCH that got no answer stops after 15 seconds, so after this time  *)
(* it cannot change the check": the margin the lock release relies on.     *)
ASSUME WriteStopsInTime == WriteTime <= ReleaseDelay

VARIABLES
  \* the run and its project
  revision,        \* visonaut_projects.revision
  result,          \* what the current state of the run says
  eligible,        \* statusRunEligibleSql of the run
  \* the row of work_checks
  desired,         \* desired_revision, 0 while there is no row
  delivered,       \* delivered_revision, 0 for NULL
  lease,           \* lease_token; the claim of a row's attempt names the UUID
  leaseLeft,       \* lease_until - now
  requestStarted,  \* request_started: the mark directly before the PATCH
  ambiguous,       \* ambiguous: the check is locked
  \* the rows of work_status_outbox
  outbox,
  \* GitHub
  shown,           \* the text of the check
  shownRevision,   \* ghost: the revision whose PATCH changed it last
  writes,          \* PATCH requests that can still change the check
  \* the actors
  pass,            \* per pass: its place in deliverGitHubStatuses and locals
  current,         \* currentPreRunCheckSql: no rerun took the check over
  closer           \* the place of bindWorkflowCheck

checkVars  == <<desired, delivered, lease, leaseLeft, requestStarted, ambiguous>>
runVars    == <<revision, result, eligible>>
githubVars == <<shown, shownRevision>>
fenceVars  == <<current, closer>>
vars == <<runVars, checkVars, outbox, githubVars, writes, pass, fenceVars>>

Revisions == 1..MaxRevision
Tokens    == Revisions \X (1..MaxAttempts)
Completed(text) == text \in (Texts \ InProgress) \cup {Superseded}

RowStates == {"none", "pending", "sending", "complete", "dead", "obsolete"}
Rows == [state: RowStates, text: Texts \cup {Starting},
         attempts: 0..MaxAttempts, wait: Nat]
NoRow == [state |-> "none", text |-> Starting, attempts |-> 0, wait |-> 0]

Places == {"idle", "selected", "claimed", "reading", "checking", "marking",
           "confirming", "waiting", "settling", "comparing", "releasing"}
Outcomes == {"none", "delivered", "not-sent", "read-failed"}
Locals == [at: Places, token: Tokens \cup {NoLease}, text: Texts \cup {Starting},
           outcome: Outcomes, mark: BOOLEAN, landed: BOOLEAN, same: BOOLEAN,
           confirmed: 0..MaxRevision]
Idle == [at |-> "idle", token |-> NoLease, text |-> Starting, outcome |-> "none",
         mark |-> FALSE, landed |-> FALSE, same |-> FALSE, confirmed |-> 0]

Writes == [token: Tokens \cup {NoLease}, text: Texts \cup {Starting, Superseded},
           left: 0..WriteTime]
SenderWrites == {write \in writes : write.token # NoLease}
CloserWrites == {write \in writes : write.token = NoLease}

\* The text a confirmed revision left on the check: its creation for none.
TextOf(rev) == IF rev = 0 THEN Starting ELSE outbox[rev].text

-----------------------------------------------------------------------------
Init ==
  /\ revision = 1 /\ result \in Texts /\ eligible = TRUE
  /\ desired = 0 /\ delivered = 0 /\ lease = NoLease /\ leaseLeft = 0
  /\ requestStarted = FALSE /\ ambiguous = FALSE
  /\ outbox = [rev \in Revisions |-> NoRow]
  /\ shown = Starting /\ shownRevision = 0 /\ writes = {}
  /\ pass = [p \in Passes |-> Idle]
  /\ current = TRUE /\ closer = "idle"

(* A commit with touchRunStatusStatements, or one that moves the project   *)
(* revision and the result of this run without a touch of its check.       *)
ChangeResult(text, touch) ==
  /\ revision < MaxRevision
  /\ revision' = revision + 1
  /\ result' = text
  /\ desired' = IF touch /\ desired # 0 THEN revision' ELSE desired
  /\ UNCHANGED <<eligible, delivered, lease, leaseLeft, requestStarted, ambiguous,
                 outbox, githubVars, writes, pass, fenceVars>>

(* retireRun, or an admission that supersedes the run: it closes, touched. *)
CloseRun ==
  /\ eligible /\ revision < MaxRevision
  /\ eligible' = FALSE
  /\ revision' = revision + 1
  /\ desired' = IF desired # 0 THEN revision' ELSE desired
  /\ UNCHANGED <<result, delivered, lease, leaseLeft, requestStarted, ambiguous,
                 outbox, githubVars, writes, pass, fenceVars>>

(* prepareStatusIntent: its batch is guarded by the revisions it read, so  *)
(* the reads and the write are one step.  A row is due when the desired    *)
(* revision has none or is behind the project.                             *)
UpdateDue == desired = revision => outbox[revision].state = "none"

PrepareIntent ==
  /\ eligible /\ current /\ UpdateDue
  /\ desired' = revision
  /\ outbox' = [outbox EXCEPT ![revision] =
       IF @.state = "none"
         THEN [state |-> "pending", text |-> result, attempts |-> 0, wait |-> 0]
         ELSE [@ EXCEPT !.text = result]]
  /\ UNCHANGED <<runVars, delivered, lease, leaseLeft, requestStarted, ambiguous,
                 githubVars, writes, pass, fenceVars>>

-----------------------------------------------------------------------------
(* reconcileStatus.                                                        *)

LockExpiredRequest ==
  /\ lease # NoLease /\ requestStarted /\ ~ambiguous /\ leaseLeft <= 0
  /\ ambiguous' = TRUE
  /\ UNCHANGED <<runVars, desired, delivered, lease, leaseLeft, requestStarted,
                 outbox, githubVars, writes, pass, fenceVars>>

\* Mutants: an off-by-one in the last attempt, and a state the table refuses.
SettledStateOnceMore(rev, outcome) ==
  CASE rev # desired                          -> "obsolete"
    [] rev = desired /\ outcome = "delivered" -> "complete"
    [] OTHER -> IF outbox[rev].attempts > MaxAttempts THEN "dead" ELSE "pending"
SettledStateUnknown(rev, outcome) ==
  IF rev = desired /\ outcome = "delivered" THEN "complete" ELSE "retired"

\* The state that a settled row gets, and the row itself.
SettledState(rev, outcome) ==
  CASE rev # desired                          -> "obsolete"
    [] rev = desired /\ outcome = "delivered" -> "complete"
    [] OTHER -> IF outbox[rev].attempts >= MaxAttempts THEN "dead" ELSE "pending"

SettleRow(rev, outcome, wait) ==
  outbox' = [outbox EXCEPT ![rev].state = SettledState(rev, outcome), ![rev].wait = wait]

FreeLease ==
  /\ lease' = NoLease /\ leaseLeft' = 0
  /\ requestStarted' = FALSE /\ ambiguous' = FALSE

SettleAbandoned ==
  /\ lease # NoLease /\ ~requestStarted /\ ~ambiguous /\ leaseLeft <= 0
  /\ SettleRow(lease[1], "not-sent", 0)
  /\ FreeLease
  /\ UNCHANGED <<runVars, desired, delivered, githubVars, writes, pass, fenceVars>>

-----------------------------------------------------------------------------
(* One delivery of a pass: the list of due checks, the claim, the send.    *)

Become(p, me) == pass' = [pass EXCEPT ![p] = me]
Goto(p, place) == Become(p, [pass[p] EXCEPT !.at = place])
Settling(p, outcome, mark) ==
  Become(p, [pass[p] EXCEPT !.at = "settling", !.outcome = outcome, !.mark = mark])
GoIdle(p) == Become(p, Idle)

Select(p) ==
  /\ pass[p].at = "idle"
  /\ lease = NoLease /\ desired # 0
  /\ outbox[desired].state = "pending" /\ outbox[desired].wait = 0
  /\ eligible /\ current
  /\ Goto(p, "selected")
  /\ UNCHANGED <<runVars, checkVars, outbox, githubVars, writes, fenceVars>>

ClaimStatus(p) ==
  /\ pass[p].at = "selected"
  /\ LET row == outbox[desired]
         token == <<desired, row.attempts + 1>>
     IN IF /\ lease = NoLease /\ row.state = "pending"
           /\ row.attempts < MaxAttempts /\ row.wait = 0
          THEN /\ lease' = token /\ leaseLeft' = Lease /\ requestStarted' = FALSE
               /\ outbox' = [outbox EXCEPT ![desired].state = "sending",
                                           ![desired].attempts = @ + 1]
               /\ Become(p, [Idle EXCEPT !.at = "claimed", !.token = token])
          ELSE GoIdle(p) /\ UNCHANGED <<lease, leaseLeft, requestStarted, outbox>>
  /\ UNCHANGED <<runVars, desired, delivered, ambiguous, githubVars, writes, fenceVars>>

\* The test that deliverStatus and isStatusCurrent share.
LeaseCurrent(p) ==
  /\ lease = pass[p].token /\ desired = pass[p].token[1]
  /\ leaseLeft > 0 /\ ~ambiguous /\ ~requestStarted

BeginDelivery(p) ==
  /\ pass[p].at = "claimed"
  /\ IF LeaseCurrent(p) /\ outbox[pass[p].token[1]].state = "sending"
       THEN Become(p, [pass[p] EXCEPT !.at = "reading",
                                      !.text = outbox[pass[p].token[1]].text])
       ELSE Settling(p, "not-sent", FALSE)
  /\ UNCHANGED <<runVars, checkVars, outbox, githubVars, writes, fenceVars>>

\* Mutant: any completed result counts as the one already shown.
ReadCheckAnyResult(p) ==
  /\ pass[p].at = "reading"
  /\ Become(p, [pass[p] EXCEPT !.at = "checking", !.same = Completed(pass[p].text)])
  /\ UNCHANGED <<runVars, checkVars, outbox, githubVars, writes, fenceVars>>

(* sendGitHubCheck reads the check; a check that already shows the same    *)
(* completed result gets no PATCH.                                         *)
ReadCheck(p) ==
  /\ pass[p].at = "reading"
  /\ Become(p, [pass[p] EXCEPT !.at = "checking",
                  !.same = Completed(pass[p].text) /\ shown = pass[p].text])
  /\ UNCHANGED <<runVars, checkVars, outbox, githubVars, writes, fenceVars>>

(* The read fails, or shows a check of another owner: no request started.  *)
ReadFails(p) ==
  /\ pass[p].at = "reading"
  /\ Settling(p, "read-failed", FALSE)
  /\ UNCHANGED <<runVars, checkVars, outbox, githubVars, writes, fenceVars>>

(* Service.isStatusIntentCurrent, one read before the test of the outbox.  *)
RecheckIntent(p) ==
  /\ pass[p].at = "checking"
  /\ IF eligible /\ revision = pass[p].token[1]
       THEN Goto(p, IF pass[p].same THEN "confirming" ELSE "marking")
       ELSE Settling(p, "not-sent", FALSE)
  /\ UNCHANGED <<runVars, checkVars, outbox, githubVars, writes, fenceVars>>

ConfirmShown(p) ==
  /\ pass[p].at = "confirming"
  /\ Settling(p, IF LeaseCurrent(p) /\ current THEN "delivered" ELSE "not-sent", FALSE)
  /\ UNCHANGED <<runVars, checkVars, outbox, githubVars, writes, fenceVars>>

(* isStatusCurrent sets the request mark and the PATCH starts.             *)
MarkAndSend(p) ==
  /\ pass[p].at = "marking"
  /\ IF LeaseCurrent(p) /\ current
       THEN /\ requestStarted' = TRUE
            /\ writes' = writes \cup
                 {[token |-> pass[p].token, text |-> pass[p].text, left |-> WriteTime]}
            /\ Become(p, [pass[p] EXCEPT !.at = "waiting", !.mark = TRUE])
       ELSE /\ Settling(p, "not-sent", FALSE)
            /\ UNCHANGED <<requestStarted, writes>>
  /\ UNCHANGED <<runVars, desired, delivered, lease, leaseLeft, ambiguous, outbox,
                 githubVars, fenceVars>>

Answered(p) ==
  /\ pass[p].at = "waiting" /\ pass[p].landed
  /\ Settling(p, "delivered", TRUE)
  /\ UNCHANGED <<runVars, checkVars, outbox, githubVars, writes, fenceVars>>

\* Mutant: a PATCH without an answer counts as not sent.
RequestFailsAsNotSent(p) ==
  /\ pass[p].at = "waiting"
  /\ Settling(p, "not-sent", TRUE)
  /\ UNCHANGED <<runVars, checkVars, outbox, githubVars, writes, fenceVars>>

(* No answer: an error, a timeout, or an answer that was lost.             *)
RequestFails(p) ==
  /\ pass[p].at = "waiting"
  /\ ambiguous' = IF lease = pass[p].token THEN TRUE ELSE ambiguous
  /\ GoIdle(p)
  /\ UNCHANGED <<runVars, desired, delivered, lease, leaseLeft, requestStarted, outbox,
                 githubVars, writes, fenceVars>>

(* settleStatus: only with the lease, and with the mark this call set.     *)
SettleStatus(p) ==
  /\ pass[p].at = "settling"
  /\ LET me == pass[p]
         wait == IF me.outcome = "read-failed" THEN ReadRetry[me.token[2]] ELSE 0
     IN IF /\ lease = me.token
           /\ IF me.mark THEN requestStarted ELSE ~requestStarted /\ ~ambiguous
          THEN /\ SettleRow(me.token[1], me.outcome, wait)
               /\ delivered' = IF me.outcome = "delivered" THEN me.token[1] ELSE delivered
               /\ FreeLease
          ELSE UNCHANGED <<outbox, delivered, lease, leaseLeft, requestStarted, ambiguous>>
  /\ GoIdle(p)
  /\ UNCHANGED <<runVars, desired, githubVars, writes, fenceVars>>

(* The Worker stops; its request can still be on the way.                  *)
Crash(p) ==
  /\ pass[p].at # "idle"
  /\ GoIdle(p)
  /\ UNCHANGED <<runVars, checkVars, outbox, githubVars, writes, fenceVars>>

-----------------------------------------------------------------------------
(* releaseLock of a pass: read the lock, read GitHub, release.             *)

ReadStatusLock(p) ==
  /\ pass[p].at = "idle"
  /\ lease # NoLease /\ ambiguous /\ requestStarted /\ leaseLeft <= -ReleaseDelay
  /\ outbox[lease[1]].state = "sending"
  /\ outbox[desired].state # "none"  \* the attention list joins this row
  /\ Become(p, [Idle EXCEPT !.at = "comparing", !.token = lease,
                  !.text = outbox[lease[1]].text, !.confirmed = delivered])
  /\ UNCHANGED <<runVars, checkVars, outbox, githubVars, writes, fenceVars>>

\* Mutant: only the locked update is looked for, not the last confirmed one.
CompareShownLockedOnly(p) ==
  /\ pass[p].at = "comparing"
  /\ IF shown = pass[p].text
       THEN Become(p, [pass[p] EXCEPT !.at = "releasing", !.outcome = "delivered"])
       ELSE GoIdle(p)
  /\ UNCHANGED <<runVars, checkVars, outbox, githubVars, writes, fenceVars>>

CompareShown(p) ==
  /\ pass[p].at = "comparing"
  /\ IF shown \in {pass[p].text, TextOf(pass[p].confirmed)}
       THEN Become(p, [pass[p] EXCEPT !.at = "releasing",
              !.outcome = IF shown = pass[p].text THEN "delivered" ELSE "not-sent"])
       ELSE GoIdle(p)
  /\ UNCHANGED <<runVars, checkVars, outbox, githubVars, writes, fenceVars>>

ReleaseStatusLock(p) ==
  /\ pass[p].at = "releasing"
  /\ LET me == pass[p]
     IN IF /\ lease = me.token /\ ambiguous /\ requestStarted
           /\ leaseLeft <= -ReleaseDelay /\ delivered = me.confirmed
           /\ outbox[me.token[1]].state = "sending"
          THEN /\ SettleRow(me.token[1], me.outcome, 0)
               /\ delivered' = IF me.outcome = "delivered" THEN me.token[1] ELSE delivered
               /\ FreeLease
          ELSE UNCHANGED <<outbox, delivered, lease, leaseLeft, requestStarted, ambiguous>>
  /\ GoIdle(p)
  /\ UNCHANGED <<runVars, desired, githubVars, writes, fenceVars>>

-----------------------------------------------------------------------------
(* GitHub and the network.                                                 *)

RevisionOf(write) == IF write.token = NoLease THEN shownRevision ELSE write.token[1]

WriteLands(write) ==
  /\ shown' = write.text
  /\ shownRevision' = RevisionOf(write)
  /\ writes' = writes \ {write}
  /\ pass' = [p \in Passes |->
       IF pass[p].at = "waiting" /\ pass[p].token = write.token
         THEN [pass[p] EXCEPT !.landed = TRUE] ELSE pass[p]]
  /\ UNCHANGED <<runVars, checkVars, outbox, fenceVars>>

WriteLost(write) ==
  /\ writes' = writes \ {write}
  /\ UNCHANGED <<runVars, checkVars, outbox, githubVars, pass, fenceVars>>

(* A request is over within WriteTime, so time waits for it at its end.    *)
Tick ==
  /\ \A write \in writes : write.left > 0
  /\ writes' = {[write EXCEPT !.left = @ - 1] : write \in writes}
  /\ leaseLeft' = IF lease # NoLease /\ leaseLeft > -ReleaseDelay
                    THEN leaseLeft - 1 ELSE leaseLeft
  /\ outbox' = [rev \in Revisions |->
       [outbox[rev] EXCEPT !.wait = IF @ > 0 THEN @ - 1 ELSE 0]]
  /\ UNCHANGED <<runVars, desired, delivered, lease, requestStarted, ambiguous,
                 githubVars, pass, fenceVars>>

-----------------------------------------------------------------------------
(* bindWorkflowCheck of a verified rerun: it fences the check, then reads  *)
(* the request mark, then reads GitHub, and closes an open check.          *)

Fence ==
  /\ closer = "idle"
  /\ current' = FALSE
  /\ closer' = "fenced"
  /\ UNCHANGED <<runVars, checkVars, outbox, githubVars, writes, pass>>

\* Mutant: a rerun that does not read the request mark.
ReadMarkSkipped ==
  /\ closer = "fenced"
  /\ closer' = "clear"
  /\ UNCHANGED <<runVars, checkVars, outbox, githubVars, writes, pass, current>>

ReadMark ==
  /\ closer = "fenced"
  /\ closer' = IF requestStarted \/ ambiguous THEN "idle" ELSE "clear"
  /\ UNCHANGED <<runVars, checkVars, outbox, githubVars, writes, pass, current>>

CloseCheck ==
  /\ closer = "clear"
  /\ IF Completed(shown)
       THEN closer' = "done" /\ UNCHANGED writes
       ELSE /\ closer' = "closing"
            /\ writes' = writes \cup
                 {[token |-> NoLease, text |-> Superseded, left |-> WriteTime]}
  /\ UNCHANGED <<runVars, checkVars, outbox, githubVars, pass, current>>

VerifyClosed ==
  /\ closer = "closing" /\ shown = Superseded
  /\ closer' = "done"
  /\ UNCHANGED <<runVars, checkVars, outbox, githubVars, writes, pass, current>>

(* An error of a request, or a stopped Worker: a later delivery retries.   *)
CloserFails ==
  /\ closer \in {"fenced", "clear", "closing"}
  /\ closer' = "idle"
  /\ UNCHANGED <<runVars, checkVars, outbox, githubVars, writes, pass, current>>

Closing == Fence \/ ReadMark \/ CloseCheck \/ VerifyClosed \/ CloserFails

-----------------------------------------------------------------------------
Deliver(p) ==
  \/ Select(p) \/ ClaimStatus(p) \/ BeginDelivery(p) \/ ReadCheck(p) \/ ReadFails(p)
  \/ RecheckIntent(p) \/ ConfirmShown(p) \/ MarkAndSend(p) \/ Answered(p)
  \/ RequestFails(p) \/ SettleStatus(p) \/ ReadStatusLock(p) \/ CompareShown(p)
  \/ ReleaseStatusLock(p)

Next ==
  \/ \E text \in Texts, touch \in BOOLEAN : ChangeResult(text, touch)
  \/ CloseRun \/ PrepareIntent \/ LockExpiredRequest \/ SettleAbandoned
  \/ \E p \in Passes : Deliver(p) \/ Crash(p)
  \/ \E write \in writes : WriteLands(write) \/ WriteLost(write)
  \/ Tick
  \/ Closing

Spec == Init /\ [][Next]_vars

(* Passes run at least every 5 minutes, so what stays due is done; a pass  *)
(* may stop and a read may fail often, but not every time.                 *)
LockFairness ==
  /\ WF_vars(Tick) /\ WF_vars(LockExpiredRequest)
  /\ WF_vars(\E write \in writes : WriteLands(write) \/ WriteLost(write))
  /\ \A p \in Passes :
       /\ WF_vars(Deliver(p)) /\ SF_vars(ReadStatusLock(p))
       /\ SF_vars(CompareShown(p)) /\ SF_vars(ReleaseStatusLock(p))

SendFairness ==
  /\ WF_vars(PrepareIntent) /\ WF_vars(SettleAbandoned)
  /\ \A p \in Passes : SF_vars(ClaimStatus(p))

FairSpec == Spec /\ LockFairness /\ SendFairness
-----------------------------------------------------------------------------
(* Every variable has the type its column, request or local has.           *)
TypeOK ==
  /\ revision \in Revisions /\ result \in Texts /\ eligible \in BOOLEAN
  /\ desired \in 0..MaxRevision /\ delivered \in 0..MaxRevision
  /\ lease \in Tokens \cup {NoLease} /\ leaseLeft \in -ReleaseDelay..Lease
  /\ requestStarted \in BOOLEAN /\ ambiguous \in BOOLEAN
  /\ outbox \in [Revisions -> Rows]
  /\ shown \in Texts \cup {Starting, Superseded} /\ shownRevision \in 0..MaxRevision
  /\ writes \in SUBSET Writes
  /\ pass \in [Passes -> Locals]
  /\ current \in BOOLEAN
  /\ closer \in {"idle", "fenced", "clear", "closing", "done"}

(* The inductive invariant behind the delivery: its parts.                 *)

\* What the locals of a pass are worth: its token names a claim that was
\* counted; a mark it set stays for as long as it has the lease; and an
\* answered request is over.
Marked(me) == me.at = "waiting" \/ (me.at = "settling" /\ me.mark)
Done(me) == (me.at = "waiting" /\ me.landed) \/ (me.at = "settling" /\ me.mark)

LocalsOK(me) ==
  /\ me.at # "idle" => desired # 0
  /\ me.at \notin {"idle", "selected"} => me.token \in Tokens
  /\ me.token # NoLease => me.token[2] <= outbox[me.token[1]].attempts
  /\ me.landed => me.at \in {"waiting", "settling"}
  /\ Marked(me) /\ lease = me.token => requestStarted
  /\ Done(me) => \A write \in writes : write.token # me.token

PassesOK == \A p \in Passes : LocalsOK(pass[p])

LeaseIsCounted ==
  lease # NoLease =>
    /\ lease[1] <= desired /\ shownRevision <= lease[1]
    /\ lease[2] <= outbox[lease[1]].attempts

UnwrittenIsUntried ==
  \A rev \in Revisions : outbox[rev].state = "none" => outbox[rev].attempts = 0

\* A request ends before a lock of its lease can be released.
WriteEndsInTime == \A write \in SenderWrites : write.left - leaseLeft < WriteTime

Fenced ==
  /\ closer # "idle" => ~current
  /\ \A write \in writes : write.token = NoLease <=> write.text = Superseded
  /\ closer \in {"clear", "closing", "done"} \/ CloserWrites # {} \/ shown = Superseded =>
       ~current /\ ~requestStarted /\ SenderWrites = {}

(* At most one PATCH of the outbox can still change the check, over every  *)
(* pass, stopped Worker and released lock (deliverStatus, work.ts:375-380: *)
(* "An expired database lease cannot fence a delayed external HTTP         *)
(* request").                                                              *)
OneWriteInFlight == \A a, b \in SenderWrites : a = b

(* A lock is given back only when its request is over: while a PATCH can   *)
(* change the check, the lease of its claim is held with the request mark. *)
WriteHoldsLease ==
  \A write \in SenderWrites : lease = write.token /\ requestStarted

(* A rerun that takes the check over never races a PATCH of the outbox:    *)
(* bindWorkflowCheck fences and then reads the mark, MarkAndSend tests the *)
(* fence in the statement of the mark (checks.ts:402-403).                 *)
FenceExcludesSender ==
  closer \in {"clear", "closing", "done"} \/ CloserWrites # {} => SenderWrites = {}

(* Everything above that the proofs need at once.                          *)
DeliveryInv ==
  /\ TypeOK
  /\ PassesOK
  /\ LeaseIsCounted
  /\ UnwrittenIsUntried
  /\ shownRevision <= desired /\ desired <= revision
  /\ WriteEndsInTime
  /\ WriteHoldsLease
  /\ OneWriteInFlight
  /\ Fenced

(* A row is complete only when the check shows its result, whether its     *)
(* PATCH was answered, its read showed it, or its lock proved it.          *)
CompleteIsShown ==
  outbox[revision].state = "complete" /\ shown # Superseded => shown = result

(* The delivery implements the feed its readers rely on.                   *)
Feed == INSTANCE CheckFeed WITH
  newest <- revision, shown <- shownRevision, closed <- (shown = Superseded)
ImplementsFeed == Feed!Spec

-----------------------------------------------------------------------------
(* While the run can publish, its newest result ends on the check, or its  *)
(* update ends "dead" after its last attempt: none is forgotten, and none  *)
(* is tried for ever.                                                      *)
NewestResultSettles ==
  <>[](eligible /\ current => desired = revision
                              /\ outbox[revision].state \in {"complete", "dead"})

(* A pass that still lists a locked check releases its lock.               *)
ListedLockIsReleased ==
  (ambiguous /\ outbox[desired].state # "none")
    ~> (~ambiguous \/ outbox[desired].state = "none")

(* operations/README.md:36: "When the lease of the update ended 2 minutes  *)
(* ago or more, each pass reads the check on GitHub", and so "the lock and *)
(* its alert go away" (line 41).                                           *)
LockIsReleased == ambiguous ~> ~ambiguous

=============================================================================
