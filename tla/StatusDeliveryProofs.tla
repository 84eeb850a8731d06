------------------------ MODULE StatusDeliveryProofs ------------------------
(***************************************************************************)
(* For every number of passes, revisions, attempts and every timing with   *)
(* WriteTime <= ReleaseDelay: one request at a time, never a race with a   *)
(* rerun, the feed of CheckFeed, and a complete row is shown.              *)
(***************************************************************************)
EXTENDS StatusDelivery, TLAPS

(* A token is a pair of a row and one of its attempts.                     *)
LEMMA TokenParts ==
  ASSUME NEW token \in Tokens
  PROVE  /\ token[1] \in Revisions /\ token[2] \in 1..MaxAttempts
         /\ token # NoLease
  BY StatusAssumption DEF Tokens, Revisions

LEMMA IdleIsLocal == Idle \in Locals /\ Idle.at = "idle" /\ Idle.token = NoLease
  BY StatusAssumption DEF Idle, Locals, Places, Outcomes

(* An idle pass owns nothing, so there is nothing to keep.                 *)
LEMMA IdleIsOK == LocalsOK(Idle)
  BY DEF LocalsOK, Idle, Marked, Done

(* Settling a row keeps the table well typed and counts no attempt.        *)
LEMMA SettleRowType ==
  ASSUME outbox \in [Revisions -> Rows], NEW rev \in Revisions, NEW outcome,
         NEW wait \in Nat, SettleRow(rev, outcome, wait)
  PROVE  /\ outbox' \in [Revisions -> Rows]
         /\ \A r \in Revisions : /\ outbox'[r].attempts = outbox[r].attempts
                                 /\ outbox'[r].state = "none" => outbox[r].state = "none"
  <1>1. SettledState(rev, outcome) \in RowStates \ {"none"}
    BY DEF SettledState, RowStates
  <1> QED BY <1>1 DEF SettleRow, Rows

(* A step that changes only the place and the locals of one pass keeps the *)
(* invariant when the new locals are worth as much.                        *)
LEMMA PassStep ==
  ASSUME DeliveryInv, NEW p \in Passes, NEW me \in Locals, LocalsOK(me), Become(p, me),
         UNCHANGED <<runVars, checkVars, outbox, githubVars, writes, fenceVars>>
  PROVE  DeliveryInv'
  <1> USE DEF DeliveryInv, runVars, checkVars, githubVars, fenceVars
  <1>1. TypeOK'
    BY DEF TypeOK, Become
  <1>2. PassesOK'
    <2> SUFFICES ASSUME NEW q \in Passes PROVE LocalsOK(pass[q])'
      BY DEF PassesOK
    <2>1. pass'[q] = IF q = p THEN me ELSE pass[q]
      BY DEF TypeOK, Become
    <2> QED BY <2>1 DEF PassesOK, LocalsOK, Marked, Done
  <1> QED
    BY <1>1, <1>2 DEF LeaseIsCounted, UnwrittenIsUntried, WriteEndsInTime,
       WriteHoldsLease, OneWriteInFlight, Fenced, SenderWrites, CloserWrites

-----------------------------------------------------------------------------
(* The steps of a pass that change only its own place.                     *)

LEMMA LocalSteps ==
  ASSUME DeliveryInv, NEW p \in Passes,
         \/ Select(p) \/ BeginDelivery(p) \/ ReadCheck(p) \/ ReadFails(p)
         \/ RecheckIntent(p) \/ ConfirmShown(p) \/ Answered(p) \/ ReadStatusLock(p)
         \/ CompareShown(p) \/ Crash(p)
  PROVE  DeliveryInv'
  <1> DEFINE me == pass[p]
  <1>0. /\ me \in Locals /\ LocalsOK(me)
        /\ outbox \in [Revisions -> Rows] /\ delivered \in 0..MaxRevision
        /\ desired \in 0..MaxRevision
    BY DEF DeliveryInv, TypeOK, PassesOK
  <1>s. ASSUME NEW outcome \in Outcomes, me.at \notin {"idle", "selected", "waiting"},
               ~(me.at = "settling")
        PROVE  /\ [me EXCEPT !.at = "settling", !.outcome = outcome, !.mark = FALSE] \in Locals
               /\ LocalsOK([me EXCEPT !.at = "settling", !.outcome = outcome, !.mark = FALSE])
    BY <1>0, <1>s DEF Locals, LocalsOK, Marked, Done, Places
  <1>1. CASE Select(p)
    <2>1. /\ [me EXCEPT !.at = "selected"] \in Locals
          /\ LocalsOK([me EXCEPT !.at = "selected"])
      BY <1>0, <1>1 DEF Select, Locals, LocalsOK, Marked, Done, Places
    <2> QED BY <2>1, <1>1, PassStep DEF Select, Goto
  <1>2. CASE BeginDelivery(p)
    <2>0. me.token \in Tokens
      BY <1>0, <1>2 DEF BeginDelivery, LocalsOK
    <2>1. outbox[me.token[1]].text \in Texts \cup {Starting}
      BY <1>0, <2>0, TokenParts DEF Rows
    <2>2. /\ [me EXCEPT !.at = "reading", !.text = outbox[me.token[1]].text] \in Locals
          /\ LocalsOK([me EXCEPT !.at = "reading", !.text = outbox[me.token[1]].text])
      BY <1>0, <1>2, <2>1 DEF BeginDelivery, Locals, LocalsOK, Marked, Done, Places
    <2>3. "not-sent" \in Outcomes /\ me.at = "claimed"
      BY <1>2 DEF Outcomes, BeginDelivery
    <2> QED BY <1>2, <1>s, <2>2, <2>3, PassStep DEF BeginDelivery, Settling
  <1>3. CASE ReadCheck(p)
    <2> DEFINE same == Completed(me.text) /\ shown = me.text
    <2>1. /\ [me EXCEPT !.at = "checking", !.same = same] \in Locals
          /\ LocalsOK([me EXCEPT !.at = "checking", !.same = same])
      BY <1>0, <1>3 DEF ReadCheck, Locals, LocalsOK, Marked, Done, Places
    <2> QED BY <1>3, <2>1, PassStep DEF ReadCheck
  <1>4. CASE ReadFails(p)
    <2>1. "read-failed" \in Outcomes /\ me.at = "reading"
      BY <1>4 DEF Outcomes, ReadFails
    <2> QED BY <1>4, <1>s, <2>1, PassStep DEF ReadFails, Settling
  <1>5. CASE RecheckIntent(p)
    <2> DEFINE place == IF me.same THEN "confirming" ELSE "marking"
    <2>1. /\ [me EXCEPT !.at = place] \in Locals
          /\ LocalsOK([me EXCEPT !.at = place])
      BY <1>0, <1>5 DEF RecheckIntent, Locals, LocalsOK, Marked, Done, Places
    <2>2. "not-sent" \in Outcomes /\ me.at = "checking"
      BY <1>5 DEF Outcomes, RecheckIntent
    <2> QED BY <1>5, <1>s, <2>1, <2>2, PassStep DEF RecheckIntent, Goto, Settling
  <1>6. CASE ConfirmShown(p)
    <2>1. {"delivered", "not-sent"} \subseteq Outcomes /\ me.at = "confirming"
      BY <1>6 DEF Outcomes, ConfirmShown
    <2> QED BY <1>6, <1>s, <2>1, PassStep DEF ConfirmShown, Settling
  <1>7. CASE Answered(p)
    <2> DEFINE next == [me EXCEPT !.at = "settling", !.outcome = "delivered", !.mark = TRUE]
    <2>1. next \in Locals /\ LocalsOK(next)
      BY <1>0, <1>7 DEF Answered, Locals, LocalsOK, Marked, Done, Places, Outcomes
    <2> QED BY <1>7, <2>1, PassStep DEF Answered, Settling
  <1>8. CASE ReadStatusLock(p)
    <2> DEFINE next == [Idle EXCEPT !.at = "comparing", !.token = lease,
                          !.text = outbox[lease[1]].text, !.confirmed = delivered]
    <2>0. lease \in Tokens /\ lease[1] \in Revisions /\ lease[1] <= desired
          /\ lease[2] <= outbox[lease[1]].attempts
      BY <1>8, TokenParts DEF ReadStatusLock, DeliveryInv, TypeOK, LeaseIsCounted
    <2>1. next \in Locals
      BY <1>0, <2>0, IdleIsLocal DEF Locals, Rows, Places
    <2>2. next.at = "comparing" /\ next.token = lease /\ next.landed = FALSE
      BY DEF Idle
    <2>3. LocalsOK(next)
      BY <1>0, <2>0, <2>2 DEF LocalsOK, Marked, Done, Revisions
    <2> QED BY <1>8, <2>1, <2>3, PassStep DEF ReadStatusLock
  <1>9. CASE CompareShown(p)
    <2> DEFINE next == [me EXCEPT !.at = "releasing",
                          !.outcome = IF shown = me.text THEN "delivered" ELSE "not-sent"]
    <2>1. next \in Locals /\ LocalsOK(next)
      BY <1>0, <1>9 DEF CompareShown, Locals, LocalsOK, Marked, Done, Places, Outcomes
    <2> QED BY <1>9, <2>1, PassStep, IdleIsLocal, IdleIsOK DEF CompareShown, GoIdle
  <1>10. CASE Crash(p)
    BY <1>10, PassStep, IdleIsLocal, IdleIsOK DEF Crash, GoIdle
  <1> QED BY <1>1, <1>2, <1>3, <1>4, <1>5, <1>6, <1>7, <1>8, <1>9, <1>10

-----------------------------------------------------------------------------
(* The steps of the run, of the reconciliation and of the fence.           *)

(* Revisions only grow, so what was counted below them stays below them.   *)
LEMMA RunSteps ==
  ASSUME DeliveryInv,
         \/ \E text \in Texts, touch \in BOOLEAN : ChangeResult(text, touch)
         \/ CloseRun \/ PrepareIntent
  PROVE  DeliveryInv'
  <1> USE DEF DeliveryInv, ChangeResult, CloseRun, PrepareIntent
  <1>0. /\ UNCHANGED <<delivered, lease, leaseLeft, requestStarted, ambiguous, shown,
                       shownRevision, writes, pass, current, closer>>
        /\ revision' \in Revisions /\ revision <= revision'
        /\ desired' \in 0..MaxRevision /\ desired <= desired' /\ desired' <= revision'
    BY StatusAssumption DEF TypeOK, Revisions, runVars, githubVars, fenceVars
  <1>1. /\ outbox' \in [Revisions -> Rows]
        /\ \A rev \in Revisions : /\ outbox'[rev].attempts = outbox[rev].attempts
                                  /\ outbox'[rev].state = "none" => outbox[rev].state = "none"
    <2>1. CASE UNCHANGED outbox
      BY <2>1 DEF TypeOK
    <2>2. CASE PrepareIntent
      <3> DEFINE row == IF outbox[revision].state = "none"
            THEN [state |-> "pending", text |-> result, attempts |-> 0, wait |-> 0]
            ELSE [outbox[revision] EXCEPT !.text = result]
      <3>1. outbox[revision] \in Rows /\ revision \in Revisions /\ result \in Texts
        BY DEF TypeOK
      <3>2. /\ row \in Rows /\ row.attempts = outbox[revision].attempts
            /\ row.state # "none"
        BY <3>1, StatusAssumption DEF UnwrittenIsUntried, Rows, RowStates
      <3>3. outbox' = [outbox EXCEPT ![revision] = row]
        BY <2>2
      <3> QED BY <3>1, <3>2, <3>3 DEF TypeOK
    <2> QED BY <2>1, <2>2
  <1>2. TypeOK'
    BY <1>0, <1>1 DEF TypeOK, runVars
  <1>3. PassesOK'
    <2> SUFFICES ASSUME NEW p \in Passes PROVE LocalsOK(pass[p])'
      BY DEF PassesOK
    <2>1. LocalsOK(pass[p])
      BY DEF PassesOK
    <2>2. pass[p].token # NoLease =>
            pass[p].token \in Tokens /\ pass[p].token[2] <= outbox'[pass[p].token[1]].attempts
      BY <1>1, <2>1, TokenParts DEF LocalsOK, TypeOK, Locals, Rows
    <2> QED BY <1>0, <2>1, <2>2 DEF LocalsOK, Marked, Done, TypeOK
  <1>4. LeaseIsCounted' /\ UnwrittenIsUntried'
    <2>1. lease # NoLease => lease[1] \in Revisions
      BY TokenParts DEF TypeOK
    <2>2. desired \in Nat /\ desired' \in Nat /\ Revisions \subseteq Nat
      BY <1>0 DEF TypeOK, Revisions
    <2>3. lease # NoLease => lease[1] <= desired'
      BY <1>0, <2>1, <2>2 DEF LeaseIsCounted
    <2> QED BY <1>0, <1>1, <2>1, <2>3 DEF LeaseIsCounted, UnwrittenIsUntried
  <1>5. (shownRevision <= desired /\ desired <= revision)'
    BY <1>0 DEF TypeOK
  <1> QED
    BY <1>0, <1>2, <1>3, <1>4, <1>5 DEF WriteEndsInTime, WriteHoldsLease,
       OneWriteInFlight, Fenced, SenderWrites, CloserWrites

LEMMA LockExpiredRequestStep ==
  ASSUME DeliveryInv, LockExpiredRequest
  PROVE  DeliveryInv'
  BY DEF DeliveryInv, LockExpiredRequest, runVars, githubVars, fenceVars, TypeOK, PassesOK,
     LocalsOK, Marked, Done, LeaseIsCounted, UnwrittenIsUntried, WriteEndsInTime, WriteHoldsLease,
     OneWriteInFlight, Fenced, SenderWrites, CloserWrites

LEMMA FenceSteps ==
  ASSUME DeliveryInv, Fence \/ ReadMark \/ CloseCheck \/ VerifyClosed \/ CloserFails
  PROVE  DeliveryInv'
  <1> USE DEF DeliveryInv, Fence, ReadMark, CloseCheck, VerifyClosed, CloserFails,
          runVars, checkVars, githubVars
  <1>0. /\ UNCHANGED <<revision, result, eligible, desired, delivered, lease, leaseLeft,
                       requestStarted, ambiguous, outbox, shown, shownRevision, pass>>
        /\ writes \subseteq writes'
        /\ \A write \in writes' \ writes : write.token = NoLease /\ write.text = Superseded
        /\ writes' # writes => closer = "clear"
    OBVIOUS
  <1>1. TypeOK'
    <2>1. [token |-> NoLease, text |-> Superseded, left |-> WriteTime] \in Writes
      BY StatusAssumption DEF Writes
    <2>2. writes' \in SUBSET Writes
      BY <2>1 DEF TypeOK
    <2>3. current' \in BOOLEAN /\ closer' \in {"idle", "fenced", "clear", "closing", "done"}
      BY DEF TypeOK
    <2> QED BY <1>0, <2>2, <2>3 DEF TypeOK
  <1>2. PassesOK'
    <2> SUFFICES ASSUME NEW p \in Passes PROVE LocalsOK(pass[p])'
      BY DEF PassesOK
    <2>1. LocalsOK(pass[p])
      BY DEF PassesOK
    <2>2. Done(pass[p]) => pass[p].token # NoLease
      BY <2>1, TokenParts DEF LocalsOK, Done
    <2> QED BY <1>0, <2>1, <2>2 DEF LocalsOK, Marked, Done
  <1>3. SenderWrites' = SenderWrites
    BY <1>0 DEF SenderWrites
  <1>4. Fenced'
    <2>1. \A write \in writes' : write.token = NoLease <=> write.text = Superseded
      BY <1>0 DEF Fenced
    <2>2. closer' # "idle" => ~current'
      BY DEF Fenced
    <2>3. closer' \in {"clear", "closing", "done"} \/ CloserWrites' # {} \/ shown' = Superseded =>
            ~current /\ ~requestStarted /\ SenderWrites = {}
      BY <1>0 DEF Fenced, WriteHoldsLease, CloserWrites, SenderWrites
    <2> QED BY <1>0, <1>3, <2>1, <2>2, <2>3 DEF Fenced
  <1> QED
    BY <1>0, <1>1, <1>2, <1>3, <1>4 DEF LeaseIsCounted, UnwrittenIsUntried, WriteEndsInTime,
       WriteHoldsLease, OneWriteInFlight

(* Time passes for a request and for its lease alike, and the lease stops  *)
(* counting only at -ReleaseDelay.                                         *)
LEMMA TickStep ==
  ASSUME DeliveryInv, Tick
  PROVE  DeliveryInv'
  <1> USE DEF DeliveryInv, Tick
  <1>0. UNCHANGED <<revision, result, eligible, desired, delivered, lease, requestStarted,
                    ambiguous, shown, shownRevision, pass, current, closer>>
    BY DEF runVars, githubVars, fenceVars
  <1>1. \A write \in writes' : \E old \in writes :
          /\ write = [old EXCEPT !.left = @ - 1]
          /\ write.token = old.token /\ write.text = old.text
          /\ write.left = old.left - 1 /\ write \in Writes
    <2> SUFFICES ASSUME NEW old \in writes
                 PROVE  LET write == [old EXCEPT !.left = @ - 1]
                        IN /\ write.token = old.token /\ write.text = old.text
                           /\ write.left = old.left - 1 /\ write \in Writes
      OBVIOUS
    <2>1. old \in Writes /\ old.left > 0
      BY DEF TypeOK
    <2>2. old.left \in 0..WriteTime /\ old.left - 1 \in 0..WriteTime
      BY <2>1, StatusAssumption DEF Writes
    <2> QED BY <2>1, <2>2 DEF Writes
  <1>2. \A rev \in Revisions : /\ outbox'[rev] \in Rows
                               /\ outbox'[rev].attempts = outbox[rev].attempts
                               /\ outbox'[rev].state = outbox[rev].state
    BY DEF TypeOK, Rows
  <1>3. leaseLeft' \in -ReleaseDelay..Lease /\ leaseLeft - 1 <= leaseLeft'
    BY StatusAssumption DEF TypeOK
  <1>4. TypeOK'
    <2>1. writes' \in SUBSET Writes
      BY <1>1
    <2>2. outbox' \in [Revisions -> Rows]
      BY <1>2
    <2> QED BY <1>0, <1>3, <2>1, <2>2 DEF TypeOK
  <1>5. PassesOK'
    <2> SUFFICES ASSUME NEW p \in Passes PROVE LocalsOK(pass[p])'
      BY DEF PassesOK
    <2>1. LocalsOK(pass[p])
      BY DEF PassesOK
    <2>2. pass[p].token # NoLease =>
            outbox'[pass[p].token[1]].attempts = outbox[pass[p].token[1]].attempts
      BY <1>2, TokenParts DEF TypeOK, Locals
    <2> QED BY <1>0, <1>1, <2>1, <2>2 DEF LocalsOK, Marked, Done
  <1>6. LeaseIsCounted' /\ UnwrittenIsUntried'
    <2>1. lease # NoLease => lease[1] \in Revisions
      BY TokenParts DEF TypeOK
    <2> QED BY <1>0, <1>2, <2>1 DEF LeaseIsCounted, UnwrittenIsUntried
  <1>7. WriteEndsInTime' /\ WriteHoldsLease'
    <2> SUFFICES ASSUME NEW write \in SenderWrites'
                 PROVE  /\ write.left - leaseLeft' < WriteTime
                        /\ lease' = write.token /\ requestStarted'
      BY DEF WriteEndsInTime, WriteHoldsLease
    <2>1. PICK old \in SenderWrites : write.token = old.token /\ write.left = old.left - 1
      BY <1>1 DEF SenderWrites
    <2>2. /\ old.left \in Int /\ leaseLeft \in Int /\ leaseLeft' \in Int
          /\ WriteTime \in Int
      BY <1>3, StatusAssumption DEF TypeOK, Writes, SenderWrites
    <2>3. old.left - leaseLeft < WriteTime
      BY DEF WriteEndsInTime
    <2>4. write.left - leaseLeft' < WriteTime
      BY <1>3, <2>1, <2>2, <2>3
    <2> QED BY <1>0, <2>1, <2>4 DEF WriteHoldsLease
  <1>8. OneWriteInFlight'
    <2> SUFFICES ASSUME NEW a \in SenderWrites', NEW b \in SenderWrites' PROVE a = b
      BY DEF OneWriteInFlight
    <2>1. PICK oldA \in writes : a = [oldA EXCEPT !.left = @ - 1] /\ a.token = oldA.token
      BY <1>1 DEF SenderWrites
    <2>2. PICK oldB \in writes : b = [oldB EXCEPT !.left = @ - 1] /\ b.token = oldB.token
      BY <1>1 DEF SenderWrites
    <2>3. oldA = oldB
      BY <2>1, <2>2 DEF OneWriteInFlight, SenderWrites
    <2> QED BY <2>1, <2>2, <2>3
  <1>9. Fenced'
    BY <1>0, <1>1 DEF Fenced, SenderWrites, CloserWrites
  <1> QED BY <1>0, <1>4, <1>5, <1>6, <1>7, <1>8, <1>9

-----------------------------------------------------------------------------
(* The steps that take, mark and give back the lease.                      *)

(* Giving the lease back keeps the invariant once no request of it is left *)
(* to change the check.                                                    *)
LEMMA FreeStep ==
  ASSUME DeliveryInv, SenderWrites = {},
         NEW rev \in Revisions, NEW outcome, NEW wait \in Nat,
         SettleRow(rev, outcome, wait), FreeLease, delivered' \in 0..MaxRevision,
         \/ UNCHANGED pass
         \/ \E p \in Passes : GoIdle(p),
         UNCHANGED <<runVars, desired, githubVars, writes, fenceVars>>
  PROVE  DeliveryInv'
  <1> USE DEF DeliveryInv, runVars, githubVars, fenceVars
  <1>0. /\ lease' = NoLease /\ leaseLeft' = 0 /\ requestStarted' = FALSE /\ ambiguous' = FALSE
        /\ outbox' \in [Revisions -> Rows]
        /\ \A r \in Revisions : /\ outbox'[r].attempts = outbox[r].attempts
                                /\ outbox'[r].state = "none" => outbox[r].state = "none"
    BY SettleRowType DEF TypeOK, FreeLease
  <1>u. UNCHANGED <<revision, result, eligible, desired, shown, shownRevision, writes,
                    current, closer>>
    OBVIOUS
  <1>1. \A q \in Passes : pass'[q] \in Locals /\ pass'[q] \in {pass[q], Idle}
    BY IdleIsLocal DEF TypeOK, GoIdle, Become
  <1>2. TypeOK'
    <2>1. pass' \in [Passes -> Locals]
      BY IdleIsLocal DEF TypeOK, GoIdle, Become
    <2>2. leaseLeft' \in -ReleaseDelay..Lease
      BY <1>0, StatusAssumption
    <2> QED BY <1>0, <2>1, <2>2 DEF TypeOK
  <1>3. PassesOK'
    <2> SUFFICES ASSUME NEW q \in Passes PROVE LocalsOK(pass[q])'
      BY DEF PassesOK
    <2>1. LocalsOK(pass'[q])
      BY <1>1, IdleIsOK DEF PassesOK
    <2>2. pass'[q].token # NoLease => pass'[q].token[1] \in Revisions
      BY <1>1, TokenParts DEF Locals
    <2>3. Marked(pass'[q]) => pass'[q].token # NoLease
      BY <2>1, TokenParts DEF LocalsOK, Marked
    <2> DEFINE me == pass'[q]
    <2>4. /\ me.at # "idle" => desired' # 0
          /\ me.at \notin {"idle", "selected"} => me.token \in Tokens
          /\ Done(me) => \A write \in writes' : write.token # me.token
          /\ me.landed => me.at \in {"waiting", "settling"}
      BY <1>u, <2>1 DEF LocalsOK
    <2>5. me.token # NoLease => me.token[2] <= outbox'[me.token[1]].attempts
      BY <1>0, <2>1, <2>2 DEF LocalsOK
    <2>6. Marked(me) /\ lease' = me.token => requestStarted'
      BY <1>0, <2>3
    <2> QED BY <2>4, <2>5, <2>6 DEF LocalsOK, Marked, Done
  <1>4. SenderWrites' = {} /\ CloserWrites' = CloserWrites
    BY DEF SenderWrites, CloserWrites
  <1>5. WriteEndsInTime' /\ WriteHoldsLease' /\ OneWriteInFlight'
    BY <1>4 DEF WriteEndsInTime, WriteHoldsLease, OneWriteInFlight
  <1>6. Fenced'
    BY <1>0, <1>u, <1>4 DEF Fenced
  <1>7. LeaseIsCounted'
    BY <1>0 DEF LeaseIsCounted
  <1>8. UnwrittenIsUntried'
    <2> SUFFICES ASSUME NEW r \in Revisions, outbox'[r].state = "none"
                 PROVE  outbox'[r].attempts = 0
      BY DEF UnwrittenIsUntried
    <2>1. outbox[r].attempts = 0
      BY <1>0 DEF UnwrittenIsUntried
    <2> QED BY <1>0, <2>1
  <1>9. (shownRevision <= desired /\ desired <= revision)'
    BY <1>u
  <1> QED BY <1>2, <1>3, <1>5, <1>6, <1>7, <1>8, <1>9

LEMMA SettleAbandonedStep ==
  ASSUME DeliveryInv, SettleAbandoned
  PROVE  DeliveryInv'
  <1>1. SenderWrites = {}
    BY DEF DeliveryInv, WriteHoldsLease, SettleAbandoned
  <1>2. lease[1] \in Revisions
    BY TokenParts DEF DeliveryInv, TypeOK, SettleAbandoned
  <1>3. /\ delivered' \in 0..MaxRevision /\ UNCHANGED pass
        /\ UNCHANGED <<runVars, desired, githubVars, writes, fenceVars>>
    BY DEF DeliveryInv, TypeOK, SettleAbandoned
  <1> QED BY <1>1, <1>2, <1>3, FreeStep DEF SettleAbandoned

LEMMA SettleStatusStep ==
  ASSUME DeliveryInv, NEW p \in Passes, SettleStatus(p)
  PROVE  DeliveryInv'
  <1> DEFINE me == pass[p]
             wait == IF me.outcome = "read-failed" THEN ReadRetry[me.token[2]] ELSE 0
  <1>0. /\ me \in Locals /\ LocalsOK(me) /\ me.at = "settling" /\ me.token \in Tokens
    BY DEF DeliveryInv, TypeOK, PassesOK, SettleStatus, LocalsOK
  <1>1. CASE /\ lease = me.token
             /\ IF me.mark THEN requestStarted ELSE ~requestStarted /\ ~ambiguous
    <2>1. SenderWrites = {}
      BY <1>0, <1>1 DEF DeliveryInv, WriteHoldsLease, LocalsOK, Done, SenderWrites
    <2>2. me.token[1] \in Revisions /\ wait \in Nat
      BY <1>0, TokenParts, StatusAssumption
    <2>3. /\ SettleRow(me.token[1], me.outcome, wait) /\ FreeLease /\ GoIdle(p)
          /\ UNCHANGED <<runVars, desired, githubVars, writes, fenceVars>>
      BY <1>1 DEF SettleStatus
    <2>4. delivered' \in 0..MaxRevision
      BY <1>1, <2>2 DEF SettleStatus, DeliveryInv, TypeOK, Revisions
    <2> QED BY <2>1, <2>2, <2>3, <2>4, FreeStep
  <1>2. CASE ~(/\ lease = me.token
               /\ IF me.mark THEN requestStarted ELSE ~requestStarted /\ ~ambiguous)
    BY <1>2, PassStep, IdleIsLocal, IdleIsOK DEF SettleStatus, GoIdle, checkVars
  <1> QED BY <1>1, <1>2

(* A lock is released ReleaseDelay after its lease, when its request has   *)
(* stopped: WriteStopsInTime.                                              *)
LEMMA ReleaseStatusLockStep ==
  ASSUME DeliveryInv, NEW p \in Passes, ReleaseStatusLock(p)
  PROVE  DeliveryInv'
  <1> DEFINE me == pass[p]
             held == /\ lease = me.token /\ ambiguous /\ requestStarted
                     /\ leaseLeft <= -ReleaseDelay /\ delivered = me.confirmed
                     /\ outbox[me.token[1]].state = "sending"
  <1>0. me.at = "releasing" /\ me.token \in Tokens
    BY DEF DeliveryInv, PassesOK, ReleaseStatusLock, LocalsOK
  <1>1. CASE held
    <2>1. SenderWrites = {}
      <3> SUFFICES ASSUME NEW write \in SenderWrites PROVE FALSE
        OBVIOUS
      <3>1. write.left \in 0..WriteTime /\ leaseLeft \in Int
        BY StatusAssumption DEF DeliveryInv, TypeOK, SenderWrites, Writes
      <3>2. write.left - leaseLeft < WriteTime
        BY DEF DeliveryInv, WriteEndsInTime
      <3> QED BY <1>1, <3>1, <3>2, StatusAssumption, WriteStopsInTime
    <2>2. me.token[1] \in Revisions
      BY <1>0, TokenParts
    <2>3. /\ SettleRow(me.token[1], me.outcome, 0) /\ FreeLease /\ GoIdle(p)
          /\ UNCHANGED <<runVars, desired, githubVars, writes, fenceVars>>
      BY <1>1 DEF ReleaseStatusLock
    <2>4. delivered' \in 0..MaxRevision
      BY <1>1, <2>2 DEF ReleaseStatusLock, DeliveryInv, TypeOK, Revisions
    <2> QED BY <2>1, <2>2, <2>3, <2>4, FreeStep
  <1>2. CASE ~held
    BY <1>2, PassStep, IdleIsLocal, IdleIsOK DEF ReleaseStatusLock, GoIdle, checkVars
  <1> QED BY <1>1, <1>2

(* A claim takes a free lease under a token that no pass has had.          *)
LEMMA ClaimStatusStep ==
  ASSUME DeliveryInv, NEW p \in Passes, ClaimStatus(p)
  PROVE  DeliveryInv'
  <1> DEFINE row == outbox[desired]
             token == <<desired, row.attempts + 1>>
             free == /\ lease = NoLease /\ row.state = "pending"
                     /\ row.attempts < MaxAttempts /\ row.wait = 0
             next == [Idle EXCEPT !.at = "claimed", !.token = token]
  <1>0. desired \in Revisions /\ row \in Rows
    BY DEF DeliveryInv, TypeOK, PassesOK, LocalsOK, ClaimStatus, Revisions
  <1>1. CASE ~free
    BY <1>1, PassStep, IdleIsLocal, IdleIsOK DEF ClaimStatus, GoIdle, checkVars
  <1>2. CASE free
    <2>0. /\ lease' = token /\ leaseLeft' = Lease /\ requestStarted' = FALSE
          /\ pass' = [pass EXCEPT ![p] = next]
          /\ outbox' = [outbox EXCEPT ![desired].state = "sending",
                                      ![desired].attempts = @ + 1]
          /\ UNCHANGED <<revision, result, eligible, desired, delivered, ambiguous, shown,
                         shownRevision, writes, current, closer>>
      BY <1>2 DEF ClaimStatus, Become, runVars, githubVars, fenceVars
    <2>1. token \in Tokens /\ row.attempts \in 0..MaxAttempts
      BY <1>0, <1>2, StatusAssumption DEF Tokens, Revisions, Rows
    <2>2. /\ outbox' \in [Revisions -> Rows]
          /\ outbox'[desired].state = "sending"
          /\ outbox'[desired].attempts = row.attempts + 1
          /\ \A r \in Revisions : r # desired => outbox'[r] = outbox[r]
      BY <1>0, <1>2, <2>0, <2>1, StatusAssumption DEF DeliveryInv, TypeOK, Rows, RowStates
    <2>3. next \in Locals /\ next.at = "claimed" /\ next.token = token /\ next.landed = FALSE
      BY <2>1, IdleIsLocal DEF Locals, Places, Idle
    <2>4. TypeOK'
      <3>1. leaseLeft' \in -ReleaseDelay..Lease
        BY <2>0, StatusAssumption
      <3> QED BY <2>0, <2>1, <2>2, <2>3, <3>1 DEF DeliveryInv, TypeOK
    <2>5. SenderWrites = {}
      BY <1>2 DEF DeliveryInv, WriteHoldsLease, SenderWrites
    <2>6. SenderWrites' = {} /\ CloserWrites' = CloserWrites
      BY <2>0, <2>5 DEF SenderWrites, CloserWrites
    <2>7. PassesOK'
      <3> SUFFICES ASSUME NEW q \in Passes PROVE LocalsOK(pass[q])'
        BY DEF PassesOK
      <3>1. CASE q = p
        <4>1. pass'[q] = next
          BY <2>0, <3>1 DEF DeliveryInv, TypeOK
        <4>2. desired' # 0
          BY <1>0, <2>0 DEF Revisions
        <4>3. token[2] <= outbox'[token[1]].attempts
          BY <2>1, <2>2
        <4> QED BY <2>1, <2>3, <4>1, <4>2, <4>3 DEF LocalsOK, Marked, Done
      <3>2. CASE q # p
        <4> DEFINE other == pass[q]
        <4>1. pass'[q] = other /\ LocalsOK(other) /\ other \in Locals
          BY <2>0, <3>2 DEF DeliveryInv, TypeOK, PassesOK
        <4>2. other.token # NoLease => other.token[1] \in Revisions /\ other.token[2] \in Int
          BY <4>1, TokenParts DEF Locals
        <4>3. other.token # NoLease => other.token[2] <= outbox'[other.token[1]].attempts
          BY <2>1, <2>2, <4>1, <4>2 DEF LocalsOK
        <4>4. other.token # NoLease => other.token # token
          BY <2>1, <4>1, <4>2 DEF LocalsOK
        <4>5. Marked(other) => other.token # NoLease
          BY <4>1, TokenParts DEF LocalsOK, Marked
        <4> QED BY <2>0, <4>1, <4>3, <4>4, <4>5 DEF LocalsOK, Marked, Done
      <3> QED BY <3>1, <3>2
    <2>8. LeaseIsCounted' /\ UnwrittenIsUntried'
      <3>1. lease'[1] = desired /\ lease'[2] = row.attempts + 1
        BY <2>0
      <3>2. desired \in Int /\ shownRevision \in Int /\ shownRevision <= desired
        BY DEF DeliveryInv, TypeOK
      <3>3. LeaseIsCounted'
        BY <2>0, <2>1, <2>2, <3>1, <3>2 DEF LeaseIsCounted
      <3>4. UnwrittenIsUntried'
        BY <2>2 DEF DeliveryInv, UnwrittenIsUntried
      <3> QED BY <3>3, <3>4
    <2>9. WriteEndsInTime' /\ WriteHoldsLease' /\ OneWriteInFlight'
      BY <2>6 DEF WriteEndsInTime, WriteHoldsLease, OneWriteInFlight
    <2>10. Fenced'
      BY <2>0, <2>6 DEF DeliveryInv, Fenced
    <2>11. (shownRevision <= desired /\ desired <= revision)'
      BY <2>0 DEF DeliveryInv
    <2> QED BY <2>4, <2>7, <2>8, <2>9, <2>10, <2>11 DEF DeliveryInv
  <1> QED BY <1>1, <1>2

(* The mark is set by the one pass that has the lease, and only while no   *)
(* request of the check is under way: that is why there is only one.       *)
LEMMA MarkAndSendStep ==
  ASSUME DeliveryInv, NEW p \in Passes, MarkAndSend(p)
  PROVE  DeliveryInv'
  <1> DEFINE me == pass[p]
             write == [token |-> me.token, text |-> me.text, left |-> WriteTime]
             sent == [me EXCEPT !.at = "waiting", !.mark = TRUE]
             stale == [me EXCEPT !.at = "settling", !.outcome = "not-sent", !.mark = FALSE]
  <1>0. me \in Locals /\ LocalsOK(me) /\ me.at = "marking" /\ me.token \in Tokens
    BY DEF DeliveryInv, TypeOK, PassesOK, MarkAndSend, LocalsOK
  <1>1. CASE ~(LeaseCurrent(p) /\ current)
    <2>1. stale \in Locals /\ LocalsOK(stale)
      BY <1>0 DEF Locals, Places, Outcomes, LocalsOK, Marked, Done
    <2> QED BY <1>1, <2>1, PassStep DEF MarkAndSend, Settling, checkVars
  <1>2. CASE LeaseCurrent(p) /\ current
    <2>0. /\ requestStarted' = TRUE /\ writes' = writes \cup {write}
          /\ pass' = [pass EXCEPT ![p] = sent]
          /\ UNCHANGED <<revision, result, eligible, desired, delivered, lease, leaseLeft,
                         ambiguous, outbox, shown, shownRevision, current, closer>>
      BY <1>2 DEF MarkAndSend, Become, runVars, githubVars, fenceVars
    <2>1. /\ lease = me.token /\ leaseLeft > 0 /\ ~requestStarted /\ current
          /\ SenderWrites = {}
      BY <1>2 DEF LeaseCurrent, DeliveryInv, WriteHoldsLease
    <2>2. /\ sent \in Locals /\ write \in Writes
          /\ write.token # NoLease /\ write.text # Superseded
      <3>1. sent \in Locals
        BY <1>0 DEF Locals, Places
      <3>2. me.token \in Tokens /\ me.text \in Texts \cup {Starting}
        BY <1>0 DEF Locals
      <3>3. write \in Writes /\ write.token # NoLease
        BY <1>0, <3>2, TokenParts, StatusAssumption DEF Writes
      <3>4. write.text # Superseded
        BY <3>2, StatusAssumption
      <3> QED BY <3>1, <3>3, <3>4
    <2>3. TypeOK'
      BY <2>0, <2>2 DEF DeliveryInv, TypeOK
    <2>4. SenderWrites' = {write} /\ CloserWrites' = CloserWrites
      BY <2>0, <2>1, <2>2 DEF SenderWrites, CloserWrites
    <2>5. PassesOK'
      <3> SUFFICES ASSUME NEW q \in Passes PROVE LocalsOK(pass[q])'
        BY DEF PassesOK
      <3>1. CASE q = p
        <4>1. pass'[q] = sent
          BY <2>0, <3>1 DEF DeliveryInv, TypeOK
        <4>2. sent.at = "waiting" /\ sent.token = me.token /\ sent.landed = me.landed
          BY <1>0 DEF Locals
        <4>3. ~me.landed
          BY <1>0 DEF LocalsOK
        <4> QED BY <1>0, <2>0, <4>1, <4>2, <4>3 DEF LocalsOK, Marked, Done
      <3>2. CASE q # p
        <4> DEFINE other == pass[q]
        <4>1. pass'[q] = other /\ LocalsOK(other)
          BY <2>0, <3>2 DEF DeliveryInv, TypeOK, PassesOK
        <4>2. Done(other) => other.token # lease
          BY <2>1, <4>1 DEF LocalsOK, Marked, Done
        <4>3. Done(other) => \A w \in writes' : w.token # other.token
          <5>1. Done(other) => \A w \in writes : w.token # other.token
            BY <4>1 DEF LocalsOK
          <5>2. write.token = lease
            BY <2>1
          <5> QED BY <2>0, <4>2, <5>1, <5>2
        <4> QED BY <2>0, <4>1, <4>3 DEF LocalsOK, Marked, Done
      <3> QED BY <3>1, <3>2
    <2>6. WriteEndsInTime' /\ WriteHoldsLease' /\ OneWriteInFlight'
      <3>1. leaseLeft \in Int
        BY DEF DeliveryInv, TypeOK
      <3> QED BY <2>0, <2>1, <2>4, <3>1, StatusAssumption
          DEF WriteEndsInTime, WriteHoldsLease, OneWriteInFlight
    <2>7. Fenced'
      BY <2>0, <2>1, <2>2, <2>4 DEF DeliveryInv, Fenced
    <2> QED
      BY <2>0, <2>3, <2>5, <2>6, <2>7 DEF DeliveryInv, LeaseIsCounted, UnwrittenIsUntried
  <1> QED BY <1>1, <1>2

LEMMA RequestFailsStep ==
  ASSUME DeliveryInv, NEW p \in Passes, RequestFails(p)
  PROVE  DeliveryInv'
  <1> USE DEF DeliveryInv, RequestFails, runVars, githubVars, fenceVars
  <1>1. TypeOK'
    BY IdleIsLocal DEF TypeOK, GoIdle, Become
  <1>2. PassesOK'
    <2> SUFFICES ASSUME NEW q \in Passes PROVE LocalsOK(pass[q])'
      BY DEF PassesOK
    <2>1. LocalsOK(pass'[q])
      BY IdleIsOK DEF PassesOK, TypeOK, GoIdle, Become
    <2> QED BY <2>1 DEF LocalsOK, Marked, Done
  <1> QED
    BY <1>1, <1>2 DEF LeaseIsCounted, UnwrittenIsUntried, WriteEndsInTime, WriteHoldsLease,
       OneWriteInFlight, Fenced, SenderWrites, CloserWrites

-----------------------------------------------------------------------------
(* The steps of GitHub.                                                    *)

LEMMA WriteLandsStep ==
  ASSUME DeliveryInv, NEW write \in writes, WriteLands(write)
  PROVE  DeliveryInv'
  <1> USE DEF DeliveryInv, WriteLands
  <1>0. /\ UNCHANGED <<revision, result, eligible, desired, delivered, lease, leaseLeft,
                       requestStarted, ambiguous, outbox, current, closer>>
        /\ shown' = write.text /\ writes' = writes \ {write}
        /\ shownRevision' = RevisionOf(write)
    BY DEF runVars, checkVars, fenceVars
  <1>1. write \in Writes /\ (write.token = NoLease <=> write.text = Superseded)
    BY DEF TypeOK, Fenced
  <1>2. write.token # NoLease =>
          /\ write \in SenderWrites /\ lease = write.token /\ shownRevision' = lease[1]
          /\ lease[1] \in Revisions /\ lease[1] <= desired
    BY <1>0, <1>1, TokenParts
    DEF SenderWrites, WriteHoldsLease, RevisionOf, Writes, LeaseIsCounted
  <1>3. write.token = NoLease => write \in CloserWrites /\ shownRevision' = shownRevision
    BY <1>0 DEF CloserWrites, RevisionOf
  <1>4. TypeOK'
    <2>1. pass' \in [Passes -> Locals]
      <3>1. \A p \in Passes : pass[p] \in Locals /\ [pass[p] EXCEPT !.landed = TRUE] \in Locals
        BY DEF TypeOK, Locals
      <3> QED BY <3>1
    <2>2. shown' \in Texts \cup {Starting, Superseded}
      BY <1>0, <1>1 DEF Writes
    <2>3. shownRevision' \in 0..MaxRevision
      BY <1>2, <1>3 DEF TypeOK, Revisions
    <2> QED BY <1>0, <2>1, <2>2, <2>3 DEF TypeOK
  <1>5. PassesOK'
    <2> SUFFICES ASSUME NEW q \in Passes PROVE LocalsOK(pass[q])'
      BY DEF PassesOK
    <2> DEFINE me == pass[q]
    <2>1. LocalsOK(me) /\ me \in Locals
      BY DEF PassesOK, TypeOK
    <2>2. pass'[q] = IF me.at = "waiting" /\ me.token = write.token
                       THEN [me EXCEPT !.landed = TRUE] ELSE me
      OBVIOUS
    <2>3. CASE me.at = "waiting" /\ me.token = write.token
      <3>1. /\ pass'[q].at = "waiting" /\ pass'[q].token = write.token
        BY <2>1, <2>2, <2>3 DEF Locals
      <3>2. write.token # NoLease
        BY <2>1, <2>3, TokenParts DEF LocalsOK
      <3>3. \A w \in writes' : w.token # write.token
        <4> SUFFICES ASSUME NEW w \in writes', w.token = write.token PROVE FALSE
          OBVIOUS
        <4>1. w \in SenderWrites /\ write \in SenderWrites /\ w # write
          BY <1>0, <3>2 DEF SenderWrites
        <4> QED BY <4>1 DEF OneWriteInFlight
      <3> QED BY <1>0, <2>1, <2>3, <3>1, <3>3 DEF LocalsOK, Marked, Done
    <2>4. CASE ~(me.at = "waiting" /\ me.token = write.token)
      BY <1>0, <2>1, <2>2, <2>4 DEF LocalsOK, Marked, Done
    <2> QED BY <2>3, <2>4
  <1>6. SenderWrites' \subseteq SenderWrites /\ CloserWrites' \subseteq CloserWrites
    BY <1>0 DEF SenderWrites, CloserWrites
  <1>7. (shownRevision <= desired /\ desired <= revision)'
    BY <1>0, <1>2, <1>3
  <1>8. LeaseIsCounted' /\ UnwrittenIsUntried'
    <2>1. shownRevision' <= lease[1] \/ lease = NoLease
      BY <1>2, <1>3 DEF LeaseIsCounted, Revisions
    <2>2. LeaseIsCounted'
      BY <1>0, <2>1 DEF LeaseIsCounted
    <2> QED BY <1>0, <2>2 DEF UnwrittenIsUntried
  <1>9. Fenced'
    BY <1>0, <1>1, <1>2, <1>3, <1>6 DEF Fenced
  <1> QED
    BY <1>0, <1>4, <1>5, <1>6, <1>7, <1>8, <1>9
    DEF WriteEndsInTime, WriteHoldsLease, OneWriteInFlight

LEMMA WriteLostStep ==
  ASSUME DeliveryInv, NEW write \in writes, WriteLost(write)
  PROVE  DeliveryInv'
  <1> USE DEF DeliveryInv, WriteLost, runVars, checkVars, githubVars, fenceVars
  <1>1. TypeOK'
    BY DEF TypeOK
  <1>2. PassesOK'
    BY DEF PassesOK, LocalsOK, Marked, Done
  <1> QED
    BY <1>1, <1>2 DEF LeaseIsCounted, UnwrittenIsUntried, WriteEndsInTime, WriteHoldsLease,
       OneWriteInFlight, Fenced, SenderWrites, CloserWrites

-----------------------------------------------------------------------------
(* The invariant holds at first and no step breaks it.                     *)

LEMMA InitInv == ASSUME Init PROVE DeliveryInv
  <1> USE DEF Init
  <1>1. TypeOK
    <2>1. NoRow \in Rows
      BY StatusAssumption DEF NoRow, Rows, RowStates
    <2>2. revision \in Revisions /\ leaseLeft \in -ReleaseDelay..Lease
      BY StatusAssumption DEF Revisions
    <2>3. outbox \in [Revisions -> Rows] /\ pass \in [Passes -> Locals]
      BY <2>1, IdleIsLocal
    <2>4. desired \in 0..MaxRevision /\ delivered \in 0..MaxRevision /\ shownRevision \in 0..MaxRevision
      BY StatusAssumption
    <2> QED BY <2>2, <2>3, <2>4 DEF TypeOK
  <1>2. PassesOK
    BY IdleIsOK DEF PassesOK
  <1> QED
    BY <1>1, <1>2, StatusAssumption DEF DeliveryInv, LeaseIsCounted, UnwrittenIsUntried,
       NoRow, WriteEndsInTime, WriteHoldsLease, OneWriteInFlight, Fenced, SenderWrites,
       CloserWrites

LEMMA NextInv == ASSUME DeliveryInv, [Next]_vars PROVE DeliveryInv'
  <1>1. CASE UNCHANGED vars
    BY <1>1 DEF vars, runVars, checkVars, githubVars, fenceVars, DeliveryInv, TypeOK, PassesOK,
       LocalsOK, Marked, Done, LeaseIsCounted, UnwrittenIsUntried, WriteEndsInTime,
       WriteHoldsLease, OneWriteInFlight, Fenced, SenderWrites, CloserWrites
  <1>2. ASSUME NEW p \in Passes, Deliver(p) \/ Crash(p)
        PROVE  DeliveryInv'
    BY <1>2, LocalSteps, ClaimStatusStep, MarkAndSendStep, RequestFailsStep,
       SettleStatusStep, ReleaseStatusLockStep DEF Deliver
  <1>3. ASSUME NEW write \in writes, WriteLands(write) \/ WriteLost(write)
        PROVE  DeliveryInv'
    BY <1>3, WriteLandsStep, WriteLostStep
  <1> QED
    BY <1>1, <1>2, <1>3, RunSteps, LockExpiredRequestStep, SettleAbandonedStep, TickStep,
       FenceSteps DEF Next, Closing

(* Every part of the invariant holds in every state of the delivery.       *)
THEOREM DeliveryCorrect == Spec => []DeliveryInv
  BY InitInv, NextInv, PTL DEF Spec

(* Every variable keeps its type.                                          *)
THEOREM TypeCorrect == Spec => []TypeOK
  <1>1. DeliveryInv => TypeOK
    BY DEF DeliveryInv
  <1> QED BY <1>1, DeliveryCorrect, PTL

(* At no time can two PATCH requests of the outbox change the check, and   *)
(* one that can has its lease and its mark (deliverStatus, settleStatus,   *)
(* releaseStatusLock): whatever stops, times out or answers late.          *)
THEOREM OneRequestAtATime == Spec => [](OneWriteInFlight /\ WriteHoldsLease)
  <1>1. DeliveryInv => OneWriteInFlight /\ WriteHoldsLease
    BY DEF DeliveryInv
  <1> QED BY <1>1, DeliveryCorrect, PTL

(* A rerun that closes the check never races a request of the outbox       *)
(* (bindWorkflowCheck against isStatusCurrent).                            *)
THEOREM RerunNeverRaces == Spec => []FenceExcludesSender
  <1>1. DeliveryInv => FenceExcludesSender
    BY DEF DeliveryInv, Fenced, FenceExcludesSender
  <1> QED BY <1>1, DeliveryCorrect, PTL

-----------------------------------------------------------------------------
(* What the readers of the check see.                                      *)

LEMMA FeedStep == ASSUME DeliveryInv, [Next]_vars PROVE [Feed!Next]_(Feed!feed)
  <1> DEFINE seen == <<revision, shownRevision, shown>>
  <1>0. UNCHANGED seen => UNCHANGED Feed!feed
    BY DEF Feed!feed
  <1>1. CASE UNCHANGED vars
    BY <1>0, <1>1 DEF vars, runVars, githubVars
  <1>2. CASE \/ \E text \in Texts, touch \in BOOLEAN : ChangeResult(text, touch)
             \/ CloseRun
    BY <1>2 DEF ChangeResult, CloseRun, githubVars, Feed!Next, Feed!Decide
  <1>3. CASE PrepareIntent \/ LockExpiredRequest \/ SettleAbandoned \/ Tick \/ Closing
    BY <1>0, <1>3 DEF PrepareIntent, LockExpiredRequest, SettleAbandoned, Tick, Closing, Fence,
       ReadMark, CloseCheck, VerifyClosed, CloserFails, runVars, githubVars
  <1>4. ASSUME NEW p \in Passes, Deliver(p) \/ Crash(p)
        PROVE  UNCHANGED seen
    BY <1>4 DEF Deliver, Crash, Select, ClaimStatus, BeginDelivery, ReadCheck, ReadFails,
       RecheckIntent, ConfirmShown, MarkAndSend, Answered, RequestFails, SettleStatus,
       ReadStatusLock, CompareShown, ReleaseStatusLock, runVars, githubVars
  <1>5. ASSUME NEW write \in writes, WriteLost(write)
        PROVE  UNCHANGED seen
    BY <1>5 DEF WriteLost, runVars, githubVars
  <1>6. ASSUME NEW write \in writes, WriteLands(write)
        PROVE  [Feed!Next]_(Feed!feed)
    <2>1. /\ shown' = write.text /\ revision' = revision
          /\ shownRevision' = RevisionOf(write)
          /\ (write.token = NoLease <=> write.text = Superseded)
      BY <1>6 DEF WriteLands, runVars, DeliveryInv, Fenced
    <2>2. CASE write.token = NoLease
      BY <2>1, <2>2 DEF RevisionOf, Feed!Next, Feed!Close
    <2>3. CASE write.token # NoLease
      <3>1. write \in SenderWrites /\ lease = write.token
        BY <2>3 DEF SenderWrites, DeliveryInv, WriteHoldsLease
      <3>2. shown # Superseded /\ shown' # Superseded
        BY <2>1, <2>3, <3>1 DEF DeliveryInv, Fenced
      <3>3. shownRevision' = lease[1] /\ lease[1] \in Revisions
        BY <2>1, <2>3, <3>1, TokenParts DEF RevisionOf, DeliveryInv, TypeOK
      <3>4. /\ shownRevision <= lease[1] /\ lease[1] <= desired /\ desired <= revision
            /\ desired \in Int /\ revision \in Int /\ shownRevision \in Int
        BY <2>3, <3>1 DEF DeliveryInv, TypeOK, LeaseIsCounted, Revisions
      <3>5. shownRevision' \in shownRevision..revision
        BY <3>3, <3>4 DEF Revisions
      <3> QED BY <2>1, <3>2, <3>5 DEF Feed!Next, Feed!Publish
    <2> QED BY <2>2, <2>3
  <1> QED BY <1>0, <1>1, <1>2, <1>3, <1>4, <1>5, <1>6 DEF Next

(* Results reach the check in the order of their revisions, none before it *)
(* was decided, and a superseded check never changes again.                *)
THEOREM DeliveryImplementsFeed == Spec => ImplementsFeed
  <1>1. Init => Feed!Init
    BY StatusAssumption DEF Init, Feed!Init
  <1>2. DeliveryInv /\ [Next]_vars => [Feed!Next]_(Feed!feed)
    BY FeedStep
  <1> QED BY <1>1, <1>2, DeliveryCorrect, PTL DEF Spec, ImplementsFeed, Feed!Spec

-----------------------------------------------------------------------------
(* What a complete row is worth.                                           *)

\* A pass between its claim and its settlement, without a request of its own.
Before(me) ==
  \/ me.at \in {"claimed", "reading", "checking", "marking", "confirming"}
  \/ me.at = "settling" /\ ~me.mark
Claimant(me) == Before(me) \/ Marked(me)
Unlocking(me) == me.at \in {"comparing", "releasing"}

\* The pass believes that the check shows the text of its row.
Saw(me) ==
  \/ me.at \in {"checking", "confirming"} /\ me.same
  \/ me.at = "waiting" /\ me.landed
  \/ me.at \in {"settling", "releasing"} /\ me.outcome = "delivered"

Shows(rev) == shown \in {outbox[rev].text, Superseded}

\* What a pass read stays true for as long as its lease is the one it had.
SeenOK(me) ==
  /\ me.at \in {"reading", "checking", "marking", "confirming", "waiting", "comparing"} =>
       me.text = outbox[me.token[1]].text
  /\ me.at = "confirming" => me.same
  /\ lease = me.token /\ Before(me) => ~requestStarted
  /\ lease = me.token /\ Unlocking(me) => leaseLeft <= -ReleaseDelay
  /\ lease = me.token /\ Saw(me) => Shows(me.token[1])

SightsOK == \A p \in Passes : SeenOK(pass[p])

ClaimsDiffer ==
  \A p, q \in Passes :
    Claimant(pass[p]) /\ Claimant(pass[q]) /\ pass[p].token = pass[q].token => p = q

RowsAreDesired == \A rev \in Revisions : outbox[rev].state # "none" => rev <= desired
NewestSaysResult == outbox[revision].state # "none" => outbox[revision].text = result
LeaseIsSending ==
  lease # NoLease =>
    /\ outbox[lease[1]].state = "sending"
    /\ \A rev \in Revisions : lease[1] < rev => outbox[rev].state \in {"none", "pending"}
WritesSayRow == \A write \in SenderWrites : write.text = outbox[write.token[1]].text
DesiredIsShown == desired # 0 => (outbox[desired].state = "complete" => Shows(desired))

(* The inductive invariant behind CompleteIsShown, beside DeliveryInv.     *)
ShownInv ==
  /\ SightsOK
  /\ ClaimsDiffer
  /\ RowsAreDesired
  /\ NewestSaysResult
  /\ LeaseIsSending
  /\ WritesSayRow
  /\ DesiredIsShown

LEMMA TypesOf ==
  ASSUME DeliveryInv
  PROVE  /\ outbox \in [Revisions -> Rows] /\ pass \in [Passes -> Locals]
         /\ \A p \in Passes : pass[p] \in Locals /\ LocalsOK(pass[p])
         /\ lease \in Tokens \cup {NoLease} /\ leaseLeft \in Int
         /\ desired \in 0..MaxRevision /\ revision \in Revisions /\ desired <= revision
         /\ Revisions \subseteq Nat /\ desired \in Int /\ revision \in Int
         /\ (desired # 0 => desired \in Revisions)
         /\ writes \subseteq Writes
  <1>1. -ReleaseDelay..Lease \subseteq Int
    BY StatusAssumption
  <1>2. Revisions \subseteq Nat /\ 0..MaxRevision \subseteq Int
    BY StatusAssumption DEF Revisions
  <1>3. desired # 0 => desired \in Revisions
    BY StatusAssumption DEF DeliveryInv, TypeOK, Revisions
  <1>4. pass \in [Passes -> Locals] /\ PassesOK
    BY DEF DeliveryInv, TypeOK
  <1> QED BY <1>1, <1>2, <1>3, <1>4 DEF DeliveryInv, TypeOK, PassesOK

(* The row of a claim was written, and a written row keeps its text.       *)
LEMMA ClaimedRow ==
  ASSUME DeliveryInv, NEW p \in Passes, pass[p].at \notin {"idle", "selected"}
  PROVE  /\ pass[p].token \in Tokens /\ pass[p].token # NoLease
         /\ pass[p].token[1] \in Revisions
         /\ outbox[pass[p].token[1]].state # "none"
  <1> DEFINE me == pass[p]
  <1>1. me.token \in Tokens /\ me.token # NoLease /\ me.token[1] \in Revisions
        /\ me.token[2] \in 1..MaxAttempts
    BY TypesOf, TokenParts DEF LocalsOK
  <1>2. me.token[2] <= outbox[me.token[1]].attempts
    BY <1>1, TypesOf DEF LocalsOK
  <1>3. outbox[me.token[1]].attempts # 0
    BY <1>1, <1>2
  <1> QED BY <1>1, <1>3 DEF DeliveryInv, UnwrittenIsUntried

(* No request of the outbox can still change what a pass with the lease    *)
(* saw: its own is over, or had not started, or ended before its lock.     *)
LEMMA SeenIsQuiet ==
  ASSUME DeliveryInv, NEW p \in Passes, SeenOK(pass[p]), lease = pass[p].token, Saw(pass[p])
  PROVE  SenderWrites = {}
  <1> DEFINE me == pass[p]
  <1> SUFFICES ASSUME NEW write \in SenderWrites PROVE FALSE
    OBVIOUS
  <1>1. lease = write.token /\ requestStarted /\ write \in writes
    BY DEF DeliveryInv, WriteHoldsLease, SenderWrites
  <1>2. ~Before(me)
    BY <1>1 DEF SeenOK
  <1>3. ~Done(me)
    BY <1>1, TypesOf DEF LocalsOK
  <1>4. me.at = "releasing"
    BY <1>2, <1>3 DEF Saw, Before, Done
  <1>5. leaseLeft <= -ReleaseDelay
    BY <1>4 DEF SeenOK, Unlocking
  <1>6. write.left \in 0..WriteTime /\ leaseLeft \in Int
    BY <1>1, TypesOf DEF Writes
  <1>7. write.left - leaseLeft < WriteTime
    BY DEF DeliveryInv, WriteEndsInTime
  <1> QED BY <1>5, <1>6, <1>7, StatusAssumption, WriteStopsInTime

(* A pass that does not move keeps what it knows.                          *)
LEMMA SeenStays ==
  ASSUME DeliveryInv, NEW q \in Passes, SeenOK(pass[q]), pass'[q] = pass[q],
         \A rev \in Revisions : outbox[rev].state # "none" => outbox'[rev].text = outbox[rev].text,
         pass[q].at \notin {"idle", "selected"} /\ lease' = pass[q].token =>
           /\ lease' = lease
           /\ Before(pass[q]) /\ requestStarted' => requestStarted
           /\ Unlocking(pass[q]) /\ leaseLeft <= -ReleaseDelay => leaseLeft' <= -ReleaseDelay
           /\ Saw(pass[q]) => shown' \in {shown, Superseded}
  PROVE  SeenOK(pass[q])'
  <1> DEFINE me == pass[q]
  <1>1. CASE me.at \in {"idle", "selected"}
    BY <1>1 DEF SeenOK, Before, Unlocking, Saw
  <1>2. CASE me.at \notin {"idle", "selected"}
    <2>1. outbox'[me.token[1]].text = outbox[me.token[1]].text
      BY <1>2, ClaimedRow
    <2>2. (me.at \in {"reading", "checking", "marking", "confirming", "waiting", "comparing"} =>
             me.text = outbox'[me.token[1]].text) /\ (me.at = "confirming" => me.same)
      BY <2>1 DEF SeenOK
    <2>3. lease' = me.token /\ Before(me) => ~requestStarted'
      BY <1>2 DEF SeenOK
    <2>4. lease' = me.token /\ Unlocking(me) => leaseLeft' <= -ReleaseDelay
      BY <1>2 DEF SeenOK
    <2>5. lease' = me.token /\ Saw(me) => shown' \in {outbox'[me.token[1]].text, Superseded}
      BY <1>2, <2>1 DEF SeenOK, Shows
    <2>6. (Before(me) <=> Before(pass[q])') /\ (Unlocking(me) <=> Unlocking(pass[q])')
          /\ (Saw(me) <=> Saw(pass[q])')
      BY DEF Before, Unlocking, Saw
    <2> QED BY <2>2, <2>3, <2>4, <2>5, <2>6 DEF SeenOK, Shows
  <1> QED BY <1>1, <1>2

(* An idle pass saw nothing.                                               *)
LEMMA IdleSawNothing == SeenOK(Idle) /\ ~Claimant(Idle)
  BY DEF SeenOK, Claimant, Before, Marked, Unlocking, Saw, Idle

(* The parts of the invariant that no pass is a part of.                   *)
LEMMA RowsSeenStay ==
  ASSUME ShownInv, UNCHANGED <<revision, result, desired, lease, outbox, shown>>,
         SenderWrites' \subseteq SenderWrites
  PROVE  /\ RowsAreDesired' /\ NewestSaysResult' /\ LeaseIsSending' /\ WritesSayRow'
         /\ DesiredIsShown'
  BY DEF ShownInv, RowsAreDesired, NewestSaysResult, LeaseIsSending, WritesSayRow,
     DesiredIsShown, Shows

(* A pass that only learns something keeps the invariant when it is true.  *)
LEMMA LearnStep ==
  ASSUME DeliveryInv, ShownInv, NEW p \in Passes, NEW me, Become(p, me),
         SeenOK(me), Claimant(me) => Claimant(pass[p]) /\ me.token = pass[p].token,
         UNCHANGED <<revision, result, desired, lease, leaseLeft, requestStarted, outbox, shown>>,
         SenderWrites' \subseteq SenderWrites
  PROVE  ShownInv'
  <1>1. \A q \in Passes : pass'[q] = IF q = p THEN me ELSE pass[q]
    BY TypesOf DEF Become
  <1>2. SightsOK'
    <2> SUFFICES ASSUME NEW q \in Passes PROVE SeenOK(pass[q])'
      BY DEF SightsOK
    <2>1. SeenOK(pass'[q])
      BY <1>1 DEF ShownInv, SightsOK
    <2> QED BY <2>1 DEF SeenOK, Before, Unlocking, Saw, Shows
  <1>3. ClaimsDiffer'
    <2> SUFFICES ASSUME NEW a \in Passes, NEW b \in Passes, Claimant(pass'[a]), Claimant(pass'[b]),
                        pass'[a].token = pass'[b].token
                 PROVE  a = b
      BY DEF ClaimsDiffer, Claimant, Before, Marked
    <2>1. /\ Claimant(pass[a]) /\ pass'[a].token = pass[a].token
          /\ Claimant(pass[b]) /\ pass'[b].token = pass[b].token
      BY <1>1
    <2> QED BY <2>1 DEF ShownInv, ClaimsDiffer
  <1> QED BY <1>2, <1>3, RowsSeenStay DEF ShownInv

LEMMA LearnSteps ==
  ASSUME DeliveryInv, ShownInv, NEW p \in Passes,
         \/ Select(p) \/ BeginDelivery(p) \/ ReadCheck(p) \/ ReadFails(p)
         \/ RecheckIntent(p) \/ ConfirmShown(p) \/ Answered(p) \/ ReadStatusLock(p)
         \/ CompareShown(p) \/ Crash(p) \/ RequestFails(p)
  PROVE  ShownInv'
  <1> DEFINE me == pass[p]
  <1>0. /\ me \in Locals /\ LocalsOK(me) /\ SeenOK(me)
    BY TypesOf DEF ShownInv, SightsOK
  <1>q. CASE GoIdle(p) /\ (CompareShown(p) \/ Crash(p) \/ RequestFails(p))
    <2>1. /\ UNCHANGED <<revision, result, desired, lease, leaseLeft, requestStarted, outbox,
                         shown, writes>>
      BY <1>q DEF CompareShown, Crash, RequestFails, runVars, checkVars, githubVars
    <2>2. SenderWrites' \subseteq SenderWrites
      BY <2>1 DEF SenderWrites
    <2>3. Become(p, Idle)
      BY <1>q DEF GoIdle
    <2>4. SeenOK(Idle) /\ (Claimant(Idle) => Claimant(pass[p]) /\ Idle.token = pass[p].token)
      BY IdleSawNothing
    <2> HIDE <1>q
    <2> QED BY <2>1, <2>2, <2>3, <2>4, LearnStep
  <1>u. CASE UNCHANGED <<runVars, checkVars, outbox, githubVars, writes, fenceVars>>
    <2>0. /\ UNCHANGED <<revision, result, desired, lease, leaseLeft, requestStarted, outbox,
                         shown>>
          /\ SenderWrites' \subseteq SenderWrites
      BY <1>u DEF runVars, checkVars, githubVars, SenderWrites
    <2> HIDE <1>u
    <2>s. ASSUME NEW outcome \in Outcomes \ {"delivered"}, Before(me), me.at # "settling",
                 Settling(p, outcome, FALSE)
          PROVE  ShownInv'
      <3> DEFINE next == [me EXCEPT !.at = "settling", !.outcome = outcome, !.mark = FALSE]
      <3>1. /\ next.at = "settling" /\ next.outcome = outcome /\ next.mark = FALSE
            /\ next.token = me.token
        BY <1>0 DEF Locals
      <3> HIDE DEF next
      <3>2. SeenOK(next)
        BY <1>0, <2>s, <3>1 DEF SeenOK, Before, Unlocking, Saw
      <3>3. Claimant(next) => Claimant(me) /\ next.token = me.token
        BY <2>s, <3>1 DEF Claimant
      <3>4. Become(p, next)
        BY <2>s DEF Settling, next
      <3> QED BY <2>0, <3>2, <3>3, <3>4, LearnStep
    <2>1. CASE Select(p)
      <3> DEFINE next == [me EXCEPT !.at = "selected"]
      <3>1. next.at = "selected"
        BY <1>0 DEF Locals
      <3>2. Become(p, next)
        BY <2>1 DEF Select, Goto
      <3> HIDE DEF next
      <3>3. SeenOK(next) /\ ~Claimant(next)
        BY <3>1 DEF SeenOK, Claimant, Marked, Before, Unlocking, Saw
      <3> QED BY <2>0, <3>2, <3>3, LearnStep
    <2>2. CASE BeginDelivery(p)
      <3> DEFINE text == outbox[me.token[1]].text
                 next == [me EXCEPT !.at = "reading", !.text = text]
      <3>0. me.at = "claimed"
        BY <2>2 DEF BeginDelivery
      <3>1. /\ next.at = "reading" /\ next.text = text /\ next.token = me.token
        BY <1>0 DEF Locals
      <3>2. SeenOK(next) /\ (Claimant(next) => Claimant(me) /\ next.token = me.token)
        <4> HIDE DEF next
        <4> QED BY <1>0, <3>0, <3>1 DEF SeenOK, Claimant, Marked, Before, Unlocking, Saw
      <3>3. CASE Become(p, next)
        BY <2>0, <3>2, <3>3, LearnStep
      <3>4. CASE Settling(p, "not-sent", FALSE)
        BY <2>s, <3>0, <3>4 DEF Before, Outcomes
      <3> QED BY <2>2, <3>3, <3>4 DEF BeginDelivery
    <2>3. CASE ReadCheck(p)
      <3> DEFINE same == Completed(me.text) /\ shown = me.text
                 next == [me EXCEPT !.at = "checking", !.same = same]
      <3>0. me.at = "reading" /\ Become(p, next)
        BY <2>3 DEF ReadCheck
      <3>1. /\ next.at = "checking" /\ next.same = same /\ next.text = me.text
            /\ next.token = me.token
        BY <1>0 DEF Locals
      <3> HIDE DEF next
      <3>2. me.text = outbox[me.token[1]].text
        BY <1>0, <3>0 DEF SeenOK
      <3>3. SeenOK(next) /\ (Claimant(next) => Claimant(me) /\ next.token = me.token)
        BY <1>0, <3>0, <3>1, <3>2 DEF SeenOK, Claimant, Marked, Before, Unlocking, Saw, Shows
      <3> QED BY <2>0, <3>0, <3>3, LearnStep
    <2>4. CASE ReadFails(p)
      BY <2>4, <2>s DEF ReadFails, Before, Outcomes
    <2>5. CASE RecheckIntent(p)
      <3> DEFINE place == IF me.same THEN "confirming" ELSE "marking"
                 next == [me EXCEPT !.at = place]
      <3>0. me.at = "checking"
        BY <2>5 DEF RecheckIntent
      <3>1. /\ next.at = place /\ next.same = me.same /\ next.text = me.text
            /\ next.token = me.token
        BY <1>0 DEF Locals
      <3>2. SeenOK(next) /\ (Claimant(next) => Claimant(me) /\ next.token = me.token)
        <4> HIDE DEF next
        <4> QED BY <1>0, <3>0, <3>1 DEF SeenOK, Claimant, Marked, Before, Unlocking, Saw
      <3>3. CASE Goto(p, place)
        BY <2>0, <3>2, <3>3, LearnStep DEF Goto
      <3>4. CASE Settling(p, "not-sent", FALSE)
        BY <2>s, <3>0, <3>4 DEF Before, Outcomes
      <3> QED BY <2>5, <3>3, <3>4 DEF RecheckIntent
    <2>6. CASE ConfirmShown(p)
      <3>0. me.at = "confirming"
        BY <2>6 DEF ConfirmShown
      <3>1. CASE Settling(p, "not-sent", FALSE)
        BY <2>s, <3>0, <3>1 DEF Before, Outcomes
      <3>2. CASE Settling(p, "delivered", FALSE)
        <4> DEFINE next == [me EXCEPT !.at = "settling", !.outcome = "delivered", !.mark = FALSE]
        <4>1. /\ next.at = "settling" /\ next.mark = FALSE /\ next.token = me.token
          BY <1>0 DEF Locals
        <4>2. Become(p, next)
          BY <3>2 DEF Settling
        <4> HIDE DEF next
        <4>3. SeenOK(next) /\ (Claimant(next) => Claimant(me) /\ next.token = me.token)
          BY <1>0, <3>0, <4>1 DEF SeenOK, Claimant, Marked, Before, Unlocking, Saw
        <4> QED BY <2>0, <4>2, <4>3, LearnStep
      <3> QED BY <2>6, <3>1, <3>2 DEF ConfirmShown
    <2>7. CASE Answered(p)
      <3> DEFINE next == [me EXCEPT !.at = "settling", !.outcome = "delivered", !.mark = TRUE]
      <3>0. me.at = "waiting" /\ me.landed /\ Become(p, next)
        BY <2>7 DEF Answered, Settling
      <3>1. /\ next.at = "settling" /\ next.mark = TRUE /\ next.token = me.token
        BY <1>0 DEF Locals
      <3> HIDE DEF next
      <3>2. SeenOK(next) /\ (Claimant(next) => Claimant(me) /\ next.token = me.token)
        BY <1>0, <3>0, <3>1 DEF SeenOK, Claimant, Marked, Before, Unlocking, Saw
      <3> QED BY <2>0, <3>0, <3>2, LearnStep
    <2>8. CASE ReadStatusLock(p)
      <3> DEFINE next == [Idle EXCEPT !.at = "comparing", !.token = lease,
                            !.text = outbox[lease[1]].text, !.confirmed = delivered]
      <3>0. Become(p, next) /\ leaseLeft <= -ReleaseDelay
        BY <2>8 DEF ReadStatusLock
      <3>1. /\ next.at = "comparing" /\ next.token = lease /\ next.text = outbox[lease[1]].text
        BY DEF Idle
      <3> HIDE DEF next
      <3>2. SeenOK(next) /\ ~Claimant(next)
        BY <3>0, <3>1 DEF SeenOK, Claimant, Marked, Before, Unlocking, Saw
      <3> QED BY <2>0, <3>0, <3>2, LearnStep
    <2>9. CASE CompareShown(p)
      <3> DEFINE outcome == IF shown = me.text THEN "delivered" ELSE "not-sent"
                 next == [me EXCEPT !.at = "releasing", !.outcome = outcome]
      <3>0. me.at = "comparing"
        BY <2>9 DEF CompareShown
      <3>1. /\ next.at = "releasing" /\ next.outcome = outcome /\ next.token = me.token
        BY <1>0 DEF Locals
      <3>2. SeenOK(next) /\ ~Claimant(next)
        <4> HIDE DEF next
        <4> QED BY <1>0, <3>0, <3>1 DEF SeenOK, Claimant, Marked, Before, Unlocking, Saw, Shows
      <3>3. CASE Become(p, next)
        BY <2>0, <3>2, <3>3, LearnStep
      <3> QED BY <2>9, <3>3, <1>q DEF CompareShown
    <2>10. CASE Crash(p)
      <3>1. GoIdle(p)
        BY <2>10 DEF Crash
      <3> QED BY <1>q, <2>10, <3>1
    <2>11. CASE RequestFails(p)
      <3>1. GoIdle(p)
        BY <2>11 DEF RequestFails
      <3> QED BY <1>q, <2>11, <3>1
    <2> QED BY <2>1, <2>2, <2>3, <2>4, <2>5, <2>6, <2>7, <2>8, <2>9, <2>10, <2>11
  <1> QED BY <1>q, <1>u DEF Select, BeginDelivery, ReadCheck, ReadFails,
         RecheckIntent, ConfirmShown, Answered, ReadStatusLock, CompareShown, Crash, RequestFails

-----------------------------------------------------------------------------
(* Steps in which no pass moves or is given a lease.                       *)
LEMMA StillSeen ==
  ASSUME DeliveryInv, ShownInv, UNCHANGED <<pass, lease, requestStarted>>,
         \A rev \in Revisions : outbox[rev].state # "none" => outbox'[rev].text = outbox[rev].text,
         leaseLeft <= -ReleaseDelay => leaseLeft' <= -ReleaseDelay,
         \A q \in Passes : lease = pass[q].token /\ Saw(pass[q]) => shown' \in {shown, Superseded}
  PROVE  SightsOK' /\ ClaimsDiffer'
  <1>1. SightsOK'
    <2> SUFFICES ASSUME NEW q \in Passes PROVE SeenOK(pass[q])'
      BY DEF SightsOK
    <2>1. SeenOK(pass[q])
      BY DEF ShownInv, SightsOK
    <2> QED BY <2>1, SeenStays
  <1>2. ClaimsDiffer'
    BY DEF ShownInv, ClaimsDiffer, Claimant, Before, Marked
  <1> QED BY <1>1, <1>2

(* A new result gets a row of its own, and written rows keep their text.   *)
LEMMA RunStepsShown ==
  ASSUME DeliveryInv, ShownInv,
         \/ \E text \in Texts, touch \in BOOLEAN : ChangeResult(text, touch)
         \/ CloseRun \/ PrepareIntent
  PROVE  ShownInv'
  <1>0. UNCHANGED <<lease, leaseLeft, requestStarted, shown, writes, pass>>
    BY DEF ChangeResult, CloseRun, PrepareIntent, githubVars
  <1>w. SenderWrites' = SenderWrites
    BY <1>0 DEF SenderWrites
  <1>1. CASE (\E text \in Texts, touch \in BOOLEAN : ChangeResult(text, touch)) \/ CloseRun
    <2>0. /\ revision' = revision + 1 /\ outbox' = outbox
          /\ desired' \in {desired, revision + 1}
      BY <1>1 DEF ChangeResult, CloseRun
    <2>1. SightsOK' /\ ClaimsDiffer'
      BY <1>0, <2>0, StillSeen
    <2>2. RowsAreDesired'
      <3>1. desired <= desired'
        BY <2>0, TypesOf
      <3> QED BY <2>0, <3>1, TypesOf DEF ShownInv, RowsAreDesired
    <2>3. revision' \in Revisions => outbox[revision'].state = "none"
      BY <2>0, TypesOf DEF ShownInv, RowsAreDesired
    <2>4. revision' \in Revisions
      BY <1>1, <2>0, TypesOf, StatusAssumption DEF ChangeResult, CloseRun, Revisions
    <2>5. NewestSaysResult'
      BY <2>0, <2>3, <2>4 DEF NewestSaysResult
    <2>6. LeaseIsSending' /\ WritesSayRow'
      BY <1>0, <1>w, <2>0 DEF ShownInv, LeaseIsSending, WritesSayRow
    <2>7. DesiredIsShown'
      <3>1. CASE desired' = desired
        BY <1>0, <2>0, <3>1 DEF ShownInv, DesiredIsShown, Shows
      <3>2. CASE desired' = revision'
        BY <2>0, <2>3, <2>4, <3>2 DEF DesiredIsShown
      <3> QED BY <2>0, <3>1, <3>2
    <2> QED BY <2>1, <2>2, <2>5, <2>6, <2>7 DEF ShownInv
  <1>2. CASE PrepareIntent
    <2>0. desired' = revision /\ UNCHANGED <<revision, result>> /\ UpdateDue
      BY <1>2 DEF PrepareIntent, runVars
    <2>1. outbox[revision].state = "none" /\ revision \in Revisions
      <3>1. CASE desired = revision
        BY <2>0, <3>1, TypesOf DEF UpdateDue
      <3>2. CASE desired # revision
        <4>1. ~(revision <= desired)
          BY <3>2, TypesOf
        <4> QED BY <4>1, TypesOf DEF ShownInv, RowsAreDesired
      <3> QED BY <3>1, <3>2
    <2> DEFINE row == [state |-> "pending", text |-> result, attempts |-> 0, wait |-> 0]
    <2>2. outbox' = [outbox EXCEPT ![revision] = row]
      BY <1>2, <2>1 DEF PrepareIntent
    <2>3. \A rev \in Revisions : outbox'[rev] = IF rev = revision THEN row ELSE outbox[rev]
      BY <2>1, <2>2, TypesOf
    <2>4. SightsOK' /\ ClaimsDiffer'
      <3>1. \A rev \in Revisions : outbox[rev].state # "none" => outbox'[rev].text = outbox[rev].text
        BY <2>1, <2>3
      <3> QED BY <1>0, <3>1, StillSeen
    <2>5. RowsAreDesired'
      <3> SUFFICES ASSUME NEW rev \in Revisions, outbox'[rev].state # "none" PROVE rev <= revision
        BY <2>0 DEF RowsAreDesired
      <3>1. rev = revision \/ rev <= desired
        BY <2>3 DEF ShownInv, RowsAreDesired
      <3>2. rev \in Int /\ desired \in Int /\ revision \in Int /\ desired <= revision
        BY TypesOf
      <3> QED BY <3>1, <3>2
    <2>6. NewestSaysResult'
      BY <2>0, <2>1, <2>3 DEF NewestSaysResult
    <2>7. LeaseIsSending'
      <3> SUFFICES ASSUME lease # NoLease
                   PROVE  /\ outbox'[lease[1]].state = "sending"
                          /\ \A rev \in Revisions : lease[1] < rev =>
                               outbox'[rev].state \in {"none", "pending"}
        BY <1>0 DEF LeaseIsSending
      <3>1. lease[1] \in Revisions
        BY TokenParts, TypesOf
      <3> QED BY <2>1, <2>3, <3>1 DEF ShownInv, LeaseIsSending
    <2>8. WritesSayRow'
      <3> SUFFICES ASSUME NEW write \in SenderWrites
                   PROVE  write.text = outbox'[write.token[1]].text
        BY <1>w DEF WritesSayRow
      <3>1. lease = write.token /\ lease # NoLease
        BY DEF DeliveryInv, WriteHoldsLease, SenderWrites
      <3>2. lease[1] \in Revisions /\ lease[1] # revision
        BY <2>1, <3>1, TokenParts, TypesOf DEF ShownInv, LeaseIsSending
      <3> QED BY <2>3, <3>1, <3>2 DEF ShownInv, WritesSayRow
    <2>9. DesiredIsShown'
      BY <2>0, <2>1, <2>3 DEF DesiredIsShown
    <2> QED BY <2>4, <2>5, <2>6, <2>7, <2>8, <2>9 DEF ShownInv
  <1> QED BY <1>1, <1>2

(* Locks, the fence and lost requests change nothing that is spoken of;    *)
(* a request that closes the check is none of the outbox.                  *)
LEMMA QuietSteps ==
  ASSUME DeliveryInv, ShownInv,
         \/ LockExpiredRequest \/ Closing
         \/ \E write \in writes : WriteLost(write)
  PROVE  ShownInv'
  <1>0. UNCHANGED <<revision, result, desired, lease, leaseLeft, requestStarted, outbox, shown,
                    pass>>
    BY DEF LockExpiredRequest, Closing, Fence, ReadMark, CloseCheck, VerifyClosed, CloserFails,
       WriteLost, runVars, checkVars, githubVars
  <1>1. SenderWrites' \subseteq SenderWrites
    BY DEF LockExpiredRequest, Closing, Fence, ReadMark, CloseCheck, VerifyClosed, CloserFails,
       WriteLost, SenderWrites
  <1>2. SightsOK' /\ ClaimsDiffer'
    BY <1>0, StillSeen
  <1> QED BY <1>0, <1>1, <1>2, RowsSeenStay DEF ShownInv

LEMMA TickShown ==
  ASSUME DeliveryInv, ShownInv, Tick
  PROVE  ShownInv'
  <1>0. UNCHANGED <<revision, result, desired, lease, requestStarted, shown, pass>>
    BY DEF Tick, runVars, githubVars
  <1>1. \A rev \in Revisions : /\ outbox'[rev].text = outbox[rev].text
                               /\ outbox'[rev].state = outbox[rev].state
    BY TypesOf DEF Tick, Rows
  <1>2. leaseLeft <= -ReleaseDelay => leaseLeft' <= -ReleaseDelay
    BY TypesOf, StatusAssumption DEF Tick
  <1>3. SightsOK' /\ ClaimsDiffer'
    BY <1>0, <1>1, <1>2, StillSeen
  <1>4. WritesSayRow'
    <2> SUFFICES ASSUME NEW write \in writes', write.token # NoLease
                 PROVE  write.text = outbox'[write.token[1]].text
      BY DEF WritesSayRow, SenderWrites
    <2>1. PICK old \in writes : write = [old EXCEPT !.left = @ - 1]
      BY DEF Tick
    <2>2. old \in Writes
      BY TypesOf
    <2>3. write.token = old.token /\ write.text = old.text
      BY <2>1, <2>2 DEF Writes
    <2>4. old \in SenderWrites
      BY <2>3 DEF SenderWrites
    <2>5. old.text = outbox[old.token[1]].text
      BY <2>4 DEF ShownInv, WritesSayRow
    <2>6. old.token[1] \in Revisions
      BY <2>2, <2>4, TokenParts DEF Writes, SenderWrites
    <2> QED BY <1>1, <2>3, <2>5, <2>6
  <1>5. RowsAreDesired' /\ LeaseIsSending'
    <2>1. lease # NoLease => lease[1] \in Revisions
      BY TokenParts, TypesOf
    <2>2. RowsAreDesired'
      BY <1>0, <1>1 DEF ShownInv, RowsAreDesired
    <2> QED BY <1>0, <1>1, <2>1, <2>2 DEF ShownInv, LeaseIsSending
  <1>6. NewestSaysResult' /\ DesiredIsShown'
    BY <1>0, <1>1, TypesOf DEF ShownInv, NewestSaysResult, DesiredIsShown, Shows
  <1> QED BY <1>3, <1>4, <1>5, <1>6 DEF ShownInv

(* A request of the outbox lands only under its lease, and then the newest *)
(* row is not complete; the answer that its pass gets says what is shown.  *)
LEMMA WriteLandsShown ==
  ASSUME DeliveryInv, ShownInv, NEW write \in writes, WriteLands(write)
  PROVE  ShownInv'
  <1>0. /\ UNCHANGED <<revision, result, desired, lease, leaseLeft, requestStarted, outbox>>
        /\ shown' = write.text /\ writes' = writes \ {write}
    BY DEF WriteLands, runVars, checkVars
  <1>1. write \in Writes /\ (write.token = NoLease <=> write.text = Superseded)
    BY TypesOf DEF DeliveryInv, Fenced
  <1>2. write.token # NoLease =>
          /\ write \in SenderWrites /\ lease = write.token /\ lease[1] \in Revisions
          /\ shown' = outbox[lease[1]].text
    <2> SUFFICES ASSUME write.token # NoLease
                 PROVE  /\ write \in SenderWrites /\ lease = write.token /\ lease[1] \in Revisions
                        /\ shown' = outbox[lease[1]].text
      OBVIOUS
    <2>1. write \in SenderWrites /\ lease = write.token
      BY DEF SenderWrites, DeliveryInv, WriteHoldsLease
    <2>2. lease[1] \in Revisions
      BY <2>1, TokenParts, TypesOf
    <2> QED BY <1>0, <2>1, <2>2 DEF ShownInv, WritesSayRow
  <1>3. write.token = NoLease => shown' = Superseded
    BY <1>0, <1>1
  <1>4. \A q \in Passes : pass'[q] = IF pass[q].at = "waiting" /\ pass[q].token = write.token
                                       THEN [pass[q] EXCEPT !.landed = TRUE] ELSE pass[q]
    BY DEF WriteLands
  <1>5. \A q \in Passes : /\ pass'[q].at = pass[q].at /\ pass'[q].token = pass[q].token
                          /\ pass'[q].mark = pass[q].mark
    BY <1>4, TypesOf DEF Locals
  <1>6. SightsOK'
    <2> SUFFICES ASSUME NEW q \in Passes PROVE SeenOK(pass[q])'
      BY DEF SightsOK
    <2> DEFINE me == pass[q]
    <2>0. SeenOK(me)
      BY DEF ShownInv, SightsOK
    <2>1. CASE me.at = "waiting" /\ me.token = write.token
      <3>1. lease' = me.token => shown' \in {outbox'[me.token[1]].text, Superseded}
        BY <1>0, <1>2, <1>3, <2>1
      <3>2. /\ pass'[q].at = "waiting" /\ pass'[q].token = me.token /\ pass'[q].text = me.text
        BY <1>4, <1>5, <2>1, TypesOf DEF Locals
      <3>3. me.text = outbox[me.token[1]].text
        BY <2>0, <2>1 DEF SeenOK
      <3> QED BY <1>0, <3>1, <3>2, <3>3 DEF SeenOK, Before, Unlocking, Saw, Shows
    <2>2. CASE ~(me.at = "waiting" /\ me.token = write.token)
      <3>1. pass'[q] = me
        BY <1>4, <2>2
      <3>2. lease = me.token /\ Saw(me) => shown' \in {shown, Superseded}
        <4>1. lease = me.token /\ Saw(me) => write.token = NoLease
          BY <1>2, <2>0, SeenIsQuiet
        <4> QED BY <1>3, <4>1
      <3> QED BY <1>0, <2>0, <3>1, <3>2, SeenStays
    <2> QED BY <2>1, <2>2
  <1>7. ClaimsDiffer'
    BY <1>5 DEF ShownInv, ClaimsDiffer, Claimant, Before, Marked
  <1>8. RowsAreDesired' /\ NewestSaysResult' /\ LeaseIsSending'
    BY <1>0 DEF ShownInv, RowsAreDesired, NewestSaysResult, LeaseIsSending
  <1>9. WritesSayRow'
    BY <1>0 DEF ShownInv, WritesSayRow, SenderWrites
  <1>10. DesiredIsShown'
    <2>1. CASE write.token = NoLease
      BY <1>0, <1>3, <2>1 DEF DesiredIsShown, Shows
    <2>2. CASE write.token # NoLease /\ desired # 0
      <3>1. lease # NoLease /\ lease[1] \in Revisions /\ desired \in Revisions
        BY <1>2, <2>2, TypesOf
      <3>2. lease[1] <= desired
        BY <3>1 DEF DeliveryInv, LeaseIsCounted
      <3>3. lease[1] = desired \/ lease[1] < desired
        BY <3>1, <3>2, TypesOf
      <3>4. outbox[desired].state # "complete"
        BY <3>1, <3>3 DEF ShownInv, LeaseIsSending
      <3> QED BY <1>0, <3>4 DEF DesiredIsShown
    <2> QED BY <1>0, <2>1, <2>2 DEF DesiredIsShown
  <1> QED BY <1>6, <1>7, <1>8, <1>9, <1>10 DEF ShownInv

-----------------------------------------------------------------------------
(* The steps that give back, take and mark the lease.                      *)

(* A row is complete with the lease that showed its text.                  *)
LEMMA FreeShown ==
  ASSUME DeliveryInv, ShownInv, SenderWrites = {}, lease # NoLease,
         NEW outcome, NEW wait \in Nat, SettleRow(lease[1], outcome, wait), FreeLease,
         outcome = "delivered" => Shows(lease[1]),
         \/ UNCHANGED pass
         \/ \E p \in Passes : GoIdle(p),
         UNCHANGED <<revision, result, desired, shown, writes>>
  PROVE  ShownInv'
  <1> DEFINE state == SettledState(lease[1], outcome)
             row == [outbox[lease[1]] EXCEPT !.state = state, !.wait = wait]
  <1>0. lease' = NoLease /\ lease[1] \in Revisions
    BY TypesOf, TokenParts DEF FreeLease
  <1>1. /\ state \in {"obsolete", "complete", "dead", "pending"}
        /\ state = "complete" => lease[1] = desired /\ outcome = "delivered"
    BY DEF SettledState
  <1>2. \A rev \in Revisions :
          /\ outbox'[rev].text = outbox[rev].text
          /\ outbox'[rev].state = IF rev = lease[1] THEN state ELSE outbox[rev].state
    <2>1. outbox' = [outbox EXCEPT ![lease[1]] = row]
      BY DEF SettleRow
    <2>2. outbox[lease[1]] \in Rows
      BY <1>0, TypesOf
    <2>3. row.text = outbox[lease[1]].text /\ row.state = state
      BY <2>2 DEF Rows
    <2> QED BY <1>0, <2>1, <2>3, TypesOf
  <1>3. \A q \in Passes : pass'[q] \in {pass[q], Idle}
    BY TypesOf DEF GoIdle, Become
  <1>4. SightsOK'
    <2> SUFFICES ASSUME NEW q \in Passes PROVE SeenOK(pass[q])'
      BY DEF SightsOK
    <2>1. CASE pass'[q] = pass[q]
      <3>1. SeenOK(pass[q])
        BY DEF ShownInv, SightsOK
      <3>2. pass[q].at \notin {"idle", "selected"} => lease' # pass[q].token
        BY <1>0, ClaimedRow
      <3> QED BY <1>2, <2>1, <3>1, <3>2, SeenStays
    <2>2. CASE pass'[q] = Idle
      BY <2>2 DEF SeenOK, Before, Unlocking, Saw, Idle
    <2> QED BY <1>3, <2>1, <2>2
  <1>5. ClaimsDiffer'
    <2> SUFFICES ASSUME NEW a \in Passes, NEW b \in Passes, Claimant(pass'[a]), Claimant(pass'[b]),
                        pass'[a].token = pass'[b].token
                 PROVE  a = b
      BY DEF ClaimsDiffer, Claimant, Before, Marked
    <2>1. pass'[a] = pass[a] /\ pass'[b] = pass[b]
      BY <1>3, IdleSawNothing
    <2> QED BY <2>1 DEF ShownInv, ClaimsDiffer
  <1>6. RowsAreDesired'
    <2>1. outbox[lease[1]].state # "none"
      BY DEF ShownInv, LeaseIsSending
    <2> QED BY <1>2, <2>1 DEF ShownInv, RowsAreDesired
  <1>7. NewestSaysResult'
    <2>1. outbox'[revision].state # "none" => outbox[revision].state # "none"
      BY <1>2, TypesOf DEF ShownInv, LeaseIsSending
    <2> QED BY <1>2, <2>1, TypesOf DEF ShownInv, NewestSaysResult
  <1>8. LeaseIsSending' /\ WritesSayRow'
    BY <1>0 DEF LeaseIsSending, WritesSayRow, SenderWrites
  <1>9. DesiredIsShown'
    BY <1>1, <1>2, TypesOf DEF ShownInv, DesiredIsShown, Shows
  <1> QED BY <1>4, <1>5, <1>6, <1>7, <1>8, <1>9 DEF ShownInv

LEMMA SettleAbandonedShown ==
  ASSUME DeliveryInv, ShownInv, SettleAbandoned
  PROVE  ShownInv'
  <1>1. SenderWrites = {} /\ lease # NoLease
    BY DEF DeliveryInv, WriteHoldsLease, SettleAbandoned
  <1>2. SettleRow(lease[1], "not-sent", 0) /\ FreeLease /\ UNCHANGED pass
        /\ UNCHANGED <<revision, result, desired, shown, writes>>
    BY DEF SettleAbandoned, runVars, githubVars
  <1> QED BY <1>1, <1>2, FreeShown

LEMMA SettleStatusShown ==
  ASSUME DeliveryInv, ShownInv, NEW p \in Passes, SettleStatus(p)
  PROVE  ShownInv'
  <1> DEFINE me == pass[p]
             wait == IF me.outcome = "read-failed" THEN ReadRetry[me.token[2]] ELSE 0
             held == /\ lease = me.token
                     /\ IF me.mark THEN requestStarted ELSE ~requestStarted /\ ~ambiguous
  <1>0. /\ me \in Locals /\ LocalsOK(me) /\ SeenOK(me) /\ me.at = "settling"
        /\ me.token \in Tokens
    BY TypesOf DEF ShownInv, SightsOK, SettleStatus, LocalsOK
  <1>1. CASE held
    <2>1. SenderWrites = {}
      BY <1>0, <1>1 DEF DeliveryInv, WriteHoldsLease, LocalsOK, Done, SenderWrites
    <2>2. lease # NoLease /\ wait \in Nat
      BY <1>0, <1>1, TokenParts, StatusAssumption
    <2>3. SettleRow(lease[1], me.outcome, wait) /\ FreeLease /\ GoIdle(p)
          /\ UNCHANGED <<revision, result, desired, shown, writes>>
      BY <1>1 DEF SettleStatus, runVars, githubVars
    <2>4. me.outcome = "delivered" => Shows(lease[1])
      BY <1>0, <1>1 DEF SeenOK, Saw
    <2> QED BY <2>1, <2>2, <2>3, <2>4, FreeShown
  <1>2. CASE ~held
    <2>1. Become(p, Idle)
          /\ UNCHANGED <<revision, result, desired, lease, leaseLeft, requestStarted, outbox, shown,
                         writes>>
      BY <1>2 DEF SettleStatus, GoIdle, runVars, githubVars
    <2>2. SenderWrites' \subseteq SenderWrites
      BY <2>1 DEF SenderWrites
    <2> QED BY <2>1, <2>2, LearnStep, IdleSawNothing
  <1> QED BY <1>1, <1>2

LEMMA ReleaseShown ==
  ASSUME DeliveryInv, ShownInv, NEW p \in Passes, ReleaseStatusLock(p)
  PROVE  ShownInv'
  <1> DEFINE me == pass[p]
             held == /\ lease = me.token /\ ambiguous /\ requestStarted
                     /\ leaseLeft <= -ReleaseDelay /\ delivered = me.confirmed
                     /\ outbox[me.token[1]].state = "sending"
  <1>0. me.at = "releasing" /\ me.token \in Tokens /\ SeenOK(me)
    BY DEF DeliveryInv, PassesOK, ReleaseStatusLock, LocalsOK, ShownInv, SightsOK
  <1>1. CASE held
    <2>1. SenderWrites = {}
      <3> SUFFICES ASSUME NEW write \in SenderWrites PROVE FALSE
        OBVIOUS
      <3>1. write.left \in 0..WriteTime /\ leaseLeft \in Int
        BY TypesOf DEF SenderWrites, Writes
      <3>2. write.left - leaseLeft < WriteTime
        BY DEF DeliveryInv, WriteEndsInTime
      <3> QED BY <1>1, <3>1, <3>2, StatusAssumption, WriteStopsInTime
    <2>2. lease # NoLease
      BY <1>0, <1>1, TokenParts
    <2>3. SettleRow(lease[1], me.outcome, 0) /\ FreeLease /\ GoIdle(p)
          /\ UNCHANGED <<revision, result, desired, shown, writes>>
      BY <1>1 DEF ReleaseStatusLock, runVars, githubVars
    <2>4. me.outcome = "delivered" => Shows(lease[1])
      BY <1>0, <1>1 DEF SeenOK, Saw
    <2> QED BY <2>1, <2>2, <2>3, <2>4, FreeShown
  <1>2. CASE ~held
    <2>1. Become(p, Idle)
          /\ UNCHANGED <<revision, result, desired, lease, leaseLeft, requestStarted, outbox, shown,
                         writes>>
      BY <1>2 DEF ReleaseStatusLock, GoIdle, runVars, githubVars
    <2>2. SenderWrites' \subseteq SenderWrites
      BY <2>1 DEF SenderWrites
    <2> QED BY <2>1, <2>2, LearnStep, IdleSawNothing
  <1> QED BY <1>1, <1>2

(* The token of a claim is new, and its row is the newest that was         *)
(* written.                                                                *)
LEMMA ClaimShown ==
  ASSUME DeliveryInv, ShownInv, NEW p \in Passes, ClaimStatus(p)
  PROVE  ShownInv'
  <1> DEFINE row == outbox[desired]
             token == <<desired, row.attempts + 1>>
             free == /\ lease = NoLease /\ row.state = "pending"
                     /\ row.attempts < MaxAttempts /\ row.wait = 0
             next == [Idle EXCEPT !.at = "claimed", !.token = token]
  <1>0. desired \in Revisions /\ row \in Rows
    BY TypesOf DEF LocalsOK, ClaimStatus
  <1>1. CASE ~free
    <2>1. Become(p, Idle)
          /\ UNCHANGED <<revision, result, desired, lease, leaseLeft, requestStarted, outbox, shown,
                         writes>>
      BY <1>1 DEF ClaimStatus, GoIdle, runVars, githubVars
    <2>2. SenderWrites' \subseteq SenderWrites
      BY <2>1 DEF SenderWrites
    <2> QED BY <2>1, <2>2, LearnStep, IdleSawNothing
  <1>2. CASE free
    <2>0. /\ lease' = token /\ requestStarted' = FALSE /\ pass' = [pass EXCEPT ![p] = next]
          /\ outbox' = [outbox EXCEPT ![desired].state = "sending",
                                      ![desired].attempts = @ + 1]
          /\ UNCHANGED <<revision, result, desired, shown, writes>>
      BY <1>2 DEF ClaimStatus, Become, runVars, githubVars
    <2>1. token[1] = desired /\ token[2] = row.attempts + 1 /\ row.attempts \in Nat
          /\ token \in Tokens
      BY <1>0, <1>2, StatusAssumption DEF Rows, Tokens, Revisions
    <2>2. \A rev \in Revisions :
            /\ outbox'[rev].text = outbox[rev].text
            /\ outbox'[rev].state = IF rev = desired THEN "sending" ELSE outbox[rev].state
      BY <1>0, <2>0, TypesOf DEF Rows
    <2>3. \A q \in Passes : pass'[q] = IF q = p THEN next ELSE pass[q]
      BY <2>0, TypesOf
    <2>4. next.at = "claimed" /\ next.token = token
      BY DEF Idle
    <2> HIDE DEF next
    <2>5. \A q \in Passes : pass[q].at \notin {"idle", "selected"} => pass[q].token # token
      <3> SUFFICES ASSUME NEW q \in Passes, pass[q].at \notin {"idle", "selected"},
                          pass[q].token = token
                   PROVE  FALSE
        OBVIOUS
      <3>1. token[2] <= outbox[token[1]].attempts
        BY ClaimedRow, TypesOf DEF LocalsOK
      <3> QED BY <2>1, <3>1
    <2>6. SenderWrites = {}
      BY <1>2 DEF DeliveryInv, WriteHoldsLease, SenderWrites
    <2>7. SightsOK'
      <3> SUFFICES ASSUME NEW q \in Passes PROVE SeenOK(pass[q])'
        BY DEF SightsOK
      <3>1. CASE q = p
        <4>1. pass'[q] = next
          BY <2>3, <3>1
        <4> QED BY <2>0, <2>4, <4>1 DEF SeenOK, Before, Unlocking, Saw
      <3>2. CASE q # p
        <4>1. SeenOK(pass[q]) /\ pass'[q] = pass[q]
          BY <2>3, <3>2 DEF ShownInv, SightsOK
        <4>2. pass[q].at \notin {"idle", "selected"} => lease' # pass[q].token
          BY <2>0, <2>5
        <4> QED BY <2>2, <4>1, <4>2, SeenStays
      <3> QED BY <3>1, <3>2
    <2>8. ClaimsDiffer'
      <3> SUFFICES ASSUME NEW a \in Passes, NEW b \in Passes, Claimant(pass'[a]), Claimant(pass'[b]),
                          pass'[a].token = pass'[b].token
                   PROVE  a = b
        BY DEF ClaimsDiffer, Claimant, Before, Marked
      <3>1. ASSUME NEW q \in Passes, q # p, Claimant(pass'[q])
            PROVE  pass'[q] = pass[q] /\ pass[q].token # token
        <4>1. pass'[q] = pass[q]
          BY <2>3, <3>1
        <4>2. pass[q].at \notin {"idle", "selected"}
          BY <3>1, <4>1 DEF Claimant, Before, Marked
        <4> QED BY <2>5, <4>1, <4>2
      <3>2. CASE a = p \/ b = p
        BY <2>3, <2>4, <3>1, <3>2
      <3>3. CASE a # p /\ b # p
        BY <3>1, <3>3 DEF ShownInv, ClaimsDiffer
      <3> QED BY <3>2, <3>3
    <2>9. RowsAreDesired'
      BY <1>2, <2>0, <2>2 DEF ShownInv, RowsAreDesired
    <2>10. NewestSaysResult'
      BY <1>2, <2>0, <2>2, TypesOf DEF ShownInv, NewestSaysResult
    <2>11. LeaseIsSending'
      <3>1. \A rev \in Revisions : desired < rev => outbox[rev].state = "none" /\ rev # desired
        BY TypesOf DEF ShownInv, RowsAreDesired
      <3>2. lease'[1] = desired
        BY <2>0, <2>1
      <3> QED BY <1>0, <2>2, <3>1, <3>2 DEF LeaseIsSending
    <2>12. WritesSayRow'
      BY <2>0, <2>6 DEF WritesSayRow, SenderWrites
    <2>13. DesiredIsShown'
      <3>1. outbox'[desired'].state = "sending"
        BY <1>0, <2>0, <2>2
      <3> QED BY <3>1 DEF DesiredIsShown
    <2> QED BY <2>7, <2>8, <2>9, <2>10, <2>11, <2>12, <2>13 DEF ShownInv
  <1> QED BY <1>1, <1>2

(* The mark belongs to the one claimant of the lease: no other pass that   *)
(* counts on an unmarked lease has its token.                              *)
LEMMA MarkShown ==
  ASSUME DeliveryInv, ShownInv, NEW p \in Passes, MarkAndSend(p)
  PROVE  ShownInv'
  <1> DEFINE me == pass[p]
             write == [token |-> me.token, text |-> me.text, left |-> WriteTime]
             sent == [me EXCEPT !.at = "waiting", !.mark = TRUE]
             stale == [me EXCEPT !.at = "settling", !.outcome = "not-sent", !.mark = FALSE]
  <1>0. /\ me \in Locals /\ LocalsOK(me) /\ SeenOK(me) /\ me.at = "marking"
        /\ me.token # NoLease /\ me.token[1] \in Revisions
    BY TypesOf, ClaimedRow DEF MarkAndSend, ShownInv, SightsOK
  <1>1. CASE ~(LeaseCurrent(p) /\ current)
    <2>1. /\ stale.at = "settling" /\ stale.outcome = "not-sent" /\ stale.mark = FALSE
          /\ stale.token = me.token
      BY <1>0 DEF Locals
    <2>2. /\ Become(p, stale)
          /\ UNCHANGED <<revision, result, desired, lease, leaseLeft, requestStarted, outbox, shown,
                         writes>>
      BY <1>1 DEF MarkAndSend, Settling, runVars, githubVars
    <2> HIDE DEF stale
    <2>3. SeenOK(stale) /\ (Claimant(stale) => Claimant(me) /\ stale.token = me.token)
      BY <1>0, <2>1 DEF SeenOK, Claimant, Marked, Before, Unlocking, Saw
    <2>4. SenderWrites' \subseteq SenderWrites
      BY <2>2 DEF SenderWrites
    <2> QED BY <2>2, <2>3, <2>4, LearnStep
  <1>2. CASE LeaseCurrent(p) /\ current
    <2>0. /\ requestStarted' = TRUE /\ writes' = writes \cup {write}
          /\ pass' = [pass EXCEPT ![p] = sent]
          /\ UNCHANGED <<revision, result, desired, lease, leaseLeft, outbox, shown>>
      BY <1>2 DEF MarkAndSend, Become, runVars, githubVars
    <2>1. lease = me.token /\ me.text = outbox[me.token[1]].text /\ Claimant(me) /\ ~me.landed
      BY <1>0, <1>2 DEF LeaseCurrent, SeenOK, Claimant, Before, LocalsOK
    <2>2. /\ sent.at = "waiting" /\ sent.token = me.token /\ sent.text = me.text
          /\ sent.landed = me.landed
      BY <1>0 DEF Locals
    <2>3. \A q \in Passes : pass'[q] = IF q = p THEN sent ELSE pass[q]
      BY <2>0, TypesOf
    <2> HIDE DEF sent
    <2>4. SightsOK'
      <3> SUFFICES ASSUME NEW q \in Passes PROVE SeenOK(pass[q])'
        BY DEF SightsOK
      <3>1. CASE q = p
        <4>1. pass'[q] = sent
          BY <2>3, <3>1
        <4> QED BY <2>0, <2>1, <2>2, <4>1 DEF SeenOK, Before, Unlocking, Saw
      <3>2. CASE q # p
        <4>1. SeenOK(pass[q]) /\ pass'[q] = pass[q]
          BY <2>3, <3>2 DEF ShownInv, SightsOK
        <4>2. lease = pass[q].token => ~Before(pass[q])
          BY <2>1, <3>2 DEF ShownInv, ClaimsDiffer, Claimant
        <4> QED BY <2>0, <4>1, <4>2, SeenStays
      <3> QED BY <3>1, <3>2
    <2>5. ClaimsDiffer'
      <3> SUFFICES ASSUME NEW a \in Passes, NEW b \in Passes, Claimant(pass'[a]), Claimant(pass'[b]),
                          pass'[a].token = pass'[b].token
                   PROVE  a = b
        BY DEF ClaimsDiffer, Claimant, Before, Marked
      <3>1. \A q \in Passes : Claimant(pass'[q]) =>
              Claimant(pass[q]) /\ pass'[q].token = pass[q].token
        BY <2>1, <2>2, <2>3
      <3> QED BY <3>1 DEF ShownInv, ClaimsDiffer
    <2>6. WritesSayRow'
      <3> SUFFICES ASSUME NEW w \in writes', w.token # NoLease
                   PROVE  w.text = outbox[w.token[1]].text
        BY <2>0 DEF WritesSayRow, SenderWrites
      <3>1. CASE w = write
        BY <2>1, <3>1
      <3>2. CASE w \in writes
        BY <3>2 DEF ShownInv, WritesSayRow, SenderWrites
      <3> QED BY <2>0, <3>1, <3>2
    <2>7. RowsAreDesired' /\ NewestSaysResult' /\ LeaseIsSending' /\ DesiredIsShown'
      BY <2>0 DEF ShownInv, RowsAreDesired, NewestSaysResult, LeaseIsSending, DesiredIsShown, Shows
    <2> QED BY <2>4, <2>5, <2>6, <2>7 DEF ShownInv
  <1> QED BY <1>1, <1>2

-----------------------------------------------------------------------------
LEMMA InitShown == ASSUME Init PROVE ShownInv
  <1> USE DEF Init
  <1>1. SightsOK /\ ClaimsDiffer
    BY IdleSawNothing DEF SightsOK, ClaimsDiffer
  <1>2. \A rev \in Revisions : outbox[rev].state = "none"
    BY DEF NoRow
  <1>3. 1 \in Revisions
    BY StatusAssumption DEF Revisions
  <1> QED
    BY <1>1, <1>2, <1>3 DEF ShownInv, RowsAreDesired, NewestSaysResult, LeaseIsSending,
       WritesSayRow, SenderWrites, DesiredIsShown

LEMMA NextShown == ASSUME DeliveryInv, ShownInv, [Next]_vars PROVE ShownInv'
  <1>1. CASE UNCHANGED vars
    <2>1. UNCHANGED <<revision, result, desired, lease, leaseLeft, requestStarted, outbox, shown,
                      pass, writes>>
      BY <1>1 DEF vars, runVars, checkVars, githubVars
    <2>2. SightsOK' /\ ClaimsDiffer'
      BY <2>1, StillSeen
    <2>3. SenderWrites' \subseteq SenderWrites
      BY <2>1 DEF SenderWrites
    <2> QED BY <2>1, <2>2, <2>3, RowsSeenStay DEF ShownInv
  <1>2. ASSUME NEW p \in Passes, Deliver(p) \/ Crash(p)
        PROVE  ShownInv'
    BY <1>2, LearnSteps, ClaimShown, MarkShown, SettleStatusShown, ReleaseShown DEF Deliver
  <1>3. ASSUME NEW write \in writes, WriteLands(write)
        PROVE  ShownInv'
    BY <1>3, WriteLandsShown
  <1> QED
    BY <1>1, <1>2, <1>3, RunStepsShown, QuietSteps, SettleAbandonedShown, TickShown DEF Next

(* What the passes believe of the check is true whenever it can matter.    *)
THEOREM SightsCorrect == Spec => []ShownInv
  BY InitShown, NextShown, DeliveryCorrect, PTL DEF Spec

(* A complete row is believed by everybody who reads the outbox: its       *)
(* result is what the check shows, unless a rerun closed it (settleStatus, *)
(* isStatusCurrent and releaseStatusLock alike).                           *)
THEOREM CompleteStaysShown == Spec => []CompleteIsShown
  <1>1. DeliveryInv /\ ShownInv => CompleteIsShown
    <2> SUFFICES ASSUME DeliveryInv, ShownInv, outbox[revision].state = "complete"
                 PROVE  shown # Superseded => shown = result
      BY DEF CompleteIsShown
    <2>1. revision <= desired
      BY TypesOf DEF ShownInv, RowsAreDesired
    <2>2. desired = revision /\ desired # 0
      <3>1. desired = revision
        BY <2>1, TypesOf
      <3>2. revision # 0
        BY TypesOf, StatusAssumption DEF Revisions
      <3> QED BY <3>1, <3>2
    <2> QED BY <2>2 DEF ShownInv, DesiredIsShown, NewestSaysResult, Shows
  <1> QED BY <1>1, DeliveryCorrect, SightsCorrect, PTL

=============================================================================
