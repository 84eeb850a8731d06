---------------------------- MODULE ReviewSession ----------------------------
(***************************************************************************)
(* The session of one review page over the decisions of a run.             *)
(*                                                                         *)
(* The page shows its decisions at once, sends each one as a queued        *)
(* command that names the one before it, and replaces its model by the     *)
(* receipts.  Answers of commands, polls, reloads and reads on return      *)
(* reach it in any order.  A read of the model takes the revision of the   *)
(* run first and the rows later, so the rows can be newer.                 *)
(*                                                                         *)
(* The service is what the page can tell of it: a decision is saved on the *)
(* rows it expects or refused, after its predecessor (ReviewCommands and   *)
(* ReviewQueue are the detail).  One screenshot has all changed variants.  *)
(* Left out: the selection, a review session that ends, a comparison that  *)
(* is replaced, a baseline that moves, and the receipt of a no-op, which   *)
(* the service no longer writes.                                           *)
(***************************************************************************)
EXTENDS Naturals, Sequences, FiniteSets, SequencesExt

CONSTANTS
  Shots,      \* the changed variants of the run
  Decisions,  \* the commands of this page
  NoDecision,
  MaxOthers,  \* bound: decisions of other reviewers
  MaxFaults,  \* bound: lost requests and attempts that fail
  MaxReads    \* bound: reloads of the route and reads on return

ASSUME SessionAssumption ==
  /\ IsFiniteSet(Shots) /\ NoDecision \notin Decisions
  /\ MaxOthers \in Nat /\ MaxFaults \in Nat /\ MaxReads \in Nat

VARIABLES
  \* the service
  rowsAt,   \* the rows at each revision of the run
  task,     \* per decision: its queue task and its receipt
  undone,   \* the decisions that an Undo restored
  late,     \* requests that their page gave up, and that can still arrive
  others, faults, reads,
  \* the page
  command,       \* per decision: what the page sent
  page,          \* the model of the last receipt or read
  queue,         \* the decisions without a final receipt
  held,          \* the queue during a manual read
  status,        \* the save state
  currentModel, newestRunRevision,  \* locals of the loop over the queue
  history,       \* the decisions that Undo can restore
  undoing,       \* the Undo without a final answer: its decision, and if it is saved
  read,          \* the reads of the model that run
  notSaved       \* what the page reported as not saved, for good

serviceVars == <<rowsAt, task, undone>>
boundVars == <<others, faults, reads>>
loopVars == <<currentModel, newestRunRevision>>
undoVars == <<history, undoing>>
pageVars == <<command, page, queue, held, status, loopVars, undoVars, notSaved>>
sessionVars == <<serviceVars, late, boundVars, pageVars, read>>

Now == Len(rowsAt) - 1
RowsAt(r) == rowsAt[r + 1]
Readers == {"loop", "manual", "return", "route", "refusal", "undo", "admission"}

NoTask == [state |-> "none"]
NoRead == [at |-> "idle"]
Fresh == [s \in Shots |-> [revision |-> 0, verdict |-> "none"]]

SessionInit ==
  /\ rowsAt = <<Fresh>> /\ task = [d \in Decisions |-> NoTask]
  /\ undone = {} /\ late = {} /\ others = 0 /\ faults = 0 /\ reads = 0
  /\ command = [d \in Decisions |-> NoTask]
  /\ page = [at |-> 0, rows |-> Fresh] /\ queue = <<>> /\ held = <<>> /\ status = "idle"
  /\ currentModel = page /\ newestRunRevision = 0
  /\ history = <<>> /\ undoing = NoDecision
  /\ read = [k \in Readers |-> NoRead] /\ notSaved = {}

Fault == faults < MaxFaults /\ faults' = faults + 1 /\ UNCHANGED <<others, reads>>

-----------------------------------------------------------------------------
(* The service.                                                            *)

KeepsApproval(c, row) == c.kind = "whole" /\ c.verdict = "approved" /\ row.verdict = "approved"

OpenShots(rows) == {s \in Shots : rows[s].verdict = "none"}

\* The rows that a decision changes.
Decided(c) ==
  IF c.kind = "run" THEN OpenShots(RowsAt(Now))
  ELSE {s \in c.targets : ~KeepsApproval(c, RowsAt(Now)[s])}

PreviousSaved(d) ==
  LET p == command[d].previous IN p # NoDecision => task[p].state = "saved"
PreviousSettled(d) ==
  LET p == command[d].previous IN p # NoDecision => task[p].state \in {"saved", "refused", "dead"}

\* The decision is about what its page showed.
Fits(d) ==
  LET c == command[d]
  IN /\ PreviousSaved(d) /\ Decided(c) # {}
     /\ IF c.kind = "run"
          THEN c.runRevision = Now /\ c.count = Cardinality(Decided(c))
          ELSE \A s \in c.targets : RowsAt(Now)[s].revision = c.expected[s]

Rewritten(shots, verdict) ==
  Append(rowsAt, [s \in Shots |->
    IF s \in shots THEN [revision |-> RowsAt(Now)[s].revision + 1, verdict |-> verdict[s]]
    ELSE RowsAt(Now)[s]])

Store(d) == rowsAt' = Rewritten(Decided(command[d]), [s \in Shots |-> command[d].verdict])

Process(d) ==
  /\ task[d].state = "queued" /\ PreviousSettled(d)
  /\ IF Fits(d)
       THEN /\ Store(d)
            /\ task' = [task EXCEPT ![d] =
                 [state |-> "saved", runRevision |-> Now + 1,
                  revisions |-> [s \in Decided(command[d]) |-> RowsAt(Now)[s].revision + 1]]]
       ELSE task' = [task EXCEPT ![d] = [state |-> "refused"]] /\ UNCHANGED rowsAt
  /\ UNCHANGED <<undone, late, boundVars, pageVars, read>>

\* Another write of the project came between, or each attempt failed; the
\* last one can stop after it saved the decision.
ProcessFails(d) ==
  /\ task[d].state = "queued" /\ PreviousSettled(d) /\ Fault
  /\ \/ task' = [task EXCEPT ![d] = [state |-> "refused"]] /\ UNCHANGED rowsAt
     \/ task' = [task EXCEPT ![d] = [state |-> "dead"]]
        /\ (UNCHANGED rowsAt \/ (Fits(d) /\ Store(d)))
  /\ UNCHANGED <<undone, late, pageVars, read>>

OtherDecides(s, verdict) ==
  /\ others < MaxOthers /\ others' = others + 1
  /\ rowsAt' = Rewritten({s}, [t \in Shots |-> verdict])
  /\ UNCHANGED <<task, undone, late, faults, reads, pageVars, read>>

\* enqueueReview of a decision whose predecessor the service has.
Enqueue(d) ==
  task' = IF task[d] = NoTask THEN [task EXCEPT ![d] = [state |-> "queued"]] ELSE task
Admissible(d) ==
  LET p == command[d].previous
  IN task[d] # NoTask \/ p = NoDecision \/ task[p] # NoTask

ArrivesLate(d) ==
  /\ d \in late /\ late' = late \ {d}
  /\ IF Admissible(d) THEN Enqueue(d) ELSE UNCHANGED task
  /\ UNCHANGED <<rowsAt, undone, boundVars, pageVars, read>>

-----------------------------------------------------------------------------
(* A read of the model: its run, its rows, and its answer.                 *)

Sent == [at |-> "sent"]
Asked(k) == [read EXCEPT ![k] = Sent]
Done(k) == [read EXCEPT ![k] = NoRead]

ReadRun(k) ==
  /\ read[k].at = "sent"
  /\ read' = [read EXCEPT ![k] = [at |-> "run", revision |-> Now]]
  /\ UNCHANGED <<serviceVars, late, boundVars, pageVars>>

ReadRows(k) ==
  /\ read[k].at = "run"
  /\ read' = [read EXCEPT ![k] =
       [at |-> "answered", model |-> [at |-> read[k].revision, rows |-> RowsAt(Now)]]]
  /\ UNCHANGED <<serviceVars, late, boundVars, pageVars>>

\* latestReviewModel.
Latest(current, next) == IF next.at < current.at THEN current ELSE next

\* A reload of the route, and a read when the page comes to the front, which
\* a save, an Undo or a manual read supersedes.
BeginRead(k) ==
  /\ k \in {"route", "return"} /\ read[k] = NoRead
  /\ reads < MaxReads /\ reads' = reads + 1
  /\ k = "return" => status \in {"idle", "saved"} /\ page.at # Now
  /\ read' = Asked(k)
  /\ UNCHANGED <<serviceVars, late, others, faults, pageVars>>

Land(k) ==
  /\ k \in {"route", "return", "refusal"} /\ read[k].at = "answered"
  /\ page' = Latest(page, read[k].model) /\ read' = Done(k)
  /\ UNCHANGED <<serviceVars, late, boundVars, command, queue, held, status, loopVars,
                 undoVars, notSaved>>

-----------------------------------------------------------------------------
(* What the page shows, and its decisions.                                 *)

NotYetDecided(row, expected) == row.revision <= expected

\* pendingReviewModel: each decision without a receipt over the ones before.
\* The test is against the model, not against the decisions before.
Overlay(rows, d) ==
  LET c == command[d]
  IN [s \in Shots |->
       IF /\ s \in c.targets /\ NotYetDecided(page.rows[s], c.expected[s])
          /\ ~KeepsApproval(c, rows[s])
         THEN [revision |-> c.expected[s] + 1, verdict |-> c.verdict]
         ELSE rows[s]]

\* A page that waits for a retry or a manual read shows no decision of its own.
Pending == IF status = "saving" THEN [i \in DOMAIN queue |-> queue[i].id] ELSE <<>>
Shown ==
  LET after[i \in 0..Len(Pending)] ==
        IF i = 0 THEN page.rows ELSE Overlay(after[i - 1], Pending[i])
  IN after[Len(Pending)]

Busy == status = "saving"
ReviewBlocked ==
  Busy /\ (queue = <<>> \/ \E i \in DOMAIN queue : command[queue[i].id].kind = "run")

Waiting(d) == [id |-> d, at |-> "sending"]
LastQueued == IF queue = <<>> THEN NoDecision ELSE Last(queue).id

\* Mutant: a decision names no predecessor.
PredecessorNone == NoDecision

Predecessor == LastQueued

Contents ==
  {[kind |-> "one", verdict |-> v, targets |-> {s}] : v \in {"approved", "rejected"}, s \in Shots}
    \cup {[kind |-> "whole", verdict |-> v, targets |-> Shots] : v \in {"approved", "rejected"}}

\* save: the loop over the queue starts, if it does not run.
StartLoop ==
  IF Busy THEN UNCHANGED <<loopVars, read>>
  ELSE /\ currentModel' = page /\ newestRunRevision' = 0
       /\ read' = Done("return")

Enter(d, content) ==
  /\ command' = [command EXCEPT ![d] = content]
  /\ queue' = Append(queue, Waiting(d)) /\ status' = "saving" /\ StartLoop
  /\ UNCHANGED <<serviceVars, late, boundVars, page, held, undoVars, notSaved>>

Decide(d) ==
  /\ command[d] = NoTask /\ status # "error" /\ ~ReviewBlocked
  /\ \E c \in Contents :
       /\ \E s \in c.targets : ~KeepsApproval(c, Shown[s])
       /\ Enter(d, [kind |-> c.kind, verdict |-> c.verdict, targets |-> c.targets,
                    expected |-> [s \in c.targets |-> Shown[s].revision],
                    previous |-> Predecessor])

ApproveRun(d) ==
  /\ command[d] = NoTask /\ status # "error" /\ ~Busy /\ OpenShots(page.rows) # {}
  /\ Enter(d, [kind |-> "run", verdict |-> "approved", targets |-> {},
               runRevision |-> page.at, count |-> Cardinality(OpenShots(page.rows)),
               previous |-> NoDecision])

\* Every entry of the queue is sent again, in its order.
Retry ==
  /\ status = "error" /\ queue # <<>>
  /\ queue' = [i \in DOMAIN queue |-> Waiting(queue[i].id)]
  /\ status' = "saving" /\ StartLoop
  /\ UNCHANGED <<serviceVars, late, boundVars, command, page, held, undoVars, notSaved>>

-----------------------------------------------------------------------------
(* The answers of the queued decisions.                                    *)

Is(i, places) == i \in DOMAIN queue /\ queue[i].at \in places
Becomes(i, entry) == queue' = [queue EXCEPT ![i] = entry]
At(i, place) == [id |-> queue[i].id, at |-> place]

\* Only admission is serialized.
Sendable(i) == Is(i, {"sending"}) /\ \A j \in 1..i - 1 : ~Is(j, {"sending", "admission"})

\* The service queues a decision, has it, gave it up, or misses the one before.
Post(i) ==
  /\ Sendable(i)
  /\ LET d == queue[i].id
     IN IF ~Admissible(d) THEN Becomes(i, At(i, "failed")) /\ UNCHANGED <<task, read>>
        ELSE IF task[d].state = "dead"
          THEN Becomes(i, At(i, "admission")) /\ read' = Asked("admission") /\ UNCHANGED task
          ELSE Becomes(i, At(i, "waiting")) /\ Enqueue(d) /\ UNCHANGED read
  /\ UNCHANGED <<rowsAt, undone, late, boundVars, command, page, held, status, loopVars,
                 undoVars, notSaved>>

\* The request or its answer is lost; it can still arrive.
PostFails(i) ==
  /\ Sendable(i) /\ Fault
  /\ Becomes(i, At(i, "failed")) /\ late' = late \cup {queue[i].id}
  /\ UNCHANGED <<serviceVars, command, page, held, status, loopVars, undoVars, notSaved, read>>

AdmissionRefused(i) ==
  /\ Is(i, {"admission"}) /\ read["admission"].at = "answered"
  /\ Becomes(i, [id |-> queue[i].id, at |-> "conflict", model |-> read["admission"].model])
  /\ read' = Done("admission")
  /\ UNCHANGED <<serviceVars, late, boundVars, command, page, held, status, loopVars,
                 undoVars, notSaved>>

\* createReceiptPoll reads the oldest receipt only.  A receipt names the
\* revision of the run at the read; a refusal has the model of one revision.
Oldest(i) == Is(i, {"waiting"}) /\ \A j \in 1..i - 1 : ~Is(j, {"waiting"})

ReadReceipt(i) ==
  /\ Oldest(i) /\ task[queue[i].id].state # "queued"
  /\ IF task[queue[i].id].state = "saved"
       THEN Becomes(i, [id |-> queue[i].id, at |-> "saved", currentRunRevision |-> Now])
       ELSE Becomes(i, [id |-> queue[i].id, at |-> "conflict",
                        model |-> [at |-> Now, rows |-> RowsAt(Now)]])
  /\ UNCHANGED <<serviceVars, late, boundVars, command, page, held, status, loopVars,
                 undoVars, notSaved, read>>

ReceiptFails(i) ==
  /\ Oldest(i) /\ Fault /\ Becomes(i, At(i, "failed"))
  /\ UNCHANGED <<serviceVars, late, command, page, held, status, loopVars, undoVars,
                 notSaved, read>>

-----------------------------------------------------------------------------
(* The loop over the queue.                                                *)

\* Mutant: a receipt applies to any model.
FollowsAny(model, receipt) == TRUE

\* No other write came between the model and the decision.
Follows(model, receipt) == receipt.runRevision = model.at + 1

\* applySavedReview.
Applies(model, c, receipt) ==
  /\ c.kind # "run" /\ Follows(model, receipt)
  /\ DOMAIN receipt.revisions \subseteq c.targets
  /\ \A s \in c.targets :
       IF s \in DOMAIN receipt.revisions THEN receipt.revisions[s] = c.expected[s] + 1
       ELSE KeepsApproval(c, model.rows[s])

Applied(model, c, receipt) ==
  [at |-> receipt.runRevision,
   rows |-> [s \in Shots |->
     IF s \in DOMAIN receipt.revisions
       THEN [revision |-> receipt.revisions[s], verdict |-> c.verdict]
       ELSE model.rows[s]]]

\* The receipt of the last decision is the newest state that a receipt named.
IsCurrent(newest, receipt) == Len(queue) > 1 \/ newest = receipt.runRevision

\* The head of the queue is final.
Confirm(model) ==
  /\ currentModel' = model /\ page' = Latest(page, model)
  /\ queue' = Tail(queue) /\ history' = Append(history, queue[1].id)
  /\ status' = IF Len(queue) = 1 THEN "saved" ELSE "saving"

TakeSaved ==
  /\ Is(1, {"saved"})
  /\ LET receipt == task[queue[1].id]
         c == command[queue[1].id]
         newest == Max({newestRunRevision, queue[1].currentRunRevision})
     IN /\ newestRunRevision' = newest
        /\ IF Applies(currentModel, c, receipt) /\ IsCurrent(newest, receipt)
             THEN Confirm(Applied(currentModel, c, receipt)) /\ UNCHANGED read
             ELSE /\ Becomes(1, At(1, "confirming")) /\ read' = Asked("loop")
                  /\ UNCHANGED <<currentModel, page, history, status>>
  /\ UNCHANGED <<serviceVars, late, boundVars, command, held, undoing, notSaved>>

ConfirmRead ==
  /\ Is(1, {"confirming"}) /\ read["loop"].at = "answered"
  /\ Confirm(read["loop"].model) /\ read' = Done("loop")
  /\ UNCHANGED <<serviceVars, late, boundVars, command, held, newestRunRevision, undoing,
                 notSaved>>

\* The requests of the queue are given up; one of them can be on its way.
Abort ==
  late' \in {late} \cup {late \cup {queue[i].id} : i \in {j \in DOMAIN queue : Sendable(j)}}

\* An error keeps the queue for a retry.
Fails ==
  /\ Abort /\ queue' = [i \in DOMAIN queue |-> [id |-> queue[i].id, at |-> "held"]]
  /\ status' = "error"
  /\ read' = [read EXCEPT !["loop"] = NoRead, !["admission"] = NoRead]
  /\ UNCHANGED <<serviceVars, command, page, held, loopVars, undoVars, notSaved>>

TakeFailed == Is(1, {"failed"}) /\ Fails /\ UNCHANGED boundVars
ConfirmFails == Is(1, {"confirming"}) /\ Fault /\ Fails

\* A conflict ends the queue: "Later queued decisions were not saved".
TakeConflict ==
  /\ Is(1, {"conflict"}) /\ Abort
  /\ page' = Latest(page, queue[1].model)
  /\ queue' = <<>> /\ status' = "conflict"
  /\ notSaved' = notSaved \cup {queue[i].id : i \in DOMAIN queue}
  /\ read' = [Done("admission") EXCEPT !["refusal"] =
       IF queue[1].model.at < newestRunRevision THEN Sent ELSE @]
  /\ UNCHANGED <<serviceVars, boundVars, command, held, loopVars, undoVars>>

-----------------------------------------------------------------------------
(* A manual read, and Undo.                                                *)

Refresh ==
  /\ status \in {"error", "conflict"}
  /\ held' = queue /\ queue' = <<>> /\ status' = "saving" /\ read' = Asked("manual")
  /\ UNCHANGED <<serviceVars, late, boundVars, command, page, loopVars, undoVars, notSaved>>

Refreshed ==
  /\ read["manual"].at = "answered"
  /\ page' = Latest(page, read["manual"].model) /\ read' = Done("manual")
  /\ held' = <<>> /\ status' = "idle" /\ undoing' = NoDecision
  /\ UNCHANGED <<serviceVars, late, boundVars, command, queue, loopVars, history, notSaved>>

RefreshFails ==
  /\ read["manual"] # NoRead /\ Fault
  /\ queue' = held /\ held' = <<>> /\ status' = "error" /\ read' = Done("manual")
  /\ UNCHANGED <<serviceVars, late, command, page, loopVars, undoVars, notSaved>>

\* Undo of the last decision, or again of the one whose answer was lost.
BeginUndo ==
  /\ history # <<>> /\ ~Busy /\ (status = "error" => undoing # NoDecision)
  /\ undoing' = IF status = "error" THEN undoing ELSE [id |-> Last(history), saved |-> FALSE]
  /\ status' = "saving" /\ read' = [Done("return") EXCEPT !["undo"] = [at |-> "posted"]]
  /\ UNCHANGED <<serviceVars, late, boundVars, command, page, queue, held, loopVars, history,
                 notSaved>>

Stands(d) ==
  \A s \in DOMAIN task[d].revisions : RowsAt(Now)[s].revision = task[d].revisions[s]

\* The service restores the verdicts, replays, or refuses; a model follows.
\* A new Undo of what another one restored is refused.
ServeUndo ==
  /\ read["undo"].at = "posted" /\ read' = Asked("undo")
  /\ LET d == undoing.id
     IN IF ~undoing.saved /\ d \notin undone /\ Stands(d)
          THEN /\ undone' = undone \cup {d} /\ undoing' = [undoing EXCEPT !.saved = TRUE]
               /\ rowsAt' = Rewritten(DOMAIN task[d].revisions,
                    [s \in Shots |-> RowsAt(task[d].runRevision - 1)[s].verdict])
          ELSE UNCHANGED <<undone, undoing, rowsAt>>
  /\ UNCHANGED <<task, late, boundVars, command, page, queue, held, status, loopVars, history,
                 notSaved>>

UndoAnswered ==
  /\ read["undo"].at = "answered"
  /\ page' = Latest(page, read["undo"].model) /\ read' = Done("undo")
  /\ status' = IF undoing.saved THEN "saved" ELSE "conflict"
  /\ history' = IF undoing.saved THEN Front(history)
                ELSE SelectSeq(history, LAMBDA d : d # undoing.id)
  /\ undoing' = NoDecision
  /\ UNCHANGED <<serviceVars, late, boundVars, command, queue, held, loopVars, notSaved>>

UndoFails ==
  /\ read["undo"] # NoRead /\ Fault
  /\ status' = "error" /\ read' = Done("undo")
  /\ UNCHANGED <<serviceVars, late, command, page, queue, held, loopVars, undoVars, notSaved>>

-----------------------------------------------------------------------------
Service ==
  \/ \E d \in Decisions : Process(d) \/ ProcessFails(d) \/ ArrivesLate(d)
  \/ \E s \in Shots, verdict \in {"approved", "rejected"} : OtherDecides(s, verdict)
  \/ ServeUndo

Queue ==
  \/ \E i \in DOMAIN queue :
       Post(i) \/ PostFails(i) \/ AdmissionRefused(i) \/ ReadReceipt(i) \/ ReceiptFails(i)
  \/ TakeSaved \/ ConfirmRead \/ TakeFailed \/ ConfirmFails \/ TakeConflict

Reviewer ==
  \/ \E d \in Decisions : Decide(d) \/ ApproveRun(d)
  \/ Retry \/ Refresh \/ Refreshed \/ RefreshFails \/ BeginUndo \/ UndoAnswered \/ UndoFails

SessionNext ==
  \/ Service \/ Queue \/ Reviewer
  \/ \E k \in Readers : ReadRun(k) \/ ReadRows(k) \/ BeginRead(k) \/ Land(k)

SessionSpec == SessionInit /\ [][SessionNext]_sessionVars

-----------------------------------------------------------------------------
(* The model of the page is one the run had: no row is older than the      *)
(* revision that the model names, so no later read is dropped for a stale  *)
(* one ("older receipts cannot replace it", docs/current-contract.md:241). *)
PageIsReal ==
  \A s \in Shots : \E r \in page.at..Now : page.rows[s] = RowsAt(r)[s]

(* A page that says saved has the newest state that a receipt named        *)
(* (use-review-session.ts:567-570).                                        *)
SavedIsNewest == status = "saved" => page.at >= newestRunRevision

(* Both, and what the page shows is not behind its model ("A confirmed     *)
(* verdict can be newer than a receipt that the browser still awaits",     *)
(* use-review-session.ts:226).                                             *)
ShownIsReal ==
  /\ PageIsReal /\ SavedIsNewest
  /\ \A s \in Shots : Shown[s].revision >= page.rows[s].revision

(* A decision that the page reported as not saved, with the ones after it, *)
(* is not saved later, unless the service gave it up ("Later queued        *)
(* decisions were not saved", use-review-session.ts:638).                  *)
UnsavedStaysSo == \A d \in notSaved : task[d].state # "saved"

(* So a refusal is final, and the decisions of a page that is alone, and   *)
(* whose requests arrive, are never refused, however fast they follow each *)
(* other.                                                                  *)
RefusalIsTrue ==
  /\ UnsavedStaysSo
  /\ others = 0 /\ faults = 0 => \A d \in Decisions : task[d].state # "refused"

=============================================================================
