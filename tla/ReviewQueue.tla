----------------------------- MODULE ReviewQueue -----------------------------
(***************************************************************************)
(* The durable queue of review decisions, composed with the review service *)
(* (ReviewCommands).                                                       *)
(*                                                                         *)
(* A page admits a decision as a task of work_tasks and reads its receipt  *)
(* later; consumers of the operations worker claim the task under a lease, *)
(* call the service and write the receipt.  A lease can end while its      *)
(* consumer still runs, so two consumers can call the service with one     *)
(* command.  An Undo is a direct call.                                     *)
(*                                                                         *)
(* A lease is live or ended, and it may end at any time; the waits between *)
(* attempts order nothing and are left out.  The claim of a task names its *)
(* attempt, which stands for the lease token.                              *)
(***************************************************************************)
EXTENDS ReviewCommands

CONSTANTS
  Consumers,   \* the workers that are passes of the queue; the others serve Undo
  MaxAttempts  \* max_attempts of a review task

ASSUME QueueAssumption == Consumers \subseteq Workers /\ MaxAttempts \in Nat \ {0}

VARIABLES
  task,      \* per command: its row of work_tasks
  attempt    \* per worker: the attempt that its consumer claimed, 0 for none

queueVars == <<vars, task, attempt>>

NoTask == [state |-> "none", attempts |-> 0, live |-> FALSE, previous |-> None,
           result |-> "none"]
Open(c) == task[c].state \in {"queued", "leased"}
Settled(c) == task[c].state \in {"complete", "dead"}
Results == {"none", "saved", "conflict", "concurrent"}

QueueInit ==
  /\ Init
  /\ task = [c \in Commands |-> NoTask]
  /\ attempt = [w \in Workers |-> 0]

-----------------------------------------------------------------------------
(* enqueueReview: a new task, behind the predecessor its page names.       *)
Admit(c) ==
  /\ request[c].kind \in {"decide", "approveRun"} /\ task[c] = NoTask
  /\ active /\ ready
  /\ \E p \in Commands \cup {None} :
       /\ p # None => task[p] # NoTask /\ request[p].actor = request[c].actor
       /\ task' = [task EXCEPT ![c] = [NoTask EXCEPT !.state = "queued", !.previous = p]]
  /\ UNCHANGED <<vars, attempt>>

-----------------------------------------------------------------------------
(* A pass of processReviewQueue.                                           *)

\* Mutant: the task of a stopped consumer is never due again.
DueQueued(c) ==
  /\ task[c].state = "queued"
  /\ task[c].previous # None => Settled(task[c].previous)

Due(c) ==
  /\ task[c].state = "queued" \/ (task[c].state = "leased" /\ ~task[c].live)
  /\ task[c].previous # None => Settled(task[c].previous)

Claim(w, c) ==
  /\ w \in Consumers /\ call[w].at = "idle"
  /\ Due(c) /\ task[c].attempts < MaxAttempts
  /\ task' = [task EXCEPT ![c].state = "leased", ![c].live = TRUE, ![c].attempts = @ + 1]
  /\ attempt' = [attempt EXCEPT ![w] = task'[c].attempts]
  /\ Become(w, [Idle EXCEPT !.at = "predecessor", !.command = c])
  /\ UNCHANGED <<runVars, rowVars, saved, request>>

\* claimWork of a task whose last lease ended.
GiveUp(c) ==
  /\ Due(c) /\ task[c].state = "leased" /\ task[c].attempts >= MaxAttempts
  /\ task' = [task EXCEPT ![c].state = "dead", ![c].live = FALSE]
  /\ UNCHANGED <<vars, attempt>>

\* Mutant: a failed predecessor fails nothing.
PredecessorIgnored(w) ==
  /\ call[w].at = "predecessor" /\ Goto(w, "begin")
  /\ UNCHANGED <<runVars, rowVars, saved, request, task, attempt>>

\* A failed predecessor fails the decision; else the service is called.
Predecessor(w) ==
  /\ call[w].at = "predecessor"
  /\ LET p == task[call[w].command].previous
     IN IF p # None /\ task[p].result # "saved"
          THEN Answer(w, "conflict")
          ELSE Goto(w, "begin")
  /\ UNCHANGED <<runVars, rowVars, saved, request, task, attempt>>

\* commandReplay at the start of the service call.
BeginQueued(w) ==
  /\ call[w].at = "begin"
  /\ IF IsSaved(call[w].command) THEN Answer(w, "saved") ELSE Goto(w, "reading")
  /\ UNCHANGED <<runVars, rowVars, saved, request, task, attempt>>

HasLease(w) ==
  LET row == task[call[w].command]
  IN row.state = "leased" /\ row.live /\ row.attempts = attempt[w]

Queued(w) == attempt[w] # 0
Finish(w) ==
  /\ Stop(w)
  /\ attempt' = [attempt EXCEPT ![w] = 0]

(* completeWork: the receipt is the answer, if the lease is still held.    *)
WriteReceipt(w) ==
  /\ call[w].at = "answered" /\ Queued(w) /\ call[w].answer # "error"
  /\ task' = IF HasLease(w)
               THEN [task EXCEPT ![call[w].command] =
                       [@ EXCEPT !.state = "complete", !.live = FALSE,
                                 !.result = call[w].answer]]
               ELSE task
  /\ Finish(w)

(* The reads of the receipt fail after the decision was saved.             *)
ReceiptFails(w) ==
  /\ call[w].at = "answered" /\ Queued(w) /\ call[w].answer = "saved"
  /\ Answer(w, "error")
  /\ UNCHANGED <<runVars, rowVars, saved, request, task, attempt>>

(* failWork: another attempt, or none after the last.                      *)
FailAttempt(w) ==
  /\ call[w].at = "answered" /\ Queued(w) /\ call[w].answer = "error"
  /\ task' = IF HasLease(w)
               THEN [task EXCEPT ![call[w].command] =
                       [@ EXCEPT !.live = FALSE,
                          !.state = IF attempt[w] >= MaxAttempts THEN "dead" ELSE "queued"]]
               ELSE task
  /\ Finish(w)

StopConsumer(w) ==
  /\ call[w].at # "idle" /\ Queued(w)
  /\ Finish(w)
  /\ UNCHANGED task

LeaseEnds(c) ==
  /\ task[c].state = "leased" /\ task[c].live
  /\ task' = [task EXCEPT ![c].live = FALSE]
  /\ UNCHANGED <<vars, attempt>>

-----------------------------------------------------------------------------
(* readyGuard of promote: no review task of the comparison is open.        *)
PromoteSettled == (\A c \in Commands : ~Open(c)) /\ Promote

DirectUndo(w, c) == w \notin Consumers /\ request[c].kind = "undo" /\ Begin(w, c)
ReturnUndo(w) == ~Queued(w) /\ (Return(w) \/ Crash(w))

Consume(w) ==
  \/ \E c \in Commands : Claim(w, c)
  \/ Predecessor(w) \/ BeginQueued(w) \/ WriteReceipt(w) \/ FailAttempt(w)
  \/ Step(w) /\ UNCHANGED <<task, attempt>>

QueueNext ==
  \/ \E c \in Commands : Admit(c) \/ GiveUp(c) \/ LeaseEnds(c)
  \/ \E w \in Workers : Consume(w) \/ ReceiptFails(w) \/ StopConsumer(w)
  \/ /\ \/ Pages \/ OtherRunWrites \/ OtherPromotion \/ PromoteSettled \/ Retire
        \/ \E w \in Workers : ReturnUndo(w) \/ \E c \in Commands : DirectUndo(w, c)
     /\ UNCHANGED <<task, attempt>>

QueueSpec == QueueInit /\ [][QueueNext]_queueVars

(* Passes come at least every 5 minutes, and time passes.                  *)
QueueFairness ==
  /\ \A c \in Commands : WF_queueVars(GiveUp(c)) /\ WF_queueVars(LeaseEnds(c))
  /\ \A w \in Workers :
       /\ WF_queueVars(Consume(w))
       /\ WF_queueVars(ReturnUndo(w) /\ UNCHANGED <<task, attempt>>)

FairQueueSpec == QueueSpec /\ QueueFairness

-----------------------------------------------------------------------------
(* Every variable of the queue has the type its column or local has.       *)
QueueTypeOK ==
  /\ TypeOK
  /\ \A c \in Commands :
       /\ task[c].state \in {"none", "queued", "leased", "complete", "dead"}
       /\ task[c].attempts \in 0..MaxAttempts /\ task[c].live \in BOOLEAN
       /\ task[c].previous \in Commands \cup {None} /\ task[c].result \in Results
  /\ attempt \in [Workers -> 0..MaxAttempts]

(* A decision is saved only when the decision its page made before it was  *)
(* saved first, with a receipt ("predecessor ordering ...,                 *)
(* failed-predecessor handling", docs/current-contract.md:239).            *)
InPageOrder ==
  \A c \in Commands :
    IsSaved(c) /\ task[c].previous # None =>
      IsSaved(task[c].previous) /\ task[task[c].previous].result = "saved"

(* Every admitted decision gets its final receipt.                         *)
DecisionsSettle == \A c \in Commands : Open(c) ~> Settled(c)

=============================================================================
