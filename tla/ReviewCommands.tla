--------------------------- MODULE ReviewCommands ---------------------------
(***************************************************************************)
(* The review commands of one run: decisions, run approvals and Undo.      *)
(*                                                                         *)
(* A page sends a command with the revisions it shows.  A call of the      *)
(* service looks for the stored result of its command ID, reads the state  *)
(* of the comparison, and writes one guarded batch; the same command can   *)
(* be in several calls at once, because its sender tries again.  Each      *)
(* batch or read is one action, so other calls and other writes of the     *)
(* project run between them.                                               *)
(*                                                                         *)
(* Every row here is a changed row.  The decision of a row by a command is *)
(* named by the command, so decision_id is a command, Copied or None.  The *)
(* legacy source_decision_id is NULL in every row written now and is left  *)
(* out, as is currentBaselineGuard: the comparison of the baseline is      *)
(* promoted, and a promoted comparison is refused before it.               *)
(***************************************************************************)
EXTENDS Naturals, FiniteSets

CONSTANTS
  Rows,         \* the changed rows of the comparison
  Items,        \* the screenshots: a partition of Rows
  CopiedRows,   \* rows that begin with a copied approval
  Commands,     \* command IDs
  Actors,       \* reviewers; one review session each
  Workers,      \* concurrent calls of the service
  MaxRevision,  \* bound: project revisions of other writers
  NotSaved,     \* no row of visonaut_commands
  Copied,       \* the decision 'copied:<row>'
  None          \* NULL

ASSUME ReviewAssumption ==
  /\ IsFiniteSet(Rows) /\ IsFiniteSet(Commands) /\ MaxRevision \in Nat
  /\ UNION Items = Rows /\ {} \notin Items
  /\ \A a, b \in Items : a = b \/ a \cap b = {}
  /\ CopiedRows \subseteq Rows
  /\ Copied \notin Commands /\ None \notin Commands /\ Copied # None

VARIABLES
  \* the run, its comparison and its project
  main, active, ready, promoted, runRevision, projectRevision, baseline,
  \* the rows and their decisions
  decision,  \* decision_id
  revision,  \* decision_revision
  inForce,   \* the decisions of the row with revoked = 0
  saved,     \* visonaut_commands
  request,   \* per command: what a page sent
  call       \* per worker: the place and the locals of a call

runVars == <<main, active, ready, promoted, runRevision, projectRevision, baseline>>
rowVars == <<decision, revision, inForce>>
vars == <<runVars, rowVars, saved, request, call>>

Ids == Commands \cup {Copied, None}
Kinds == {"decide", "approveRun", "undo"}
Verdicts == {"approved", "rejected"}
TopRevision == MaxRevision + Cardinality(Commands) + 2

\* What a row of visonaut_commands holds, for the rows that it changed, and what
\* of it the ledger shows.
PartOf(S) == UNION {[rows -> S] : rows \in SUBSET Rows}
Entries == [kind : Kinds, rows : SUBSET Rows, previous : PartOf(Ids), revision : PartOf(Nat),
            undoneBy : Commands \cup {None}]
LedgerEntries == [rows : SUBSET Rows, before : PartOf(Ids), undo : BOOLEAN, undone : BOOLEAN]

ASSUME NotSavedAssumption == NotSaved \notin Entries /\ NotSaved \notin LedgerEntries

Idle == [at |-> "idle", command |-> None, projectRevision |-> 0, runRevision |-> 0,
         decided |-> {}, reviewable |-> FALSE, fault |-> FALSE, answer |-> "none"]
NoRequest == [kind |-> "none"]

Become(w, me) == call' = [call EXCEPT ![w] = me]
Goto(w, place) == Become(w, [call[w] EXCEPT !.at = place])
Answer(w, answer) ==
  Become(w, [Idle EXCEPT !.at = "answered", !.command = call[w].command, !.answer = answer])

Request(w) == request[call[w].command]
IsSaved(c) == saved[c] # NotSaved

\* eligibleAcceptanceSql, and the targets of a run approval.
Verdict(id) ==
  IF id = Copied \/ request[id].kind = "approveRun" THEN "approved" ELSE request[id].verdict
Standing(r) == decision[r] # None /\ decision[r] \in inForce[r]
Accepted(r) == Standing(r) /\ Verdict(decision[r]) = "approved"
Undecided == {r \in Rows : ~Standing(r)}

Init ==
  /\ main \in BOOLEAN /\ active = TRUE /\ ready = TRUE /\ promoted = FALSE
  /\ runRevision = 0 /\ projectRevision = 0 /\ baseline = 0
  /\ decision = [r \in Rows |-> IF r \in CopiedRows THEN Copied ELSE None]
  /\ revision = [r \in Rows |-> IF r \in CopiedRows THEN 1 ELSE 0]
  /\ inForce = [r \in Rows |-> IF r \in CopiedRows THEN {Copied} ELSE {}]
  /\ saved = [c \in Commands |-> NotSaved]
  /\ request = [c \in Commands |-> NoRequest]
  /\ call = [w \in Workers |-> Idle]

-----------------------------------------------------------------------------
(* The pages: a command is built from what its page shows at that time.    *)

Send(c, content) ==
  /\ request[c] = NoRequest
  /\ request' = [request EXCEPT ![c] = content]
  /\ UNCHANGED <<runVars, rowVars, saved, call>>

SendDecide(c, actor) ==
  \E verdict \in Verdicts, targets \in SUBSET Rows \ {{}}, whole \in BOOLEAN :
    /\ whole => targets \in Items
    /\ Send(c, [kind |-> "decide", actor |-> actor, verdict |-> verdict,
                targets |-> targets, whole |-> whole,
                expected |-> [r \in targets |-> revision[r]], shown |-> decision])

SendApproveRun(c, actor) ==
  /\ Undecided # {}
  /\ Send(c, [kind |-> "approveRun", actor |-> actor, runRevision |-> runRevision,
              count |-> Cardinality(Undecided), shown |-> decision])

SendUndo(c, actor) ==
  \E d \in Commands :
    /\ IsSaved(d)
    /\ Send(c, [kind |-> "undo", actor |-> actor, undoes |-> d, baseline |-> baseline])

-----------------------------------------------------------------------------
(* A call of the service.                                                  *)

\* commandReplay: a saved command answers with its stored result.
Begin(w, c) ==
  /\ call[w].at = "idle" /\ request[c] # NoRequest
  /\ Become(w, [Idle EXCEPT !.command = c,
       !.at = IF IsSaved(c) THEN "answered" ELSE "reading",
       !.answer = IF IsSaved(c) THEN "saved" ELSE "none"])
  /\ UNCHANGED <<runVars, rowVars, saved, request>>

\* Mutant: only the comparison is tested.
ReviewableReady == ready

\* assertReviewable and reviewGuard.
Reviewable == active /\ ready /\ ~promoted

\* An approval of the whole screenshot keeps each approval in force.
ToDecide(content) ==
  IF content.whole /\ content.verdict = "approved"
    THEN {r \in content.targets : ~Accepted(r)} ELSE content.targets

\* Mutant: the expected revisions are not compared.
TargetsShownAny(content) == TRUE

TargetsShown(content) == \A r \in content.targets : revision[r] = content.expected[r]

ReadDecide(w) ==
  /\ call[w].at = "reading" /\ Request(w).kind = "decide"
  /\ IF Reviewable /\ TargetsShown(Request(w)) /\ ToDecide(Request(w)) # {}
       THEN Become(w, [call[w] EXCEPT !.at = "committing", !.runRevision = runRevision,
              !.projectRevision = projectRevision, !.decided = ToDecide(Request(w))])
       ELSE Answer(w, "conflict")
  /\ UNCHANGED <<runVars, rowVars, saved, request>>

RunShown(content) == runRevision = content.runRevision

ReadApproveRun(w) ==
  /\ call[w].at = "reading" /\ Request(w).kind = "approveRun"
  /\ IF Reviewable /\ RunShown(Request(w))
       THEN Become(w, [call[w] EXCEPT !.at = "committing", !.runRevision = runRevision,
                                      !.projectRevision = projectRevision])
       ELSE Answer(w, "conflict")
  /\ UNCHANGED <<runVars, rowVars, saved, request>>

\* Undo reads the command, then the comparison and the run, then the project
\* and the promotion.
ReadUndone(w) ==
  /\ call[w].at = "reading" /\ Request(w).kind = "undo"
  /\ LET d == Request(w).undoes
     IN IF /\ request[d].actor = Request(w).actor
           /\ saved[d].undoneBy = None /\ saved[d].kind # "undo"
          THEN Goto(w, "undo-run")
          ELSE Answer(w, "conflict")
  /\ UNCHANGED <<runVars, rowVars, saved, request>>

ReadUndoRun(w) ==
  /\ call[w].at = "undo-run"
  /\ Become(w, [call[w] EXCEPT !.at = "undo-project", !.runRevision = runRevision,
                               !.reviewable = active /\ ready])
  /\ UNCHANGED <<runVars, rowVars, saved, request>>

ReadUndoProject(w) ==
  /\ call[w].at = "undo-project"
  /\ IF /\ main => baseline = Request(w).baseline
        /\ ~promoted /\ call[w].reviewable
       THEN Become(w, [call[w] EXCEPT !.at = "committing",
                                      !.projectRevision = projectRevision])
       ELSE Answer(w, "conflict")
  /\ UNCHANGED <<runVars, rowVars, saved, request>>

-----------------------------------------------------------------------------
(* The batch of a command: its guards, then its writes.                    *)

\* projectGuard, and the run revision of reviewGuard.
SameRevisions(me) == projectRevision = me.projectRevision /\ runRevision = me.runRevision

\* The rows that an Undo of d changes, and the guards on them.
UndoTargets(d) ==
  IF saved[d].kind = "approveRun" THEN {r \in Rows : decision[r] = d} ELSE saved[d].rows

\* Mutant: an Undo does not ask whether its decisions still stand.
StillStandsAny(d) == TRUE

StillStands(d) ==
  LET same == {r \in UndoTargets(d) : revision[r] = saved[d].revision[r]}
  IN IF saved[d].kind = "approveRun"
       THEN Cardinality(same) = request[d].count ELSE same = saved[d].rows

CommandGuard(me) ==
  LET content == request[me.command]
  IN CASE content.kind = "decide" -> TargetsShown(content)
       [] content.kind = "approveRun" -> Cardinality(Undecided) = content.count
       [] content.kind = "undo" ->
            saved[content.undoes].undoneBy = None /\ StillStands(content.undoes)

\* Mutant: the batch has only the guard of the run.
BatchPassesUnguarded(me) == Reviewable

BatchPasses(me) ==
  SameRevisions(me) /\ Reviewable /\ CommandGuard(me) /\ ~IsSaved(me.command)

\* Mutant: the decision that a row had is not revoked.
RewriteUnrevoked(rows, id) ==
  /\ decision' = [r \in Rows |-> IF r \in rows THEN id[r] ELSE decision[r]]
  /\ revision' = [r \in Rows |-> IF r \in rows THEN revision[r] + 1 ELSE revision[r]]
  /\ inForce' = [r \in Rows |->
       IF r \in rows THEN inForce[r] \cup ({id[r]} \ {None}) ELSE inForce[r]]

Rewrite(rows, id) ==
  /\ decision' = [r \in Rows |-> IF r \in rows THEN id[r] ELSE decision[r]]
  /\ revision' = [r \in Rows |-> IF r \in rows THEN revision[r] + 1 ELSE revision[r]]
  /\ inForce' = [r \in Rows |->
       IF r \in rows THEN (inForce[r] \ {decision[r]}) \cup ({id[r]} \ {None})
       ELSE inForce[r]]

Entry(kind, rows) ==
  [kind |-> kind, rows |-> rows, previous |-> [r \in rows |-> decision[r]],
   revision |-> [r \in rows |-> revision[r] + 1], undoneBy |-> None]

WriteDecisions(c, kind, rows) ==
  /\ Rewrite(rows, [r \in rows |-> c])
  /\ saved' = [saved EXCEPT ![c] = Entry(kind, rows)]

WriteUndo(c, d) ==
  /\ Rewrite(UndoTargets(d), saved[d].previous)
  /\ saved' = [saved EXCEPT ![c] = Entry("undo", UndoTargets(d)), ![d].undoneBy = c]

Write(me) ==
  LET content == request[me.command]
  IN /\ CASE content.kind = "decide" -> WriteDecisions(me.command, "decide", me.decided)
          [] content.kind = "approveRun" ->
               WriteDecisions(me.command, "approveRun", Undecided)
          [] content.kind = "undo" -> WriteUndo(me.command, content.undoes)
     /\ runRevision' = runRevision + 1
     /\ projectRevision' = projectRevision + 1
     /\ UNCHANGED <<main, active, ready, promoted, baseline>>

\* A batch that failed a guard, or whose answer was lost, looks for the
\* stored result.
ToReplay(w, fault) == Become(w, [call[w] EXCEPT !.at = "replaying", !.fault = fault])

Commit(w) ==
  /\ call[w].at = "committing"
  /\ IF BatchPasses(call[w])
       THEN Write(call[w]) /\ (Answer(w, "saved") \/ ToReplay(w, TRUE))
       ELSE ToReplay(w, FALSE) /\ UNCHANGED <<runVars, rowVars, saved>>
  /\ UNCHANGED request

CommitFails(w) ==
  /\ call[w].at = "committing"
  /\ ToReplay(w, TRUE)
  /\ UNCHANGED <<runVars, rowVars, saved, request>>

Replay(w) ==
  /\ call[w].at = "replaying"
  /\ CASE IsSaved(call[w].command) -> Answer(w, "saved")
       [] ~IsSaved(call[w].command) /\ call[w].fault -> Answer(w, "error")
       [] OTHER -> Goto(w, "diagnosing")
  /\ UNCHANGED <<runVars, rowVars, saved, request>>

\* guardFailure: another write came between, or a guard of the rows failed.
Diagnose(w) ==
  /\ call[w].at = "diagnosing"
  /\ Answer(w, IF SameRevisions(call[w]) THEN "conflict" ELSE "concurrent")
  /\ UNCHANGED <<runVars, rowVars, saved, request>>

\* A read fails; the error is the answer.
ReadFails(w) ==
  /\ call[w].at \in {"reading", "undo-run", "undo-project", "replaying", "diagnosing"}
  /\ Answer(w, "error")
  /\ UNCHANGED <<runVars, rowVars, saved, request>>

Stop(w) ==
  /\ Become(w, Idle)
  /\ UNCHANGED <<runVars, rowVars, saved, request>>
Return(w) == call[w].at = "answered" /\ Stop(w)
Crash(w) == call[w].at \notin {"idle", "answered"} /\ Stop(w)

Step(w) ==
  \/ ReadDecide(w) \/ ReadApproveRun(w) \/ ReadUndone(w) \/ ReadUndoRun(w)
  \/ ReadUndoProject(w) \/ Commit(w) \/ CommitFails(w) \/ Replay(w) \/ Diagnose(w)
  \/ ReadFails(w)

-----------------------------------------------------------------------------
(* The other writers of the project.                                       *)

OtherRunWrites ==
  /\ projectRevision < MaxRevision
  /\ projectRevision' = projectRevision + 1
  /\ UNCHANGED <<main, active, ready, promoted, runRevision, baseline>>
  /\ UNCHANGED <<rowVars, saved, request, call>>

\* promote of another run: every active run gets a revision, and the
\* comparison of an active main run is invalidated.
OtherPromotion ==
  /\ projectRevision < MaxRevision /\ active
  /\ projectRevision' = projectRevision + 1
  /\ runRevision' = runRevision + 1
  /\ baseline' = baseline + 1
  /\ ready' = (ready /\ ~main)
  /\ UNCHANGED <<main, active, promoted, rowVars, saved, request, call>>

\* promote of this run: every row is accepted, in the batch that promotes.
Promote ==
  /\ main /\ Reviewable /\ \A r \in Rows : Accepted(r)
  /\ promoted' = TRUE /\ active' = FALSE
  /\ projectRevision' = projectRevision + 1 /\ runRevision' = runRevision + 1
  /\ baseline' = baseline + 1
  /\ UNCHANGED <<main, ready, rowVars, saved, request, call>>

Retire ==
  /\ active /\ active' = FALSE
  /\ projectRevision' = projectRevision + 1 /\ runRevision' = runRevision + 1
  /\ UNCHANGED <<main, ready, promoted, baseline, rowVars, saved, request, call>>

Pages ==
  \E c \in Commands, actor \in Actors :
    SendDecide(c, actor) \/ SendApproveRun(c, actor) \/ SendUndo(c, actor)
Others == OtherRunWrites \/ OtherPromotion \/ Promote \/ Retire

Next ==
  \/ Pages
  \/ \E w \in Workers, c \in Commands : Begin(w, c)
  \/ \E w \in Workers : Step(w) \/ Return(w) \/ Crash(w)
  \/ Others

Spec == Init /\ [][Next]_vars

-----------------------------------------------------------------------------
(* Every variable has the type its column, request or local has.           *)
TypeOK ==
  /\ {main, active, ready, promoted} \subseteq BOOLEAN
  /\ {runRevision, projectRevision, baseline} \subseteq 0..TopRevision
  /\ decision \in [Rows -> Ids]
  /\ revision \in [Rows -> 0..Cardinality(Commands) + 1]
  /\ inForce \in [Rows -> SUBSET (Ids \ {None})]
  /\ \A c \in Commands :
       /\ saved[c] = NotSaved \/
            (saved[c].kind = request[c].kind /\ saved[c].rows \subseteq Rows
             /\ saved[c].undoneBy \in Commands \cup {None})
       /\ request[c].kind \in Kinds \cup {"none"}
  /\ \A w \in Workers : call[w].at # "idle" => call[w].command \in Commands

(* A row has one decision in force, the one it names: no path of Undo or   *)
(* of a run approval leaves a revoked decision on a row, or a second one.  *)
OneInForce == \A r \in Rows : inForce[r] = {decision[r]} \ {None}

(* A command changes each of its rows once, however often it is sent, by   *)
(* however many calls at once (review-queue.ts:56-57: "Command replay      *)
(* keeps a second consumer from applying the decision again").             *)
EachCommandOnce ==
  \A r \in Rows :
    revision[r] = Cardinality({c \in Commands : IsSaved(c) /\ r \in saved[c].rows})
                    + (IF r \in CopiedRows THEN 1 ELSE 0)

(* A command decides only what its page showed: no row whose decision      *)
(* another reviewer changed since, and a run approval no other set of rows *)
(* (review-commands.ts:439-444).                                           *)
DecidedAsShown ==
  [][\A c \in Commands :
       ~IsSaved(c) /\ IsSaved(c)' /\ request[c].kind # "undo" =>
         /\ \A r \in saved'[c].rows : decision[r] = request[c].shown[r]
         /\ request[c].kind = "approveRun" =>
              saved'[c].rows = {r \in Rows : request[c].shown[r] = None}]_saved

(* The rows of a promoted comparison stay accepted: "Promoted history is   *)
(* read-only."                                                             *)
PromotedIsAccepted == promoted => \A r \in Rows : Accepted(r)

(* Concurrent, repeated and interrupted calls implement the ledger.        *)
Ledger == INSTANCE ReviewLedger WITH
  standing <- decision,
  entry <- [c \in Commands |->
    IF ~IsSaved(c) THEN NotSaved
    ELSE [rows |-> saved[c].rows, before |-> saved[c].previous,
          undo |-> saved[c].kind = "undo", undone |-> saved[c].undoneBy # None]],
  open <- Reviewable
ImplementsLedger == Ledger!Spec

=============================================================================
