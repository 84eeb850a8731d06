---------------------------- MODULE ReviewProofs ----------------------------
(***************************************************************************)
(* The review commands of a run for every number of rows, commands,        *)
(* reviewers and concurrent calls: each row has one decision, each command *)
(* counts once and decides what its page showed, a promoted comparison     *)
(* stays accepted, and the whole implements ReviewLedger.                  *)
(*                                                                         *)
(* The service compares revisions where the ledger compares decisions.  So *)
(* the argument is that a revision names a decision: as long as a row has  *)
(* the revision that a command gave it, or a page showed, it has the       *)
(* decision that came with it (RevisionNamesDecision, RequestKeys).        *)
(*                                                                         *)
(* The last part is about the queue that carries the decisions, for every  *)
(* number of consumers, leases and attempts: decisions are saved in the    *)
(* order of their page, and the above holds of the calls from the queue.   *)
(* It follows one decision.  A consumer calls the service only after it    *)
(* saw the receipt of the predecessor (Follows), and no step takes a       *)
(* receipt away; so the predecessor still has it when the batch saves the  *)
(* decision.                                                               *)
(***************************************************************************)
EXTENDS ReviewQueue, FiniteSetTheorems, TLAPS

\* A decision of the command that still stands, or stood once.
Decides(id, r) ==
  id \in Commands => IsSaved(id) /\ saved[id].kind # "undo" /\ r \in saved[id].rows

\* The types of the rows and of the saved commands.
RowsOK ==
  /\ decision \in [Rows -> Ids] /\ revision \in [Rows -> Nat]
  /\ inForce \in [Rows -> SUBSET Ids]
  /\ saved \in [Commands -> Entries \cup {NotSaved}]

\* Each decision that a row has, or had before a command, is of a saved command on it.
DecisionsAreSaved ==
  /\ \A r \in Rows : Decides(decision[r], r)
  /\ \A c \in Commands : IsSaved(c) =>
       /\ saved[c].previous \in [saved[c].rows -> Ids]
       /\ saved[c].revision \in [saved[c].rows -> Nat]
       /\ \A r \in saved[c].rows : Decides(saved[c].previous[r], r)

\* Until a row gets another revision, the command that gave it this one decides it.
RevisionNamesDecision ==
  \A c \in Commands : IsSaved(c) /\ saved[c].kind # "undo" =>
    \A r \in saved[c].rows :
      /\ saved[c].revision[r] <= revision[r]
      /\ saved[c].revision[r] = revision[r] => decision[r] = c

\* A saved command is of the kind its page sent, and a run approval of as many rows.
SavedAsSent ==
  \A c \in Commands : IsSaved(c) =>
    /\ request[c].kind = saved[c].kind
    /\ saved[c].kind = "approveRun" => request[c].count = Cardinality(saved[c].rows)

LedgerInv ==
  RowsOK /\ OneInForce /\ DecisionsAreSaved /\ RevisionNamesDecision /\ SavedAsSent
  /\ EachCommandOnce

\* The content of a command, beside the rows and the revision of the run as they are now.
RequestKeys(c) ==
  CASE request[c].kind = "approveRun" ->
         /\ request[c].count \in Nat \ {0} /\ request[c].runRevision \in Nat
         /\ request[c].runRevision <= runRevision
         /\ request[c].runRevision = runRevision => decision = request[c].shown
    [] request[c].kind = "undo" ->
         request[c].undoes \in Commands /\ IsSaved(request[c].undoes)
    [] request[c].kind = "decide" ->
         /\ request[c].targets \in SUBSET Rows
         /\ request[c].expected \in [request[c].targets -> Nat]
         /\ \A r \in request[c].targets :
              /\ request[c].expected[r] <= revision[r]
              /\ request[c].expected[r] = revision[r] => decision[r] = request[c].shown[r]
    [] OTHER -> request[c] = NoRequest

\* What a page sent is of the state that it showed, and that revisions tell apart.
RequestsOK ==
  /\ request = [c \in Commands |-> request[c]]
  /\ runRevision \in Nat
  /\ \A c \in Commands : RequestKeys(c)

Places == {"idle", "predecessor", "begin", "reading", "undo-run", "undo-project",
           "committing", "replaying", "diagnosing", "answered"}
Calls ==
  [at : Places, command : Commands \cup {None}, projectRevision : Nat, runRevision : Nat,
   decided : SUBSET Rows, reviewable : BOOLEAN, fault : BOOLEAN,
   answer : {"none", "saved", "conflict", "concurrent", "error"}]

\* What a call read is still what its command names when it comes to the batch.
CallKeys(me) ==
  /\ me \in Calls
  /\ me.at # "idle" => me.command \in Commands /\ request[me.command].kind \in Kinds
  /\ me.at \in {"undo-run", "undo-project"} => request[me.command].kind = "undo"
  /\ me.at \in {"undo-run", "undo-project", "committing"} /\ request[me.command].kind = "undo"
       => saved[request[me.command].undoes].kind # "undo"
  /\ me.at = "committing" /\ request[me.command].kind = "decide"
       => me.decided # {} /\ me.decided \subseteq request[me.command].targets
  /\ me.at = "committing" /\ request[me.command].kind = "approveRun"
       => me.runRevision = request[me.command].runRevision

CallsOK ==
  /\ call = [w \in Workers |-> call[w]]
  /\ projectRevision \in Nat
  /\ \A w \in Workers : CallKeys(call[w])

\* A write saves more commands, and a row that it changes gets another revision.
Onward ==
  /\ \A c \in Commands : IsSaved(c) => IsSaved(c)' /\ saved'[c].kind = saved[c].kind
  /\ \A r \in Rows :
       \/ revision'[r] = revision[r] /\ decision'[r] = decision[r]
       \/ revision'[r] = revision[r] + 1

RunOK == {main, active, ready, promoted} \subseteq BOOLEAN

ReviewInv == LedgerInv /\ RequestsOK /\ CallsOK /\ RunOK /\ PromotedIsAccepted

-----------------------------------------------------------------------------
(* A batch over some rows: what it leaves, row by row.                     *)
LEMMA Rewritten ==
  ASSUME RowsOK, OneInForce, NEW rows \in SUBSET Rows, NEW id \in [rows -> Ids],
         Rewrite(rows, id)
  PROVE  /\ decision' \in [Rows -> Ids] /\ revision' \in [Rows -> Nat]
         /\ inForce' \in [Rows -> SUBSET Ids] /\ OneInForce'
         /\ \A r \in rows : decision'[r] = id[r] /\ revision'[r] = revision[r] + 1
         /\ \A r \in Rows \ rows : decision'[r] = decision[r] /\ revision'[r] = revision[r]
<1>1. /\ decision' \in [Rows -> Ids] /\ revision' \in [Rows -> Nat]
      /\ \A r \in rows : decision'[r] = id[r] /\ revision'[r] = revision[r] + 1
      /\ \A r \in Rows \ rows : decision'[r] = decision[r] /\ revision'[r] = revision[r]
  BY DEF RowsOK, Rewrite
<1>2. inForce' \in [Rows -> SUBSET Ids]
  BY DEF RowsOK, Rewrite, Ids
<1>3. OneInForce'
  <2> SUFFICES ASSUME NEW r \in Rows
               PROVE  inForce'[r] = {decision'[r]} \ {None}
    BY DEF OneInForce
  <2>1. CASE r \in rows
    BY <1>1, <2>1 DEF OneInForce, Rewrite
  <2>2. CASE r \notin rows
    BY <1>1, <2>2 DEF OneInForce, Rewrite
  <2> QED BY <2>1, <2>2
<1> QED BY <1>1, <1>2, <1>3

LEMMA NewEntry ==
  ASSUME RowsOK, NEW rows \in SUBSET Rows, NEW kind \in Kinds
  PROVE  /\ Entry(kind, rows) \in Entries /\ Entry(kind, rows) # NotSaved
         /\ Entry(kind, rows).kind = kind /\ Entry(kind, rows).rows = rows
         /\ Entry(kind, rows).undoneBy = None
         /\ Entry(kind, rows).previous \in [rows -> Ids]
         /\ Entry(kind, rows).revision \in [rows -> Nat]
         /\ \A r \in rows : Entry(kind, rows).previous[r] = decision[r]
                           /\ Entry(kind, rows).revision[r] = revision[r] + 1
<1> DEFINE previous == [r \in rows |-> decision[r]]
           numbers == [r \in rows |-> revision[r] + 1]
<1>1. previous \in [rows -> Ids] /\ numbers \in [rows -> Nat]
  BY DEF RowsOK
<1>2. previous \in PartOf(Ids) /\ numbers \in PartOf(Nat)
  BY <1>1 DEF PartOf
<1>3. Entry(kind, rows) = [kind |-> kind, rows |-> rows, previous |-> previous,
                           revision |-> numbers, undoneBy |-> None]
  BY DEF Entry
<1>4. Entry(kind, rows) \in Entries
  BY <1>2, <1>3 DEF Entries
<1> QED BY <1>1, <1>3, <1>4, NotSavedAssumption

(* The commands that changed a row: one more.                              *)
LEMMA CountedOnce ==
  ASSUME EachCommandOnce, RowsOK, NEW c \in Commands, ~IsSaved(c), NEW rows \in SUBSET Rows,
         \A b \in Commands : IsSaved(b)' <=> IsSaved(b) \/ b = c,
         saved'[c].rows = rows,
         \A b \in Commands : IsSaved(b) => saved'[b].rows = saved[b].rows,
         \A r \in rows : revision'[r] = revision[r] + 1,
         \A r \in Rows \ rows : revision'[r] = revision[r]
  PROVE  EachCommandOnce'
<1> SUFFICES ASSUME NEW r \in Rows
             PROVE  revision'[r] =
               Cardinality({b \in Commands : IsSaved(b)' /\ r \in saved'[b].rows})
                 + (IF r \in CopiedRows THEN 1 ELSE 0)
  BY DEF EachCommandOnce
<1> DEFINE before == {b \in Commands : IsSaved(b) /\ r \in saved[b].rows}
           after == {b \in Commands : IsSaved(b)' /\ r \in saved'[b].rows}
<1>1. IsFiniteSet(before)
  BY FS_Subset, ReviewAssumption
<1>2. revision[r] = Cardinality(before) + (IF r \in CopiedRows THEN 1 ELSE 0)
  BY DEF EachCommandOnce
<1>3. c \notin before /\ Cardinality(before) \in Nat
  BY <1>1, FS_CardinalityType
<1>4. CASE r \in rows
  <2>1. after = before \cup {c}
    BY <1>4
  <2>2. Cardinality(after) = Cardinality(before) + 1
    BY <1>1, <1>3, <2>1, FS_AddElement
  <2> HIDE DEF after, before
  <2>3. revision'[r] = Cardinality(after) + (IF r \in CopiedRows THEN 1 ELSE 0)
    BY <1>2, <1>3, <1>4, <2>2
  <2> QED BY <2>3 DEF after
<1>5. CASE r \notin rows
  <2>1. after = before
    BY <1>5
  <2> QED BY <1>2, <1>5, <2>1
<1> QED BY <1>4, <1>5

(* A batch that decides rows.                                              *)
LEMMA DecisionsWritten ==
  ASSUME LedgerInv, NEW c \in Commands, ~IsSaved(c),
         NEW kind \in {"decide", "approveRun"}, NEW rows \in SUBSET Rows,
         request[c].kind = kind, kind = "approveRun" => request[c].count = Cardinality(rows),
         WriteDecisions(c, kind, rows), UNCHANGED request
  PROVE  LedgerInv' /\ Onward
<1> USE DEF LedgerInv
<1> DEFINE id == [r \in rows |-> c]
           entry == Entry(kind, rows)
<1>1. id \in [rows -> Ids] /\ Rewrite(rows, id) /\ saved' = [saved EXCEPT ![c] = entry]
  BY DEF Ids, WriteDecisions
<1>2. /\ decision' \in [Rows -> Ids] /\ revision' \in [Rows -> Nat]
      /\ inForce' \in [Rows -> SUBSET Ids] /\ OneInForce'
      /\ \A r \in rows : decision'[r] = c /\ revision'[r] = revision[r] + 1
      /\ \A r \in Rows \ rows : decision'[r] = decision[r] /\ revision'[r] = revision[r]
  BY <1>1, Rewritten
<1>3. /\ entry \in Entries /\ entry # NotSaved
      /\ entry.kind = kind /\ entry.rows = rows
      /\ entry.previous \in [rows -> Ids] /\ entry.revision \in [rows -> Nat]
      /\ \A r \in rows : entry.previous[r] = decision[r] /\ entry.revision[r] = revision[r] + 1
  <2>1. RowsOK /\ kind \in Kinds
    BY DEF Kinds
  <2>2. Entry(kind, rows) \in Entries /\ Entry(kind, rows) # NotSaved
    BY <2>1, NewEntry
  <2>3. Entry(kind, rows).kind = kind /\ Entry(kind, rows).rows = rows
    BY <2>1, NewEntry
  <2>4. /\ Entry(kind, rows).previous \in [rows -> Ids]
        /\ Entry(kind, rows).revision \in [rows -> Nat]
    BY <2>1, NewEntry
  <2>5. \A r \in rows : Entry(kind, rows).previous[r] = decision[r]
                      /\ Entry(kind, rows).revision[r] = revision[r] + 1
    BY <2>1, NewEntry
  <2> QED BY <2>2, <2>3, <2>4, <2>5
<1> HIDE DEF entry
<1>4. /\ saved' \in [Commands -> Entries \cup {NotSaved}] /\ saved'[c] = entry
      /\ \A b \in Commands : b # c => saved'[b] = saved[b]
  BY <1>1, <1>3 DEF RowsOK
<1>5. \A b \in Commands : IsSaved(b)' <=> IsSaved(b) \/ b = c
  BY <1>3, <1>4 DEF IsSaved
<1>6. EachCommandOnce'
  <2>1. \A b \in Commands : IsSaved(b) => saved'[b].rows = saved[b].rows
    BY <1>4, ~IsSaved(c)
  <2> QED BY <1>2, <1>3, <1>4, <1>5, <2>1, CountedOnce
<1>7. \A r \in Rows : \A d : Decides(d, r) => Decides(d, r)'
  BY <1>4, <1>5 DEF Decides
<1>8. \A r \in rows : Decides(c, r)'
  BY <1>3, <1>4, <1>5 DEF Decides
<1>9. DecisionsAreSaved'
  <2>1. \A r \in Rows : Decides(decision[r], r)'
    BY <1>2, <1>7, <1>8 DEF DecisionsAreSaved
  <2>2. ASSUME NEW b \in Commands, IsSaved(b)'
        PROVE  /\ saved'[b].previous \in [saved'[b].rows -> Ids]
               /\ saved'[b].revision \in [saved'[b].rows -> Nat]
               /\ \A r \in saved'[b].rows : Decides(saved[b].previous[r], r)'
    <3>1. CASE b = c
      <4>1. \A r \in rows : entry.previous[r] = decision[r] /\ Decides(decision[r], r)
        BY <1>3 DEF DecisionsAreSaved
      <4> QED BY <1>3, <1>4, <1>7, <3>1, <4>1
    <3>2. CASE b # c
      <4>1. IsSaved(b) /\ saved'[b] = saved[b] /\ saved[b].rows \subseteq Rows
        BY <1>4, <1>5, <2>2, <3>2 DEF RowsOK, Entries, IsSaved
      <4>2. /\ saved[b].previous \in [saved[b].rows -> Ids]
            /\ saved[b].revision \in [saved[b].rows -> Nat]
            /\ \A r \in saved[b].rows : Decides(saved[b].previous[r], r)
        BY <4>1 DEF DecisionsAreSaved
      <4>3. \A r \in saved[b].rows : \A d : Decides(d, r) => Decides(d, r)'
        BY <1>7, <4>1
      <4> QED BY <4>1, <4>2, <4>3
    <3> QED BY <3>1, <3>2
  <2> QED BY <2>1, <2>2 DEF DecisionsAreSaved
<1>10. RevisionNamesDecision'
  <2> SUFFICES ASSUME NEW b \in Commands, IsSaved(b)', saved'[b].kind # "undo",
                      NEW r \in saved'[b].rows
               PROVE  /\ saved'[b].revision[r] <= revision'[r]
                      /\ saved'[b].revision[r] = revision'[r] => decision'[r] = b
    BY DEF RevisionNamesDecision
  <2>1. CASE b = c
    BY <1>2, <1>3, <1>4, <2>1
  <2>2. CASE b # c
    <3>1. /\ IsSaved(b) /\ saved[b].kind # "undo" /\ r \in saved[b].rows /\ r \in Rows
          /\ saved'[b] = saved[b]
      BY <1>4, <1>5, <2>2 DEF RowsOK, Entries, IsSaved
    <3>2. /\ saved[b].revision[r] \in Nat /\ revision[r] \in Nat
          /\ saved[b].revision[r] <= revision[r]
          /\ saved[b].revision[r] = revision[r] => decision[r] = b
      BY <3>1 DEF RevisionNamesDecision, DecisionsAreSaved, RowsOK
    <3> QED BY <1>2, <3>1, <3>2
  <2> QED BY <2>1, <2>2
<1>11. SavedAsSent'
  BY <1>3, <1>4, <1>5 DEF SavedAsSent
<1>12. Onward
  BY <1>2, <1>4, <1>5 DEF Onward
<1> QED BY <1>2, <1>4, <1>6, <1>9, <1>10, <1>11, <1>12 DEF RowsOK

(* What the guard of an Undo finds still standing is all of the command.   *)
LEMMA UndoIsWhole ==
  ASSUME LedgerInv, NEW d \in Commands, IsSaved(d), saved[d].kind # "undo", StillStands(d)
  PROVE  UndoTargets(d) = saved[d].rows /\ \A r \in saved[d].rows : decision[r] = d
<1> DEFINE same == {r \in UndoTargets(d) : revision[r] = saved[d].revision[r]}
<1>1. saved[d] \in Entries /\ saved[d].rows \in SUBSET Rows
  BY DEF LedgerInv, RowsOK, Entries, IsSaved
<1>2. \A r \in saved[d].rows : saved[d].revision[r] = revision[r] => decision[r] = d
  BY DEF LedgerInv, RevisionNamesDecision
<1>3. CASE saved[d].kind = "approveRun"
  <2>1. UndoTargets(d) = {r \in Rows : decision[r] = d}
    BY <1>3 DEF UndoTargets
  <2>2. UndoTargets(d) \subseteq saved[d].rows
    BY <2>1 DEF LedgerInv, DecisionsAreSaved, Decides
  <2>3. Cardinality(same) = Cardinality(saved[d].rows)
    BY <1>3 DEF StillStands, LedgerInv, SavedAsSent
  <2>4. IsFiniteSet(saved[d].rows)
    BY <1>1, FS_Subset, ReviewAssumption
  <2>5. same \in SUBSET saved[d].rows
    BY <2>2
  <2> HIDE DEF same
  <2>6. same = saved[d].rows
    BY <2>3, <2>4, <2>5, FS_Subset
  <2> QED BY <2>1, <2>2, <2>6 DEF same
<1>4. CASE saved[d].kind # "approveRun"
  <2>1. UndoTargets(d) = saved[d].rows /\ same = saved[d].rows
    BY <1>4 DEF UndoTargets, StillStands
  <2> QED BY <1>2, <2>1
<1> QED BY <1>3, <1>4

LEMMA UndoneEntry ==
  ASSUME NEW e \in Entries, NEW c \in Commands
  PROVE  LET u == [e EXCEPT !.undoneBy = c]
         IN u \in Entries /\ u.kind = e.kind /\ u.rows = e.rows
            /\ u.previous = e.previous /\ u.revision = e.revision /\ u.undoneBy = c
  BY DEF Entries

(* A batch that undoes a command.                                          *)
LEMMA UndoWritten ==
  ASSUME LedgerInv, NEW c \in Commands, ~IsSaved(c), request[c].kind = "undo",
         NEW d \in Commands, IsSaved(d), saved[d].kind # "undo",
         NEW rows \in SUBSET Rows, rows = saved[d].rows, UndoTargets(d) = rows,
         WriteUndo(c, d), UNCHANGED request
  PROVE  LedgerInv' /\ Onward
<1> USE DEF LedgerInv
<1> DEFINE entry == Entry("undo", rows)
<1>0. /\ saved[d] \in Entries /\ c # d
      /\ saved[d].previous \in [rows -> Ids]
      /\ \A r \in rows : Decides(saved[d].previous[r], r)
  BY DEF RowsOK, Entries, IsSaved, DecisionsAreSaved
<1>1. /\ Rewrite(rows, saved[d].previous)
      /\ saved' = [saved EXCEPT ![c] = entry, ![d].undoneBy = c]
  BY DEF WriteUndo
<1>2. /\ decision' \in [Rows -> Ids] /\ revision' \in [Rows -> Nat]
      /\ inForce' \in [Rows -> SUBSET Ids] /\ OneInForce'
      /\ \A r \in rows : decision'[r] = saved[d].previous[r] /\ revision'[r] = revision[r] + 1
      /\ \A r \in Rows \ rows : decision'[r] = decision[r] /\ revision'[r] = revision[r]
  BY <1>0, <1>1, Rewritten
<1>3. /\ entry \in Entries /\ entry # NotSaved
      /\ entry.kind = "undo" /\ entry.rows = rows
      /\ entry.previous \in [rows -> Ids] /\ entry.revision \in [rows -> Nat]
      /\ \A r \in rows : entry.previous[r] = decision[r]
  <2>0. PICK kind \in Kinds : kind = "undo"
    BY DEF Kinds
  <2>1. RowsOK
    OBVIOUS
  <2>2. Entry(kind, rows) \in Entries /\ Entry(kind, rows) # NotSaved
    BY <1>0, <2>1, NewEntry
  <2>3. Entry(kind, rows).kind = kind /\ Entry(kind, rows).rows = rows
    BY DEF Entry
  <2>4. /\ Entry(kind, rows).previous \in [rows -> Ids]
        /\ Entry(kind, rows).revision \in [rows -> Nat]
    BY <1>0, <2>1, NewEntry
  <2>5. \A r \in rows : Entry(kind, rows).previous[r] = decision[r]
    BY DEF Entry
  <2> QED BY <2>0, <2>2, <2>3, <2>4, <2>5
<1> HIDE DEF entry
<1>4. /\ saved' \in [Commands -> Entries \cup {NotSaved}] /\ saved'[c] = entry
      /\ \A b \in Commands : b # c /\ b # d => saved'[b] = saved[b]
      /\ saved'[d] \in Entries
      /\ saved'[d].kind = saved[d].kind /\ saved'[d].rows = saved[d].rows
      /\ saved'[d].previous = saved[d].previous /\ saved'[d].revision = saved[d].revision
  <2> DEFINE undone == [saved[d] EXCEPT !.undoneBy = c]
  <2>1. /\ undone \in Entries /\ undone.kind = saved[d].kind /\ undone.rows = saved[d].rows
        /\ undone.previous = saved[d].previous /\ undone.revision = saved[d].revision
    BY <1>0, UndoneEntry
  <2> DEFINE entered == [saved EXCEPT ![c] = entry]
  <2>2. /\ entered \in [Commands -> Entries \cup {NotSaved}] /\ entered[c] = entry
        /\ \A b \in Commands : b # c => entered[b] = saved[b]
    BY <1>3 DEF RowsOK
  <2>3. saved' = [entered EXCEPT ![d] = [entered[d] EXCEPT !.undoneBy = c]]
    BY <1>1, Zenon
  <2> HIDE DEF entered
  <2>4. entered[d] = saved[d]
    BY <1>0, <2>2
  <2>5. saved' = [entered EXCEPT ![d] = undone]
    BY <2>3, <2>4
  <2> HIDE DEF undone
  <2>6. /\ saved' \in [Commands -> Entries \cup {NotSaved}] /\ saved'[d] = undone
        /\ \A b \in Commands : b # d => saved'[b] = entered[b]
    BY <2>1, <2>2, <2>5
  <2> QED BY <1>0, <2>1, <2>2, <2>6
<1>5. /\ \A b \in Commands : IsSaved(b)' <=> IsSaved(b) \/ b = c
      /\ \A b \in Commands : IsSaved(b) =>
           /\ saved'[b].kind = saved[b].kind /\ saved'[b].rows = saved[b].rows
           /\ saved'[b].previous = saved[b].previous /\ saved'[b].revision = saved[b].revision
  BY <1>3, <1>4, NotSavedAssumption DEF IsSaved
<1>6. EachCommandOnce'
  BY <1>0, <1>2, <1>3, <1>4, <1>5, CountedOnce
<1>7. \A r \in Rows : \A e : Decides(e, r) => Decides(e, r)'
  BY <1>5 DEF Decides
<1>9. DecisionsAreSaved'
  <2>1. \A r \in Rows : Decides(decision[r], r)'
    BY <1>0, <1>2, <1>7 DEF DecisionsAreSaved
  <2>2. ASSUME NEW b \in Commands, IsSaved(b)'
        PROVE  /\ saved'[b].previous \in [saved'[b].rows -> Ids]
               /\ saved'[b].revision \in [saved'[b].rows -> Nat]
               /\ \A r \in saved'[b].rows : Decides(saved[b].previous[r], r)'
    <3>1. CASE b = c
      <4>1. \A r \in rows : entry.previous[r] = decision[r] /\ Decides(decision[r], r)
        BY <1>0, <1>3 DEF DecisionsAreSaved
      <4> QED BY <1>0, <1>3, <1>4, <1>7, <3>1, <4>1
    <3>2. CASE b # c
      <4>1. /\ IsSaved(b) /\ saved[b].rows \subseteq Rows
            /\ saved'[b].rows = saved[b].rows
            /\ saved'[b].previous = saved[b].previous /\ saved'[b].revision = saved[b].revision
        BY <1>5, <2>2, <3>2 DEF RowsOK, Entries, IsSaved
      <4>2. /\ saved[b].previous \in [saved[b].rows -> Ids]
            /\ saved[b].revision \in [saved[b].rows -> Nat]
            /\ \A r \in saved[b].rows : Decides(saved[b].previous[r], r)
        BY <4>1 DEF DecisionsAreSaved
      <4>3. \A r \in saved[b].rows : \A e : Decides(e, r) => Decides(e, r)'
        BY <1>7, <4>1
      <4> QED BY <4>1, <4>2, <4>3
    <3> QED BY <3>1, <3>2
  <2> QED BY <2>1, <2>2 DEF DecisionsAreSaved
<1>10. RevisionNamesDecision'
  <2> SUFFICES ASSUME NEW b \in Commands, IsSaved(b)', saved'[b].kind # "undo",
                      NEW r \in saved'[b].rows
               PROVE  /\ saved'[b].revision[r] <= revision'[r]
                      /\ saved'[b].revision[r] = revision'[r] => decision'[r] = b
    BY DEF RevisionNamesDecision
  <2>1. b # c
    BY <1>3, <1>4
  <2>2. /\ IsSaved(b) /\ saved[b].kind # "undo" /\ r \in saved[b].rows /\ r \in Rows
        /\ saved'[b].revision = saved[b].revision
    BY <1>5, <2>1 DEF RowsOK, Entries, IsSaved
  <2>3. /\ saved[b].revision[r] \in Nat /\ revision[r] \in Nat
        /\ saved[b].revision[r] <= revision[r]
        /\ saved[b].revision[r] = revision[r] => decision[r] = b
    BY <2>2 DEF RevisionNamesDecision, DecisionsAreSaved, RowsOK
  <2> QED BY <1>0, <1>2, <2>2, <2>3
<1>11. SavedAsSent'
  BY <1>3, <1>4, <1>5 DEF SavedAsSent
<1>12. Onward
  BY <1>2, <1>5 DEF Onward
<1> QED BY <1>2, <1>4, <1>6, <1>9, <1>10, <1>11, <1>12 DEF RowsOK

-----------------------------------------------------------------------------
(* What a batch whose guards hold writes.                                  *)
Decided(c) ==
  \E kind \in {"decide", "approveRun"}, rows \in SUBSET Rows :
    /\ rows # {} /\ request[c].kind = kind
    /\ kind = "approveRun" => /\ request[c].count = Cardinality(rows)
                             /\ rows = {r \in Rows : request[c].shown[r] = None}
    /\ \A r \in rows : decision[r] = request[c].shown[r]
    /\ WriteDecisions(c, kind, rows)

Undid(c) ==
  \E d \in Commands :
    /\ request[c].kind = "undo" /\ IsSaved(d)
    /\ saved[d].kind # "undo" /\ saved[d].undoneBy = None
    /\ UndoTargets(d) = saved[d].rows /\ \A r \in saved[d].rows : decision[r] = d
    /\ WriteUndo(c, d)

LEMMA CommitWrites ==
  ASSUME ReviewInv, NEW w \in Workers, call[w].at = "committing",
         BatchPasses(call[w]), Write(call[w])
  PROVE  /\ call[w].command \in Commands /\ ~IsSaved(call[w].command) /\ Reviewable
         /\ Decided(call[w].command) \/ Undid(call[w].command)
<1> DEFINE c == call[w].command
<1>1. /\ CallKeys(call[w]) /\ c \in Commands /\ request[c].kind \in Kinds
      /\ RequestKeys(c) /\ LedgerInv
  BY DEF ReviewInv, CallsOK, CallKeys, RequestsOK
<1>2. ~IsSaved(c) /\ Reviewable /\ CommandGuard(call[w]) /\ runRevision = call[w].runRevision
  BY DEF BatchPasses, SameRevisions
<1>3. CASE request[c].kind = "decide"
  <2>1. /\ call[w].decided # {} /\ call[w].decided \in SUBSET Rows
        /\ call[w].decided \subseteq request[c].targets
    BY <1>1, <1>3 DEF CallKeys, Calls
  <2>2. \A r \in call[w].decided : decision[r] = request[c].shown[r]
    BY <1>1, <1>2, <1>3, <2>1 DEF RequestKeys, CommandGuard, TargetsShown
  <2>3. WriteDecisions(c, "decide", call[w].decided)
    BY <1>3 DEF Write
  <2> QED BY <1>1, <1>2, <1>3, <2>1, <2>2, <2>3 DEF Decided
<1>4. CASE request[c].kind = "approveRun"
  <2>1. Cardinality(Undecided) = request[c].count /\ request[c].count \in Nat \ {0}
    BY <1>1, <1>2, <1>4 DEF RequestKeys, CommandGuard
  <2>2. Undecided # {} /\ Undecided \in SUBSET Rows
    BY <2>1, FS_EmptySet DEF Undecided
  <2>3. decision = request[c].shown
    BY <1>1, <1>2, <1>4 DEF RequestKeys, CallKeys
  <2>4. Undecided = {r \in Rows : decision[r] = None}
    BY <1>1 DEF LedgerInv, OneInForce, Undecided, Standing
  <2>5. WriteDecisions(c, "approveRun", Undecided)
    BY <1>4 DEF Write
  <2> QED BY <1>1, <1>2, <1>4, <2>1, <2>2, <2>3, <2>4, <2>5 DEF Decided
<1>5. CASE request[c].kind = "undo"
  <2> DEFINE d == request[c].undoes
  <2>1. /\ d \in Commands /\ IsSaved(d) /\ saved[d].kind # "undo"
        /\ saved[d].undoneBy = None /\ StillStands(d) /\ WriteUndo(c, d)
    BY <1>1, <1>2, <1>5 DEF RequestKeys, CallKeys, CommandGuard, Write
  <2> HIDE DEF d
  <2>2. UndoTargets(d) = saved[d].rows /\ \A r \in saved[d].rows : decision[r] = d
    BY <1>1, <2>1, UndoIsWhole
  <2> QED BY <1>1, <1>2, <1>5, <2>1, <2>2 DEF Undid
<1> QED BY <1>1, <1>3, <1>4, <1>5 DEF Kinds

LEMMA CommitKeepsLedger ==
  ASSUME LedgerInv, NEW c \in Commands, ~IsSaved(c), Decided(c) \/ Undid(c), UNCHANGED request
  PROVE  LedgerInv' /\ Onward
<1>1. CASE Decided(c)
  BY <1>1, DecisionsWritten DEF Decided
<1>2. CASE Undid(c)
  <2>1. PICK d \in Commands :
          /\ request[c].kind = "undo" /\ IsSaved(d) /\ saved[d].kind # "undo"
          /\ UndoTargets(d) = saved[d].rows /\ WriteUndo(c, d)
    BY <1>2 DEF Undid
  <2>2. saved[d].rows \in SUBSET Rows
    BY <2>1 DEF LedgerInv, RowsOK, Entries, IsSaved
  <2> QED BY <2>1, <2>2, UndoWritten
<1> QED BY <1>1, <1>2

-----------------------------------------------------------------------------
(* What the other parts of the invariant need to stay.                     *)
LEMMA KeysKept ==
  ASSUME RequestsOK, NEW me, CallKeys(me),
         \A c \in Commands : request[c].kind \in Kinds => request'[c] = request[c],
         \A c \in Commands : IsSaved(c) => saved'[c].kind = saved[c].kind
  PROVE  CallKeys(me)'
<1>1. CASE me.at = "idle"
  BY <1>1 DEF CallKeys
<1>2. CASE me.at # "idle"
  <2>1. /\ me.command \in Commands /\ request'[me.command] = request[me.command]
        /\ RequestKeys(me.command)
    BY <1>2 DEF CallKeys, RequestsOK
  <2>2. request[me.command].kind = "undo" =>
          saved'[request[me.command].undoes].kind = saved[request[me.command].undoes].kind
    BY <2>1 DEF RequestKeys
  <2> QED BY <2>1, <2>2 DEF CallKeys
<1> QED BY <1>1, <1>2

LEMMA CallChanged ==
  ASSUME CallsOK, RequestsOK, NEW w \in Workers, NEW me, CallKeys(me), Become(w, me),
         UNCHANGED request, projectRevision' \in Nat,
         \A c \in Commands : IsSaved(c) => saved'[c].kind = saved[c].kind
  PROVE  CallsOK'
<1>1. /\ call' = [v \in Workers |-> call'[v]] /\ call'[w] = me
      /\ \A v \in Workers : v # w => call'[v] = call[v]
  BY DEF CallsOK, Become
<1>2. CallKeys(me)'
  BY KeysKept
<1>3. ASSUME NEW v \in Workers, v # w PROVE CallKeys(call[v])'
  <2>1. CallKeys(call[v])
    BY DEF CallsOK
  <2> DEFINE other == call[v]
  <2>2. \A it : CallKeys(it) => CallKeys(it)'
    BY KeysKept
  <2> QED BY <1>1, <1>3, <2>1, <2>2
<1> QED BY <1>1, <1>2, <1>3 DEF CallsOK

LEMMA RequestsKept ==
  ASSUME RequestsOK, RowsOK, Onward, UNCHANGED request,
         runRevision' \in Nat, runRevision <= runRevision',
         runRevision' = runRevision => UNCHANGED decision
  PROVE  RequestsOK'
<1> SUFFICES ASSUME NEW c \in Commands PROVE RequestKeys(c)'
  BY DEF RequestsOK
<1>1. RequestKeys(c) /\ runRevision \in Nat
  BY DEF RequestsOK
<1>2. CASE request[c].kind = "approveRun"
  BY <1>1, <1>2 DEF RequestKeys
<1>3. CASE request[c].kind = "undo"
  BY <1>1, <1>3 DEF RequestKeys, Onward
<1>4. CASE request[c].kind = "decide"
  <2>1. \A r \in request[c].targets :
          /\ r \in Rows /\ request[c].expected[r] \in Nat /\ revision[r] \in Nat
          /\ request[c].expected[r] <= revision[r]
          /\ request[c].expected[r] = revision[r] => decision[r] = request[c].shown[r]
    BY <1>1, <1>4 DEF RequestKeys, RowsOK
  <2>2. \A r \in request[c].targets :
          /\ request[c].expected[r] <= revision'[r]
          /\ request[c].expected[r] = revision'[r] => decision'[r] = request[c].shown[r]
    BY <2>1 DEF Onward
  <2> QED BY <1>1, <1>4, <2>2 DEF RequestKeys
<1>5. CASE request[c].kind \notin Kinds
  BY <1>1, <1>5 DEF RequestKeys, Kinds
<1> QED BY <1>2, <1>3, <1>4, <1>5 DEF Kinds

LEMMA RowsKept ==
  ASSUME RowsOK, UNCHANGED <<rowVars, saved>>
  PROVE  Onward
  BY DEF Onward, rowVars, IsSaved

LEMMA LedgerKept ==
  ASSUME LedgerInv, UNCHANGED <<rowVars, saved>>,
         \A c \in Commands : request[c].kind \in Kinds => request'[c] = request[c]
  PROVE  LedgerInv'
<1> USE DEF LedgerInv, rowVars
<1>1. RowsOK' /\ OneInForce' /\ EachCommandOnce' /\ RevisionNamesDecision'
  BY DEF RowsOK, OneInForce, EachCommandOnce, RevisionNamesDecision, IsSaved
<1>2. DecisionsAreSaved'
  BY DEF DecisionsAreSaved, Decides, IsSaved
<1>3. SavedAsSent'
  BY DEF SavedAsSent, IsSaved, RowsOK, Entries
<1> QED BY <1>1, <1>2, <1>3

LEMMA AcceptedKept ==
  ASSUME LedgerInv, UNCHANGED <<rowVars, saved>>,
         \A c \in Commands : request[c].kind \in Kinds => request'[c] = request[c]
  PROVE  \A r \in Rows : Accepted(r) => Accepted(r)'
<1> TAKE r \in Rows
<1>1. decision[r] \in Commands => request[decision[r]].kind \in Kinds
  BY DEF LedgerInv, DecisionsAreSaved, Decides, SavedAsSent, RowsOK, Entries, IsSaved
<1>2. decision[r] \in Ids
  BY DEF LedgerInv, RowsOK
<1> QED BY <1>1, <1>2 DEF Accepted, Standing, Verdict, Ids, rowVars

LEMMA OnlyCallChanged ==
  ASSUME ReviewInv, NEW w \in Workers, NEW me, CallKeys(me), Become(w, me),
         UNCHANGED <<runVars, rowVars, saved, request>>
  PROVE  ReviewInv'
<1> USE DEF ReviewInv
<1>1. LedgerInv' /\ RequestsOK' /\ RunOK'
  <2>1. RowsOK /\ Onward
    BY RowsKept DEF LedgerInv
  <2>2. RequestsOK'
    BY <2>1, RequestsKept DEF rowVars, runVars, RequestsOK
  <2> QED BY <2>2, LedgerKept DEF RunOK, runVars
<1>2. CallsOK'
  BY CallChanged DEF runVars, CallsOK
<1>3. PromotedIsAccepted'
  BY AcceptedKept DEF PromotedIsAccepted, runVars
<1> QED BY <1>1, <1>2, <1>3

(* The places of a call that hold no more than its command.                *)
Plain == {"predecessor", "begin", "reading", "replaying", "diagnosing", "answered"}

LEMMA IdleKeys == CallKeys(Idle)
  BY DEF CallKeys, Idle, Calls, Places

LEMMA AnswerKeys ==
  ASSUME NEW c \in Commands, request[c].kind \in Kinds, NEW at \in Plain,
         NEW answer \in {"none", "saved", "conflict", "concurrent", "error"}
  PROVE  CallKeys([Idle EXCEPT !.at = at, !.command = c, !.answer = answer])
<1> DEFINE there == [Idle EXCEPT !.at = at]
           named == [there EXCEPT !.command = c]
           me == [named EXCEPT !.answer = answer]
<1>1. [Idle EXCEPT !.at = at, !.command = c, !.answer = answer] = me
  BY Zenon
<1>2. Idle \in Calls
  BY DEF Idle, Calls, Places
<1>3. there \in Calls /\ there.at = at
  BY <1>2 DEF Calls, Places, Plain
<1> HIDE DEF there
<1>4. named \in Calls /\ named.at = at /\ named.command = c
  BY <1>3 DEF Calls
<1> HIDE DEF named
<1>5. me \in Calls /\ me.at = at /\ me.command = c
  BY <1>4 DEF Calls
<1> HIDE DEF me
<1>6. CallKeys(me)
  BY <1>5 DEF CallKeys, Plain
<1> QED BY <1>1, <1>6

LEMMA Answered ==
  ASSUME ReviewInv, NEW w \in Workers, call[w].at # "idle",
         NEW answer \in {"none", "saved", "conflict", "concurrent", "error"},
         Answer(w, answer), UNCHANGED <<runVars, rowVars, saved, request>>
  PROVE  ReviewInv'
<1>1. call[w].command \in Commands /\ request[call[w].command].kind \in Kinds
  BY DEF ReviewInv, CallsOK, CallKeys
<1>2. CallKeys([Idle EXCEPT !.at = "answered", !.command = call[w].command, !.answer = answer])
  BY <1>1, AnswerKeys DEF Plain
<1> QED BY <1>2, OnlyCallChanged DEF Answer

LEMMA MovedKeys ==
  ASSUME NEW me, CallKeys(me), me.at # "idle", NEW at \in Plain, NEW fault \in BOOLEAN
  PROVE  CallKeys([me EXCEPT !.at = at]) /\ CallKeys([me EXCEPT !.at = at, !.fault = fault])
<1> DEFINE there == [me EXCEPT !.at = at]
<1>1. there \in Calls /\ there.at = at /\ there.command = me.command
  BY DEF CallKeys, Calls, Places, Plain
<1>2. [me EXCEPT !.at = at, !.fault = fault] = [there EXCEPT !.fault = fault]
  BY Zenon
<1> HIDE DEF there
<1> DEFINE told == [there EXCEPT !.fault = fault]
<1>3. told \in Calls /\ told.at = at /\ told.command = me.command
  BY <1>1 DEF Calls
<1>4. [me EXCEPT !.at = at, !.fault = fault] = told
  BY <1>2
<1> HIDE DEF told
<1>5. CallKeys(there)
  BY <1>1 DEF CallKeys, Plain
<1>6. CallKeys(told)
  BY <1>3 DEF CallKeys, Plain
<1> QED BY <1>4, <1>5, <1>6 DEF there

(* The reads of a call.                                                    *)
LEMMA BeginKeeps ==
  ASSUME ReviewInv, NEW w \in Workers, NEW c \in Commands, Begin(w, c)
  PROVE  ReviewInv'
<1>1. request[c].kind \in Kinds
  BY DEF Begin, ReviewInv, RequestsOK, RequestKeys, Kinds
<1>2. PICK at \in Plain, answer \in {"none", "saved"} :
        Become(w, [Idle EXCEPT !.command = c, !.at = at, !.answer = answer])
  BY DEF Begin, Plain
<1> DEFINE me == [Idle EXCEPT !.at = at, !.command = c, !.answer = answer]
<1>3. [Idle EXCEPT !.command = c, !.at = at, !.answer = answer] = me
  BY DEF Idle
<1>4. CallKeys(me)
  BY <1>1, AnswerKeys
<1> HIDE DEF me
<1>5. Become(w, me)
  BY <1>2, <1>3
<1> QED BY <1>4, <1>5, OnlyCallChanged DEF Begin

LEMMA UpdatedCall ==
  ASSUME NEW me \in Calls
  PROVE  /\ \A at \in Places : LET u == [me EXCEPT !.at = at] IN
              /\ u \in Calls /\ u.at = at /\ u.command = me.command
              /\ u.runRevision = me.runRevision /\ u.decided = me.decided /\ u.answer = me.answer
         /\ \A n \in Nat : LET u == [me EXCEPT !.runRevision = n] IN
              /\ u \in Calls /\ u.at = me.at /\ u.command = me.command
              /\ u.runRevision = n /\ u.decided = me.decided /\ u.answer = me.answer
         /\ \A n \in Nat : LET u == [me EXCEPT !.projectRevision = n] IN
              /\ u \in Calls /\ u.at = me.at /\ u.command = me.command
              /\ u.runRevision = me.runRevision /\ u.decided = me.decided /\ u.answer = me.answer
         /\ \A rows \in SUBSET Rows : LET u == [me EXCEPT !.decided = rows] IN
              /\ u \in Calls /\ u.at = me.at /\ u.command = me.command
              /\ u.runRevision = me.runRevision /\ u.decided = rows /\ u.answer = me.answer
         /\ \A b \in BOOLEAN : LET u == [me EXCEPT !.reviewable = b] IN
              /\ u \in Calls /\ u.at = me.at /\ u.command = me.command
              /\ u.runRevision = me.runRevision /\ u.decided = me.decided /\ u.answer = me.answer
  BY DEF Calls

LEMMA ReadDecideKeeps ==
  ASSUME ReviewInv, NEW w \in Workers, ReadDecide(w)
  PROVE  ReviewInv'
<1> DEFINE c == call[w].command
           rows == ToDecide(request[c])
           u1 == [call[w] EXCEPT !.at = "committing"]
           u2 == [u1 EXCEPT !.runRevision = runRevision]
           u3 == [u2 EXCEPT !.projectRevision = projectRevision]
           u4 == [u3 EXCEPT !.decided = rows]
<1>1. /\ CallKeys(call[w]) /\ call[w] \in Calls /\ call[w].at = "reading"
      /\ c \in Commands /\ request[c].kind = "decide"
      /\ runRevision \in Nat /\ projectRevision \in Nat
  BY DEF ReadDecide, Request, ReviewInv, CallsOK, CallKeys, RequestsOK
<1>2. CASE rows # {} /\ Become(w, u4)
  <2>1. request[c].targets \in SUBSET Rows
    BY <1>1 DEF ReviewInv, RequestsOK, RequestKeys
  <2>2. rows \in SUBSET Rows /\ rows \subseteq request[c].targets
    BY <2>1 DEF ToDecide
  <2> HIDE DEF rows
  <2>3. /\ u1 \in Calls /\ u1.at = "committing" /\ u1.command = c
    BY <1>1, UpdatedCall DEF Places
  <2> HIDE DEF u1
  <2>4. u2 \in Calls /\ u2.at = "committing" /\ u2.command = c
    BY <1>1, <2>3, UpdatedCall
  <2> HIDE DEF u2
  <2>5. u3 \in Calls /\ u3.at = "committing" /\ u3.command = c
    BY <1>1, <2>4, UpdatedCall
  <2> HIDE DEF u3
  <2>6. u4 \in Calls /\ u4.at = "committing" /\ u4.command = c /\ u4.decided = rows
    BY <2>2, <2>5, UpdatedCall
  <2> HIDE DEF u4
  <2>7. CallKeys(u4)
    BY <1>1, <1>2, <2>2, <2>6 DEF CallKeys, Kinds
  <2> QED BY <1>2, <2>7, OnlyCallChanged DEF ReadDecide
<1>3. CASE Answer(w, "conflict")
  BY <1>1, <1>3, Answered DEF ReadDecide
<1>4. (rows # {} /\ Become(w, u4)) \/ Answer(w, "conflict")
  <2>1. u4 = [call[w] EXCEPT !.at = "committing", !.runRevision = runRevision,
                             !.projectRevision = projectRevision, !.decided = rows]
    BY Zenon
  <2> HIDE DEF u4
  <2> QED BY <2>1 DEF ReadDecide, Request
<1> QED BY <1>2, <1>3, <1>4

LEMMA ReadApproveRunKeeps ==
  ASSUME ReviewInv, NEW w \in Workers, ReadApproveRun(w)
  PROVE  ReviewInv'
<1> DEFINE c == call[w].command
           u1 == [call[w] EXCEPT !.at = "committing"]
           u2 == [u1 EXCEPT !.runRevision = runRevision]
           u3 == [u2 EXCEPT !.projectRevision = projectRevision]
<1>1. /\ CallKeys(call[w]) /\ call[w] \in Calls /\ call[w].at = "reading"
      /\ c \in Commands /\ request[c].kind = "approveRun"
      /\ runRevision \in Nat /\ projectRevision \in Nat
  BY DEF ReadApproveRun, Request, ReviewInv, CallsOK, CallKeys, RequestsOK
<1>2. CASE runRevision = request[c].runRevision /\ Become(w, u3)
  <2>1. u1 \in Calls /\ u1.at = "committing" /\ u1.command = c
    BY <1>1, UpdatedCall DEF Places
  <2> HIDE DEF u1
  <2>2. u2 \in Calls /\ u2.at = "committing" /\ u2.command = c /\ u2.runRevision = runRevision
    BY <1>1, <2>1, UpdatedCall
  <2> HIDE DEF u2
  <2>3. u3 \in Calls /\ u3.at = "committing" /\ u3.command = c /\ u3.runRevision = runRevision
    BY <1>1, <2>2, UpdatedCall
  <2> HIDE DEF u3
  <2>4. CallKeys(u3)
    BY <1>1, <1>2, <2>3 DEF CallKeys, Kinds
  <2> QED BY <1>2, <2>4, OnlyCallChanged DEF ReadApproveRun
<1>3. CASE Answer(w, "conflict")
  BY <1>1, <1>3, Answered DEF ReadApproveRun
<1>4. (runRevision = request[c].runRevision /\ Become(w, u3)) \/ Answer(w, "conflict")
  <2>1. u3 = [call[w] EXCEPT !.at = "committing", !.runRevision = runRevision,
                             !.projectRevision = projectRevision]
    BY Zenon
  <2> HIDE DEF u3
  <2> QED BY <2>1 DEF ReadApproveRun, Request, RunShown
<1> QED BY <1>2, <1>3, <1>4

LEMMA ReadUndoneKeeps ==
  ASSUME ReviewInv, NEW w \in Workers, ReadUndone(w)
  PROVE  ReviewInv'
<1> DEFINE c == call[w].command
           u1 == [call[w] EXCEPT !.at = "undo-run"]
<1>1. /\ CallKeys(call[w]) /\ call[w] \in Calls /\ call[w].at = "reading"
      /\ c \in Commands /\ request[c].kind = "undo"
  BY DEF ReadUndone, Request, ReviewInv, CallsOK, CallKeys
<1>2. CASE saved[request[c].undoes].kind # "undo" /\ Become(w, u1)
  <2>1. u1 \in Calls /\ u1.at = "undo-run" /\ u1.command = c
    BY <1>1, UpdatedCall DEF Places
  <2> HIDE DEF u1
  <2>2. CallKeys(u1)
    BY <1>1, <1>2, <2>1 DEF CallKeys, Kinds
  <2> QED BY <1>2, <2>2, OnlyCallChanged DEF ReadUndone
<1>3. CASE Answer(w, "conflict")
  BY <1>1, <1>3, Answered DEF ReadUndone
<1> QED BY <1>2, <1>3 DEF ReadUndone, Request, Goto

LEMMA ReadUndoRunKeeps ==
  ASSUME ReviewInv, NEW w \in Workers, ReadUndoRun(w)
  PROVE  ReviewInv'
<1> DEFINE c == call[w].command
           u1 == [call[w] EXCEPT !.at = "undo-project"]
           u2 == [u1 EXCEPT !.runRevision = runRevision]
           u3 == [u2 EXCEPT !.reviewable = active /\ ready]
<1>1. /\ CallKeys(call[w]) /\ call[w] \in Calls /\ call[w].at = "undo-run"
      /\ c \in Commands /\ request[c].kind = "undo" /\ saved[request[c].undoes].kind # "undo"
      /\ runRevision \in Nat /\ (active /\ ready) \in BOOLEAN
  BY DEF ReadUndoRun, ReviewInv, CallsOK, CallKeys, RequestsOK
<1>2. u1 \in Calls /\ u1.at = "undo-project" /\ u1.command = c
  BY <1>1, UpdatedCall DEF Places
<1>3. u3 = [call[w] EXCEPT !.at = "undo-project", !.runRevision = runRevision,
                           !.reviewable = active /\ ready]
  BY Zenon
<1> HIDE DEF u1
<1>4. u2 \in Calls /\ u2.at = "undo-project" /\ u2.command = c
  BY <1>1, <1>2, UpdatedCall
<1> HIDE DEF u2
<1>5. u3 \in Calls /\ u3.at = "undo-project" /\ u3.command = c
  BY <1>1, <1>4, UpdatedCall
<1> HIDE DEF u3
<1>6. CallKeys(u3)
  BY <1>1, <1>5 DEF CallKeys, Kinds
<1> QED BY <1>3, <1>6, OnlyCallChanged DEF ReadUndoRun

LEMMA ReadUndoProjectKeeps ==
  ASSUME ReviewInv, NEW w \in Workers, ReadUndoProject(w)
  PROVE  ReviewInv'
<1> DEFINE c == call[w].command
           u1 == [call[w] EXCEPT !.at = "committing"]
           u2 == [u1 EXCEPT !.projectRevision = projectRevision]
<1>1. /\ CallKeys(call[w]) /\ call[w] \in Calls /\ call[w].at = "undo-project"
      /\ c \in Commands /\ request[c].kind = "undo" /\ saved[request[c].undoes].kind # "undo"
      /\ projectRevision \in Nat
  BY DEF ReadUndoProject, ReviewInv, CallsOK, CallKeys
<1>2. CASE Become(w, u2)
  <2>1. u1 \in Calls /\ u1.at = "committing" /\ u1.command = c
    BY <1>1, UpdatedCall DEF Places
  <2> HIDE DEF u1
  <2>2. u2 \in Calls /\ u2.at = "committing" /\ u2.command = c
    BY <1>1, <2>1, UpdatedCall
  <2> HIDE DEF u2
  <2>3. CallKeys(u2)
    BY <1>1, <2>2 DEF CallKeys, Kinds
  <2> QED BY <1>2, <2>3, OnlyCallChanged DEF ReadUndoProject
<1>3. CASE Answer(w, "conflict")
  BY <1>1, <1>3, Answered DEF ReadUndoProject
<1>4. u2 = [call[w] EXCEPT !.at = "committing", !.projectRevision = projectRevision]
  BY Zenon
<1> HIDE DEF u2
<1> QED BY <1>2, <1>3, <1>4 DEF ReadUndoProject

(* The batch, and what a call does after it.                               *)
LEMMA ReplayKeys ==
  ASSUME NEW me, CallKeys(me), me.at # "idle", NEW fault \in BOOLEAN
  PROVE  CallKeys([me EXCEPT !.at = "replaying", !.fault = fault])
<1>1. PICK at \in Plain : at = "replaying"
  BY DEF Plain
<1>2. CallKeys([me EXCEPT !.at = at, !.fault = fault])
  BY MovedKeys
<1> QED BY <1>1, <1>2

LEMMA CommitKeeps ==
  ASSUME ReviewInv, NEW w \in Workers, Commit(w)
  PROVE  ReviewInv'
<1> DEFINE c == call[w].command
<1>1. /\ CallKeys(call[w]) /\ call[w].at = "committing"
      /\ c \in Commands /\ request[c].kind \in Kinds
  BY DEF Commit, ReviewInv, CallsOK, CallKeys
<1>2. \E me : CallKeys(me) /\ Become(w, me)
  <2>1. \A fault \in BOOLEAN : ToReplay(w, fault) => \E me : CallKeys(me) /\ Become(w, me)
    BY <1>1, ReplayKeys DEF ToReplay
  <2>2. ASSUME Answer(w, "saved") PROVE \E me : CallKeys(me) /\ Become(w, me)
    <3>1. PICK at \in Plain, answer \in {"saved"} : at = "answered"
      BY DEF Plain
    <3>2. CallKeys([Idle EXCEPT !.at = at, !.command = c, !.answer = answer])
      BY <1>1, AnswerKeys
    <3> QED BY <2>2, <3>1, <3>2 DEF Answer
  <2> QED BY <2>1, <2>2 DEF Commit
<1>3. PICK me : CallKeys(me) /\ Become(w, me)
  BY <1>2
<1>4. CASE BatchPasses(call[w])
  <2>1. Write(call[w]) /\ UNCHANGED request
    BY <1>4 DEF Commit
  <2>2. Reviewable /\ LedgerInv' /\ Onward
    BY <1>1, <1>4, <2>1, CommitWrites, CommitKeepsLedger DEF ReviewInv
  <2>3. /\ runRevision' = runRevision + 1 /\ projectRevision' = projectRevision + 1
        /\ UNCHANGED <<main, active, ready, promoted>>
    BY <2>1 DEF Write
  <2>4. RequestsOK'
    BY <2>1, <2>2, <2>3, RequestsKept DEF ReviewInv, RequestsOK, LedgerInv
  <2>5. CallsOK'
    BY <1>3, <2>1, <2>2, <2>3, CallChanged DEF ReviewInv, CallsOK, Onward
  <2> QED BY <2>2, <2>3, <2>4, <2>5 DEF ReviewInv, RunOK, PromotedIsAccepted, Reviewable
<1>5. CASE ~BatchPasses(call[w])
  BY <1>3, <1>5, OnlyCallChanged DEF Commit
<1> QED BY <1>4, <1>5

LEMMA AfterCommitKeeps ==
  ASSUME ReviewInv, NEW w \in Workers,
         CommitFails(w) \/ Replay(w) \/ Diagnose(w) \/ ReadFails(w) \/ Return(w) \/ Crash(w)
  PROVE  ReviewInv'
<1>0. CallKeys(call[w])
  BY DEF ReviewInv, CallsOK
<1>1. CASE CommitFails(w)
  BY <1>0, <1>1, ReplayKeys, OnlyCallChanged DEF CommitFails, ToReplay
<1>2. CASE Replay(w)
  <2>1. PICK at \in Plain : at = "diagnosing"
    BY DEF Plain
  <2>2. call[w].at # "idle" /\ (Answer(w, "saved") \/ Answer(w, "error") \/ Goto(w, at))
    BY <1>2, <2>1 DEF Replay
  <2>3. CallKeys([call[w] EXCEPT !.at = at])
    BY <1>0, <2>2, MovedKeys
  <2>4. CASE Goto(w, at)
    BY <1>2, <2>3, <2>4, OnlyCallChanged DEF Replay, Goto
  <2>5. CASE Answer(w, "saved") \/ Answer(w, "error")
    BY <1>2, <2>2, <2>5, Answered DEF Replay
  <2> QED BY <2>2, <2>4, <2>5
<1>3. CASE Diagnose(w)
  <2>1. PICK answer \in {"none", "saved", "conflict", "concurrent", "error"} : Answer(w, answer)
    BY <1>3 DEF Diagnose
  <2> QED BY <1>3, <2>1, Answered DEF Diagnose
<1>4. CASE ReadFails(w)
  BY <1>4, Answered DEF ReadFails
<1>5. CASE Return(w) \/ Crash(w)
  BY <1>5, IdleKeys, OnlyCallChanged DEF Return, Crash, Stop
<1> QED BY <1>1, <1>2, <1>3, <1>4, <1>5

-----------------------------------------------------------------------------
(* The pages, and the other writers of the project.                        *)
LEMMA SendKeeps ==
  ASSUME ReviewInv, NEW c \in Commands, NEW content, Send(c, content),
         RequestKeys(c)', content.kind \in Kinds
  PROVE  ReviewInv'
<1> USE DEF ReviewInv
<1>1. /\ request' = [request EXCEPT ![c] = content] /\ request[c] = NoRequest
      /\ UNCHANGED <<runVars, rowVars, saved, call>>
  BY DEF Send
<1>2. \A b \in Commands : request[b].kind \in Kinds => request'[b] = request[b]
  BY <1>1 DEF NoRequest, Kinds, RequestsOK
<1>3. LedgerInv' /\ PromotedIsAccepted' /\ RunOK'
  BY <1>1, <1>2, LedgerKept, AcceptedKept DEF PromotedIsAccepted, RunOK, runVars
<1>4. RequestsOK'
  <2>1. ASSUME NEW b \in Commands, b # c PROVE RequestKeys(b)'
    <3>1. RequestKeys(b) /\ request'[b] = request[b]
      BY <1>1, <2>1 DEF RequestsOK
    <3> QED BY <1>1, <3>1 DEF RequestKeys, runVars, rowVars, IsSaved
  <2> QED BY <1>1, <2>1 DEF RequestsOK, runVars
<1>5. CallsOK'
  <2>1. \A me : CallKeys(me) => CallKeys(me)'
    BY <1>1, <1>2, KeysKept DEF rowVars
  <2> QED BY <1>1, <2>1 DEF CallsOK, runVars
<1> QED BY <1>3, <1>4, <1>5

LEMMA PagesKeep ==
  ASSUME ReviewInv, Pages
  PROVE  ReviewInv'
<1>1. PICK c \in Commands, actor \in Actors :
        SendDecide(c, actor) \/ SendApproveRun(c, actor) \/ SendUndo(c, actor)
  BY DEF Pages
<1>2. /\ RowsOK /\ OneInForce /\ runRevision \in Nat
      /\ request = [b \in Commands |-> request[b]]
  BY DEF ReviewInv, LedgerInv, RequestsOK
<1>3. CASE SendDecide(c, actor)
  <2>1. PICK verdict \in Verdicts, targets \in SUBSET Rows \ {{}}, whole \in BOOLEAN :
          Send(c, [kind |-> "decide", actor |-> actor, verdict |-> verdict,
                   targets |-> targets, whole |-> whole,
                   expected |-> [r \in targets |-> revision[r]], shown |-> decision])
    BY <1>3 DEF SendDecide
  <2> DEFINE content == [kind |-> "decide", actor |-> actor, verdict |-> verdict,
                         targets |-> targets, whole |-> whole,
                         expected |-> [r \in targets |-> revision[r]], shown |-> decision]
  <2>2. /\ content.kind = "decide" /\ content.targets = targets /\ content.shown = decision
        /\ content.expected \in [targets -> Nat]
        /\ \A r \in targets : content.expected[r] = revision[r] /\ revision[r] \in Nat
    BY <1>2 DEF RowsOK
  <2>3. Send(c, content)
    BY <2>1
  <2> HIDE DEF content
  <2>4. request'[c] = content /\ UNCHANGED <<rowVars, runVars>>
    BY <1>2, <2>3 DEF Send
  <2>5. RequestKeys(c)'
    BY <2>2, <2>4 DEF RequestKeys, rowVars
  <2> QED BY <2>2, <2>3, <2>5, SendKeeps DEF Kinds
<1>4. CASE SendApproveRun(c, actor)
  <2> DEFINE content == [kind |-> "approveRun", actor |-> actor, runRevision |-> runRevision,
                         count |-> Cardinality(Undecided), shown |-> decision]
  <2>1. /\ content.kind = "approveRun" /\ content.runRevision = runRevision
        /\ content.count = Cardinality(Undecided) /\ content.shown = decision
    OBVIOUS
  <2>2. Send(c, content) /\ Undecided # {}
    BY <1>4 DEF SendApproveRun
  <2> HIDE DEF content
  <2>3. request'[c] = content /\ UNCHANGED <<rowVars, runVars>>
    BY <1>2, <2>2 DEF Send
  <2>4. Cardinality(Undecided) \in Nat \ {0}
    <3>1. IsFiniteSet(Undecided)
      BY FS_Subset, ReviewAssumption DEF Undecided
    <3> QED BY <2>2, <3>1, FS_CardinalityType, FS_EmptySet
  <2>5. RequestKeys(c)'
    BY <1>2, <2>1, <2>3, <2>4 DEF RequestKeys, rowVars, runVars
  <2> QED BY <2>1, <2>2, <2>5, SendKeeps DEF Kinds
<1>5. CASE SendUndo(c, actor)
  <2>1. PICK d \in Commands :
          IsSaved(d) /\ Send(c, [kind |-> "undo", actor |-> actor, undoes |-> d,
                                 baseline |-> baseline])
    BY <1>5 DEF SendUndo
  <2> DEFINE content == [kind |-> "undo", actor |-> actor, undoes |-> d, baseline |-> baseline]
  <2>2. content.kind = "undo" /\ content.undoes = d /\ Send(c, content)
    BY <2>1
  <2> HIDE DEF content
  <2>3. request'[c] = content /\ UNCHANGED saved
    BY <1>2, <2>2 DEF Send
  <2>4. RequestKeys(c)'
    BY <2>1, <2>2, <2>3 DEF RequestKeys, IsSaved
  <2> QED BY <2>2, <2>4, SendKeeps DEF Kinds
<1> QED BY <1>1, <1>3, <1>4, <1>5

LEMMA OthersKeep ==
  ASSUME ReviewInv, Others
  PROVE  ReviewInv'
<1> USE DEF ReviewInv
<1>1. /\ UNCHANGED <<rowVars, saved, request, call>>
      /\ projectRevision' = projectRevision + 1
      /\ runRevision' = runRevision \/ runRevision' = runRevision + 1
  BY DEF Others, OtherRunWrites, OtherPromotion, Promote, Retire, rowVars
<1>2. RunOK'
  BY DEF RunOK, Others, OtherRunWrites, OtherPromotion, Promote, Retire
<1>3. LedgerInv'
  BY <1>1, LedgerKept
<1>4. RequestsOK'
  <2>1. RowsOK /\ Onward
    BY <1>1, RowsKept DEF LedgerInv
  <2> QED BY <1>1, <2>1, RequestsKept DEF rowVars, RequestsOK
<1>5. CallsOK'
  <2>1. \A me : CallKeys(me) => CallKeys(me)'
    BY <1>1, KeysKept
  <2> QED BY <1>1, <2>1 DEF CallsOK
<1>6. PromotedIsAccepted'
  <2>1. \A r \in Rows : Accepted(r) => Accepted(r)'
    BY <1>1, AcceptedKept
  <2>2. promoted' => promoted \/ \A r \in Rows : Accepted(r)
    BY DEF Others, OtherRunWrites, OtherPromotion, Promote, Retire
  <2> QED BY <2>1, <2>2 DEF PromotedIsAccepted
<1> QED BY <1>2, <1>3, <1>4, <1>5, <1>6

-----------------------------------------------------------------------------
LEMMA InitHolds == Init => ReviewInv
<1> SUFFICES ASSUME Init PROVE ReviewInv
  OBVIOUS
<1> USE DEF Init
<1>1. \A c \in Commands : saved[c] = NotSaved /\ ~IsSaved(c)
  BY DEF IsSaved
<1>2. RowsOK
  BY DEF RowsOK, Ids
<1>3. OneInForce
  BY ReviewAssumption DEF OneInForce
<1>4. DecisionsAreSaved /\ RevisionNamesDecision /\ SavedAsSent
  BY <1>1, ReviewAssumption
    DEF DecisionsAreSaved, Decides, RevisionNamesDecision, SavedAsSent
<1>5. EachCommandOnce
  <2> SUFFICES ASSUME NEW r \in Rows
               PROVE  revision[r] =
                 Cardinality({c \in Commands : IsSaved(c) /\ r \in saved[c].rows})
                   + (IF r \in CopiedRows THEN 1 ELSE 0)
    BY DEF EachCommandOnce
  <2>1. {c \in Commands : IsSaved(c) /\ r \in saved[c].rows} = {}
    BY <1>1
  <2>2. revision[r] = 0 + (IF r \in CopiedRows THEN 1 ELSE 0)
    OBVIOUS
  <2> QED BY <2>1, <2>2, FS_EmptySet
<1>6. RequestsOK
  BY DEF RequestsOK, RequestKeys, NoRequest
<1>7. CallsOK
  BY IdleKeys DEF CallsOK
<1> QED BY <1>2, <1>3, <1>4, <1>5, <1>6, <1>7 DEF ReviewInv, LedgerInv, RunOK, PromotedIsAccepted

LEMMA NothingChanged ==
  ASSUME ReviewInv, UNCHANGED vars
  PROVE  ReviewInv'
<1>1. UNCHANGED <<runVars, rowVars, saved, request, call>>
  BY DEF vars
<1>2. LedgerInv' /\ PromotedIsAccepted' /\ RunOK'
  BY <1>1, LedgerKept, AcceptedKept DEF ReviewInv, PromotedIsAccepted, RunOK, runVars
<1>3. RequestsOK'
  <2>1. RowsOK /\ Onward
    BY <1>1, RowsKept DEF ReviewInv, LedgerInv
  <2> QED BY <1>1, <2>1, RequestsKept DEF ReviewInv, rowVars, runVars, RequestsOK
<1>4. CallsOK'
  <2>1. \A me : CallKeys(me) => CallKeys(me)'
    BY <1>1, KeysKept DEF ReviewInv
  <2> QED BY <1>1, <2>1 DEF ReviewInv, CallsOK, runVars
<1> QED BY <1>2, <1>3, <1>4 DEF ReviewInv

LEMMA StepKeeps == ReviewInv /\ [Next]_vars => ReviewInv'
<1> SUFFICES ASSUME ReviewInv, [Next]_vars PROVE ReviewInv'
  OBVIOUS
<1>1. CASE Pages
  BY <1>1, PagesKeep
<1>2. ASSUME NEW w \in Workers, NEW c \in Commands, Begin(w, c) PROVE ReviewInv'
  BY <1>2, BeginKeeps
<1>3. ASSUME NEW w \in Workers, Step(w) \/ Return(w) \/ Crash(w) PROVE ReviewInv'
  BY <1>3, ReadDecideKeeps, ReadApproveRunKeeps, ReadUndoneKeeps, ReadUndoRunKeeps,
     ReadUndoProjectKeeps, CommitKeeps, AfterCommitKeeps DEF Step
<1>4. CASE Others
  BY <1>4, OthersKeep
<1>5. CASE UNCHANGED vars
  BY <1>5, NothingChanged
<1> QED BY <1>1, <1>2, <1>3, <1>4, <1>5 DEF Next

(* The inductive invariant: what a row, a command, a request and a call     *)
(* hold fits together, whichever calls run, repeat and stop.               *)
THEOREM InvariantHolds == Spec => []ReviewInv
<1> QED BY InitHolds, StepKeeps, PTL DEF Spec

(* No interleaving of decisions, run approvals and Undo leaves a row with  *)
(* a revoked decision, or with two (OneInForce).                           *)
THEOREM OneDecision == Spec => []OneInForce
<1>1. ReviewInv => OneInForce
  BY DEF ReviewInv, LedgerInv
<1> QED BY <1>1, InvariantHolds, PTL

(* However often and by however many calls a command is sent, it changes   *)
(* each of its rows once (EachCommandOnce).                                *)
THEOREM CommandOnce == Spec => []EachCommandOnce
<1>1. ReviewInv => EachCommandOnce
  BY DEF ReviewInv, LedgerInv
<1> QED BY <1>1, InvariantHolds, PTL

(* No command that was underway reaches the rows of a promoted comparison  *)
(* (PromotedIsAccepted).                                                   *)
THEOREM PromotedStaysAccepted == Spec => []PromotedIsAccepted
<1>1. ReviewInv => PromotedIsAccepted
  BY DEF ReviewInv
<1> QED BY <1>1, InvariantHolds, PTL

-----------------------------------------------------------------------------
(* The rows, the commands and the end of the review change as in a ledger. *)
LEMMA WhatChanges ==
  ASSUME ReviewInv, [Next]_vars
  PROVE  \/ UNCHANGED <<rowVars, saved>> /\ (Reviewable' = Reviewable \/ Reviewable' = FALSE)
         \/ \E c \in Commands :
              ~IsSaved(c) /\ Reviewable /\ Reviewable' /\ (Decided(c) \/ Undid(c))
<1> DEFINE Quiet ==
      UNCHANGED <<rowVars, saved>> /\ (Reviewable' = Reviewable \/ Reviewable' = FALSE)
<1>1. ASSUME NEW w \in Workers, Commit(w), BatchPasses(call[w])
      PROVE  \E c \in Commands :
               ~IsSaved(c) /\ Reviewable /\ Reviewable' /\ (Decided(c) \/ Undid(c))
  <2>1. Write(call[w]) /\ call[w].at = "committing"
    BY <1>1 DEF Commit
  <2>2. /\ call[w].command \in Commands /\ ~IsSaved(call[w].command) /\ Reviewable
        /\ Decided(call[w].command) \/ Undid(call[w].command)
    BY <1>1, <2>1, CommitWrites
  <2>3. Reviewable'
    BY <2>1, <2>2 DEF Write, Reviewable
  <2> QED BY <2>2, <2>3
<1>2. ASSUME NEW w \in Workers, Commit(w), ~BatchPasses(call[w]) PROVE Quiet
  BY <1>2 DEF Commit, Reviewable, runVars
<1>3. CASE Pages
  BY <1>3 DEF Pages, SendDecide, SendApproveRun, SendUndo, Send, Reviewable, runVars
<1>4. CASE \E w \in Workers, c \in Commands : Begin(w, c)
  BY <1>4 DEF Begin, Reviewable, runVars
<1>5. ASSUME NEW w \in Workers, (Step(w) /\ ~Commit(w)) \/ Return(w) \/ Crash(w) PROVE Quiet
  <2>1. CASE Step(w) /\ ~Commit(w)
    <3>1. UNCHANGED <<runVars, rowVars, saved>>
      BY <2>1, Zenon DEF Step, ReadDecide, ReadApproveRun, ReadUndone, ReadUndoRun,
         ReadUndoProject, CommitFails, Replay, Diagnose, ReadFails
    <3> QED BY <3>1 DEF Reviewable, runVars
  <2>2. CASE Return(w) \/ Crash(w)
    BY <2>2 DEF Return, Crash, Stop, Reviewable, runVars
  <2> QED BY <1>5, <2>1, <2>2
<1>6. CASE Others
  <2>1. UNCHANGED <<rowVars, saved>>
    BY <1>6 DEF Others, OtherRunWrites, OtherPromotion, Promote, Retire, rowVars
  <2>2. Reviewable' = Reviewable \/ Reviewable' = FALSE
    BY <1>6 DEF Others, OtherRunWrites, OtherPromotion, Promote, Retire, Reviewable,
       ReviewInv, RunOK
  <2> QED BY <2>1, <2>2
<1>7. CASE UNCHANGED vars
  BY <1>7 DEF vars, runVars, Reviewable
<1>8. CASE \E w \in Workers : Step(w) \/ Return(w) \/ Crash(w)
  <2>1. PICK w \in Workers : Step(w) \/ Return(w) \/ Crash(w)
    BY <1>8
  <2> HIDE DEF Quiet
  <2>2. Quiet \/ \E c \in Commands :
          ~IsSaved(c) /\ Reviewable /\ Reviewable' /\ (Decided(c) \/ Undid(c))
    BY <1>1, <1>2, <1>5, <2>1
  <2> QED BY <2>2 DEF Quiet
<1> QED BY <1>3, <1>4, <1>6, <1>7, <1>8 DEF Next

LEMMA DecidedAsShownStep ==
  ASSUME ReviewInv, [Next]_vars, NEW c \in Commands,
         ~IsSaved(c), IsSaved(c)', request[c].kind # "undo"
  PROVE  /\ \A r \in saved'[c].rows : decision[r] = request[c].shown[r]
         /\ request[c].kind = "approveRun" =>
              saved'[c].rows = {r \in Rows : request[c].shown[r] = None}
<1>0. RowsOK
  BY DEF ReviewInv, LedgerInv
<1>1. PICK b \in Commands : ~IsSaved(b) /\ (Decided(b) \/ Undid(b))
  BY WhatChanges DEF IsSaved
<1>2. CASE Decided(b)
  <2>1. PICK kind \in {"decide", "approveRun"}, rows \in SUBSET Rows :
          /\ request[b].kind = kind
          /\ kind = "approveRun" => rows = {r \in Rows : request[b].shown[r] = None}
          /\ \A r \in rows : decision[r] = request[b].shown[r]
          /\ WriteDecisions(b, kind, rows)
    BY <1>2 DEF Decided
  <2>2. saved' = [saved EXCEPT ![b] = Entry(kind, rows)] /\ Entry(kind, rows).rows = rows
    BY <2>1 DEF WriteDecisions, Entry
  <2>3. b = c /\ saved'[c].rows = rows
    BY <1>0, <2>2 DEF RowsOK, IsSaved
  <2> QED BY <2>1, <2>3
<1>3. CASE Undid(b)
  <2>1. PICK d \in Commands : request[b].kind = "undo" /\ IsSaved(d) /\ WriteUndo(b, d)
    BY <1>3 DEF Undid
  <2>2. saved' = [saved EXCEPT ![b] = Entry("undo", UndoTargets(d)), ![d].undoneBy = b]
    BY <2>1 DEF WriteUndo
  <2>3. b # c /\ d # c
    BY <2>1
  <2>4. saved'[c] = saved[c]
    BY <1>0, <2>2, <2>3 DEF RowsOK
  <2> QED BY <2>4 DEF IsSaved
<1> QED BY <1>1, <1>2, <1>3

(* A command decides only rows whose decision its page showed, and a run   *)
(* approval just the undecided rows that its page showed (DecidedAsShown). *)
THEOREM DecisionsAreShown == Spec => DecidedAsShown
<1>1. ReviewInv /\ [Next]_vars =>
        [\A c \in Commands :
           ~IsSaved(c) /\ IsSaved(c)' /\ request[c].kind # "undo" =>
             /\ \A r \in saved'[c].rows : decision[r] = request[c].shown[r]
             /\ request[c].kind = "approveRun" =>
                  saved'[c].rows = {r \in Rows : request[c].shown[r] = None}]_saved
  BY DecidedAsShownStep
<1> QED BY <1>1, InvariantHolds, PTL DEF Spec, DecidedAsShown

-----------------------------------------------------------------------------
(* ReviewCommands implements ReviewLedger.                                 *)
Shown ==
  [c \in Commands |->
    IF ~IsSaved(c) THEN NotSaved
    ELSE [rows |-> saved[c].rows, before |-> saved[c].previous,
          undo |-> saved[c].kind = "undo", undone |-> saved[c].undoneBy # None]]

LEMMA Entered ==
  ASSUME LedgerInv, NEW c \in Commands
  PROVE  Shown[c] # NotSaved <=> IsSaved(c)
<1>1. CASE IsSaved(c)
  <2>1. /\ saved[c].rows \in SUBSET Rows /\ saved[c].previous \in PartOf(Ids)
        /\ (saved[c].kind = "undo") \in BOOLEAN /\ (saved[c].undoneBy # None) \in BOOLEAN
    BY <1>1 DEF LedgerInv, RowsOK, Entries, IsSaved
  <2>2. Shown[c] \in LedgerEntries
    BY <1>1, <2>1 DEF Shown, LedgerEntries
  <2> QED BY <1>1, <2>2, NotSavedAssumption
<1>2. CASE ~IsSaved(c)
  BY <1>2 DEF Shown
<1> QED BY <1>1, <1>2

LEMMA DecideIsEntered ==
  ASSUME LedgerInv, NEW c \in Commands, ~IsSaved(c), Reviewable, Reviewable', Decided(c)
  PROVE  \E rows \in SUBSET Rows : Ledger!Decide(c, rows)
<1>1. PICK kind \in {"decide", "approveRun"}, rows \in SUBSET Rows :
        rows # {} /\ WriteDecisions(c, kind, rows)
  BY DEF Decided
<1> DEFINE entry == Entry(kind, rows)
           new == [rows |-> rows, before |-> [r \in rows |-> decision[r]],
                   undo |-> FALSE, undone |-> FALSE]
<1>2. /\ decision' = [r \in Rows |-> IF r \in rows THEN c ELSE decision[r]]
      /\ saved' = [saved EXCEPT ![c] = entry]
  BY <1>1 DEF WriteDecisions, Rewrite
<1>3. /\ entry # NotSaved /\ entry.rows = rows /\ entry.kind # "undo" /\ entry.undoneBy = None
      /\ entry.previous = [r \in rows |-> decision[r]]
  <2>1. RowsOK /\ kind \in Kinds
    BY DEF Kinds, LedgerInv
  <2>2. entry # NotSaved
    BY <2>1, NewEntry
  <2> QED BY <2>2 DEF Entry
<1> HIDE DEF entry
<1>4. saved'[c] = entry /\ \A b \in Commands : b # c => saved'[b] = saved[b]
  BY <1>2 DEF LedgerInv, RowsOK
<1>5. Shown'[c] = new
  BY <1>3, <1>4 DEF Shown, IsSaved
<1>6. \A b \in Commands : b # c => Shown'[b] = Shown[b]
  BY <1>4 DEF Shown, IsSaved
<1> HIDE DEF new
<1>7. Shown' = [Shown EXCEPT ![c] = new]
  <2>1. Shown = [b \in Commands |-> Shown[b]] /\ Shown' = [b \in Commands |-> Shown'[b]]
    BY DEF Shown
  <2> QED BY <1>5, <1>6, <2>1
<1>8. ~(Shown[c] # NotSaved)
  BY Entered
<1>9. Reviewable' = Reviewable
  BY DEF Reviewable
<1> QED BY <1>1, <1>2, <1>7, <1>8, <1>9 DEF Ledger!Decide, Ledger!Entered, Shown, new

LEMMA UndoneShown ==
  ASSUME NEW rows, NEW before,
         NEW e, e = [rows |-> rows, before |-> before, undo |-> FALSE, undone |-> FALSE]
  PROVE  [e EXCEPT !.undone = TRUE]
           = [rows |-> rows, before |-> before, undo |-> FALSE, undone |-> TRUE]
<1> DEFINE Records == [rows : {rows}, before : {before}, undo : BOOLEAN, undone : BOOLEAN]
           u == [e EXCEPT !.undone = TRUE]
<1>1. e \in Records /\ e.rows = rows /\ e.before = before /\ e.undo = FALSE
  OBVIOUS
<1>2. u \in Records /\ u.rows = rows /\ u.before = before /\ u.undo = FALSE /\ u.undone = TRUE
  BY <1>1
<1> HIDE DEF u
<1>3. u = [rows |-> u.rows, before |-> u.before, undo |-> u.undo, undone |-> u.undone]
  BY <1>2
<1> QED BY <1>2, <1>3 DEF u

LEMMA UndoIsEntered ==
  ASSUME LedgerInv, NEW c \in Commands, ~IsSaved(c), Reviewable, Reviewable', Undid(c)
  PROVE  \E d \in Commands : Ledger!Undo(c, d)
<1>1. PICK d \in Commands :
        /\ IsSaved(d) /\ saved[d].kind # "undo" /\ saved[d].undoneBy = None
        /\ UndoTargets(d) = saved[d].rows /\ \A r \in saved[d].rows : decision[r] = d
        /\ WriteUndo(c, d)
  BY DEF Undid
<1> DEFINE rows == saved[d].rows
           entry == Entry("undo", UndoTargets(d))
           new == [rows |-> rows, before |-> [r \in rows |-> d], undo |-> TRUE, undone |-> FALSE]
           undone == [rows |-> rows, before |-> saved[d].previous, undo |-> FALSE, undone |-> TRUE]
<1>2. /\ decision' = [r \in Rows |-> IF r \in rows THEN saved[d].previous[r] ELSE decision[r]]
      /\ saved' = [saved EXCEPT ![c] = entry, ![d].undoneBy = c]
  BY <1>1 DEF WriteUndo, Rewrite
<1>3. /\ entry.rows = rows /\ entry.kind = "undo" /\ entry.undoneBy = None
      /\ entry.previous = [r \in rows |-> d] /\ entry # NotSaved
  <2>1. PICK kind \in Kinds : kind = "undo"
    BY DEF Kinds
  <2>2. RowsOK /\ UndoTargets(d) \in SUBSET Rows
    BY <1>1 DEF LedgerInv, RowsOK, Entries, IsSaved
  <2>3. Entry(kind, UndoTargets(d)) # NotSaved
    BY <2>2, NewEntry
  <2> QED BY <1>1, <2>1, <2>3 DEF Entry
<1> HIDE DEF entry
<1>4. /\ saved'[c] = entry /\ \A b \in Commands : b # c /\ b # d => saved'[b] = saved[b]
      /\ saved'[d] # NotSaved /\ saved'[d].kind = saved[d].kind /\ saved'[d].rows = rows
      /\ saved'[d].previous = saved[d].previous /\ saved'[d].undoneBy = c
  <2>1. c # d /\ saved[d] \in Entries
    BY <1>1 DEF LedgerInv, RowsOK, IsSaved
  <2> DEFINE left == [saved[d] EXCEPT !.undoneBy = c]
             first == [saved EXCEPT ![c] = entry]
  <2>2. /\ left \in Entries /\ left.kind = saved[d].kind /\ left.rows = rows
        /\ left.previous = saved[d].previous /\ left.undoneBy = c
    BY <2>1, UndoneEntry
  <2>3. /\ first[c] = entry /\ first[d] = saved[d] /\ DOMAIN first = Commands
        /\ \A b \in Commands : b # c => first[b] = saved[b]
    BY <2>1 DEF LedgerInv, RowsOK
  <2>4. saved' = [first EXCEPT ![d] = [first[d] EXCEPT !.undoneBy = c]]
    BY <1>2, Zenon
  <2> HIDE DEF first
  <2>5. saved' = [first EXCEPT ![d] = left]
    BY <2>3, <2>4
  <2> HIDE DEF left
  <2> QED BY <2>1, <2>2, <2>3, <2>5, NotSavedAssumption
<1>5. c # d
  BY <1>1
<1>6. Shown'[c] = new
  BY <1>3, <1>4 DEF Shown, IsSaved
<1>7. Shown'[d] = undone
  BY <1>1, <1>4, ReviewAssumption DEF Shown, IsSaved
<1>8. \A b \in Commands : b # c /\ b # d => Shown'[b] = Shown[b]
  BY <1>4 DEF Shown, IsSaved
<1>9. Shown[d] = [rows |-> rows, before |-> saved[d].previous, undo |-> FALSE, undone |-> FALSE]
  BY <1>1 DEF Shown
<1>10. Shown' = [Shown EXCEPT ![d].undone = TRUE, ![c] = new]
  <2>1. Shown = [b \in Commands |-> Shown[b]] /\ Shown' = [b \in Commands |-> Shown'[b]]
    BY DEF Shown
  <2>2. undone = [Shown[d] EXCEPT !.undone = TRUE]
    BY <1>9, UndoneShown
  <2> HIDE DEF new, undone
  <2> DEFINE first == [Shown EXCEPT ![d] = [Shown[d] EXCEPT !.undone = TRUE]]
  <2>3. first = [Shown EXCEPT ![d] = undone]
    BY <2>2
  <2>4. Shown' = [first EXCEPT ![c] = new]
    BY <1>5, <1>6, <1>7, <1>8, <2>1, <2>3
  <2> QED BY <2>4, Zenon
<1>11. Shown[c] = NotSaved /\ Shown[d] # NotSaved
  BY <1>1, Entered
<1>12. Reviewable' = Reviewable
  BY DEF Reviewable
<1> DEFINE kept == [r \in Rows |-> IF r \in Shown[d].rows THEN Shown[d].before[r] ELSE decision[r]]
<1>13. decision' = kept
  BY <1>2, <1>9
<1>14. new = [rows |-> Shown[d].rows, before |-> [r \in Shown[d].rows |-> d],
              undo |-> TRUE, undone |-> FALSE]
  BY <1>9
<1>15. ~Shown[d].undo /\ ~Shown[d].undone /\ \A r \in Shown[d].rows : decision[r] = d
  BY <1>1, <1>9
<1> HIDE DEF new, rows, undone
<1> QED BY <1>10, <1>11, <1>12, <1>13, <1>14, <1>15 DEF Ledger!Undo, Ledger!Entered, Shown

LEMMA LedgerStep ==
  ASSUME ReviewInv, [Next]_vars
  PROVE  [Ledger!Next]_(Ledger!vars)
<1>1. CASE UNCHANGED <<rowVars, saved>> /\ Reviewable' = Reviewable
  BY <1>1 DEF Ledger!vars, rowVars, IsSaved
<1>2. CASE UNCHANGED <<rowVars, saved>> /\ Reviewable' = FALSE
  <2>1. Ledger!Close
    BY <1>2 DEF Ledger!Close, rowVars, IsSaved
  <2> QED BY <2>1 DEF Ledger!Next
<1>3. CASE \E c \in Commands :
             ~IsSaved(c) /\ Reviewable /\ Reviewable' /\ (Decided(c) \/ Undid(c))
  BY <1>3, DecideIsEntered, UndoIsEntered DEF Ledger!Next, ReviewInv
<1> QED BY <1>1, <1>2, <1>3, WhatChanges

(* The guarded batches of concurrent calls are the steps of a ledger: one  *)
(* entry for each command, and an Undo only of what still stands.          *)
THEOREM ReviewImplementsLedger == Spec => ImplementsLedger
<1>1. Init => Ledger!Init
  BY DEF Init, Ledger!Init, IsSaved, Reviewable
<1>2. ReviewInv /\ [Next]_vars => [Ledger!Next]_(Ledger!vars)
  BY LedgerStep
<1> QED BY <1>1, <1>2, InvariantHolds, PTL DEF Spec, ImplementsLedger, Ledger!Spec

-----------------------------------------------------------------------------
(* The queue of review decisions.                                          *)
States == {"none", "queued", "leased", "complete", "dead"}
Tasks == [state : States, attempts : Nat, live : BOOLEAN,
          previous : Commands \cup {None}, result : Results]

\* A task is of a decision that a page sent, and its receipt is true.
TaskRowOK(c) ==
  /\ task[c] \in Tasks
  /\ task[c].state = "none" => task[c] = NoTask
  /\ task[c].state # "none" => request[c].kind \in {"decide", "approveRun"}
  /\ task[c].result = "saved" => IsSaved(c) /\ task[c].state = "complete"

TasksOK == task = [c \in Commands |-> task[c]] /\ \A c \in Commands : TaskRowOK(c)

\* The decision before this one is saved and has its receipt.
Follows(c) == task[c].previous # None => task[task[c].previous].result = "saved"

Admitted(c) == request[c].kind # "undo" => task[c].state # "none"

\* A call of the service is of an admitted decision whose predecessor is done, or of an Undo.
CallFollows(me) ==
  /\ me.answer = "saved" => me.at = "answered" /\ IsSaved(me.command)
  /\ me.at # "idle" => Admitted(me.command)
  /\ me.at \notin {"idle", "predecessor", "answered"} => Follows(me.command)

CallsFollow == \A w \in Workers : CallFollows(call[w])
SavedInOrder == \A c \in Commands : IsSaved(c) => Admitted(c) /\ Follows(c)

QueueInv == ReviewInv /\ TasksOK /\ CallsFollow /\ SavedInOrder

\* What a step does to a task that has no receipt yet.
Moved(c) ==
  /\ Open(c)
  /\ task'[c] \in Tasks /\ task'[c].state # "none" /\ task'[c].previous = task[c].previous
  /\ task'[c].result = "saved" =>
       task[c].result = "saved" \/ (task'[c].state = "complete" /\ IsSaved(c))

\* Commands, requests and receipts are never taken back.
Kept ==
  \A c \in Commands :
    /\ IsSaved(c) => IsSaved(c)'
    /\ request[c].kind \in Kinds => request'[c] = request[c]
    /\ request[c].kind \in Kinds /\ Admitted(c) => Admitted(c)' /\ (Follows(c) => Follows(c)')

-----------------------------------------------------------------------------
(* The steps of the queue are steps of the service, or change no row.      *)
LEMMA StoppedKeeps ==
  ASSUME ReviewInv, NEW w \in Workers, Stop(w)
  PROVE  ReviewInv'
  BY IdleKeys, OnlyCallChanged DEF Stop

LEMMA GoneOn ==
  ASSUME ReviewInv, NEW w \in Workers, call[w].at # "idle", NEW at \in Plain,
         Goto(w, at), UNCHANGED <<runVars, rowVars, saved, request>>
  PROVE  ReviewInv'
<1>1. CallKeys(call[w])
  BY DEF ReviewInv, CallsOK
<1>2. CallKeys([call[w] EXCEPT !.at = at])
  BY <1>1, MovedKeys
<1> QED BY <1>2, OnlyCallChanged DEF Goto

LEMMA ClaimKeeps ==
  ASSUME QueueInv, NEW w \in Workers, NEW c \in Commands, Claim(w, c)
  PROVE  ReviewInv'
<1>1. request[c].kind \in Kinds
  BY DEF Claim, Due, QueueInv, TasksOK, TaskRowOK, Kinds
<1> DEFINE there == [Idle EXCEPT !.at = "predecessor"]
           me == [there EXCEPT !.command = c]
<1>2. there \in Calls /\ there.at = "predecessor"
  BY DEF Idle, Calls, Places
<1>3. [Idle EXCEPT !.at = "predecessor", !.command = c] = me
  BY Zenon
<1> HIDE DEF there
<1>4. me \in Calls /\ me.at = "predecessor" /\ me.command = c
  BY <1>2 DEF Calls
<1> HIDE DEF me
<1>5. CallKeys(me)
  BY <1>1, <1>4 DEF CallKeys
<1>6. Become(w, me)
  BY <1>3 DEF Claim
<1> QED BY <1>5, <1>6, OnlyCallChanged DEF Claim, QueueInv

LEMMA PlainPlaces == "begin" \in Plain /\ "reading" \in Plain
  BY DEF Plain

LEMMA QueueKeepsReview ==
  ASSUME QueueInv, [QueueNext]_queueVars
  PROVE  ReviewInv'
<1> USE DEF QueueInv
<1>1. CASE UNCHANGED vars
  BY <1>1, NothingChanged
<1>2. ASSUME NEW w \in Workers, NEW c \in Commands, Claim(w, c) PROVE ReviewInv'
  BY <1>2, ClaimKeeps
<1>3. ASSUME NEW w \in Workers, Predecessor(w) PROVE ReviewInv'
  BY <1>3, Answered, GoneOn, PlainPlaces DEF Predecessor
<1>4. ASSUME NEW w \in Workers, BeginQueued(w) PROVE ReviewInv'
  BY <1>4, Answered, GoneOn, PlainPlaces DEF BeginQueued
<1>5. ASSUME NEW w \in Workers, WriteReceipt(w) \/ FailAttempt(w) \/ StopConsumer(w)
      PROVE  ReviewInv'
  BY <1>5, StoppedKeeps DEF WriteReceipt, FailAttempt, StopConsumer, Finish
<1>6. ASSUME NEW w \in Workers, ReceiptFails(w) PROVE ReviewInv'
  BY <1>6, Answered DEF ReceiptFails
<1>7. CASE Next
  BY <1>7, StepKeeps
<1>8. ASSUME NEW c \in Commands, Admit(c) \/ GiveUp(c) \/ LeaseEnds(c) PROVE ReviewInv'
  BY <1>1, <1>8 DEF Admit, GiveUp, LeaseEnds
<1>9. ASSUME NEW w \in Workers, Step(w) \/ ReturnUndo(w) PROVE Next
  BY <1>9 DEF Next, ReturnUndo
<1>10. CASE \/ Pages \/ OtherRunWrites \/ OtherPromotion \/ PromoteSettled \/ Retire
            \/ \E w \in Workers, c \in Commands : DirectUndo(w, c)
  BY <1>7, <1>10 DEF Next, Others, PromoteSettled, DirectUndo
<1>11. UNCHANGED queueVars => UNCHANGED vars
  BY DEF queueVars
<1> QED BY <1>1, <1>2, <1>3, <1>4, <1>5, <1>6, <1>7, <1>8, <1>9, <1>10, <1>11
        DEF QueueNext, Consume

-----------------------------------------------------------------------------
(* Receipts: what a step takes from a task, and what it leaves.            *)
LEMMA TaskFields ==
  ASSUME NEW t \in Tasks
  PROVE  /\ \A x \in States : LET u == [t EXCEPT !.state = x] IN
              u \in Tasks /\ u.state = x /\ u.previous = t.previous /\ u.result = t.result
         /\ \A x \in BOOLEAN : LET u == [t EXCEPT !.live = x] IN
              u \in Tasks /\ u.state = t.state /\ u.previous = t.previous /\ u.result = t.result
         /\ \A x \in Nat : LET u == [t EXCEPT !.attempts = x] IN
              u \in Tasks /\ u.state = t.state /\ u.previous = t.previous /\ u.result = t.result
         /\ \A x \in Results : LET u == [t EXCEPT !.result = x] IN
              u \in Tasks /\ u.state = t.state /\ u.previous = t.previous /\ u.result = x
         /\ \A x \in Commands \cup {None} : LET u == [t EXCEPT !.previous = x] IN
              u \in Tasks /\ u.state = t.state /\ u.previous = x /\ u.result = t.result
  BY DEF Tasks

\* One task changes, and it had no receipt.
LEMMA TaskSet ==
  ASSUME TasksOK, NEW c \in Commands, NEW t \in Tasks, task' = [task EXCEPT ![c] = t],
         Open(c), t.state # "none", t.previous = task[c].previous,
         t.result = "saved" => task[c].result = "saved" \/ (t.state = "complete" /\ IsSaved(c))
  PROVE  /\ task' = [d \in Commands |-> task'[d]]
         /\ \A d \in Commands : task'[d] = task[d] \/ Moved(d)
<1>1. task'[c] = t /\ \A d \in Commands : d # c => task'[d] = task[d]
  BY DEF TasksOK
<1>2. Moved(c)
  BY <1>1 DEF Moved
<1> QED BY <1>1, <1>2 DEF TasksOK

\* No task changes, or such a one does.
TasksMove ==
  /\ task' = [d \in Commands |-> task'[d]]
  /\ \A d \in Commands : task'[d] = task[d] \/ Moved(d)

LEMMA NoTaskMoved == TasksOK /\ UNCHANGED task => TasksMove
  BY DEF TasksOK, TasksMove

LEMMA ClaimMoves ==
  ASSUME TasksOK, NEW w \in Workers, NEW c \in Commands, Claim(w, c)
  PROVE  TasksMove
<1> DEFINE t1 == [task[c] EXCEPT !.state = "leased"]
           t2 == [t1 EXCEPT !.live = TRUE]
           t3 == [t2 EXCEPT !.attempts = @ + 1]
<1>1. task[c] \in Tasks /\ Open(c)
  BY DEF TasksOK, TaskRowOK, Claim, Due, Open
<1>2. task' = [task EXCEPT ![c] = t3]
  BY DEF Claim, TasksOK
<1>3. t1 \in Tasks /\ t1.state = "leased" /\ t1.previous = task[c].previous /\ t1.result = task[c].result
  BY <1>1, TaskFields DEF States
<1> HIDE DEF t1
<1>4. t2 \in Tasks /\ t2.state = "leased" /\ t2.previous = t1.previous /\ t2.result = t1.result
  BY <1>3, TaskFields
<1> HIDE DEF t2
<1>5. t3 \in Tasks /\ t3.state = "leased" /\ t3.previous = t2.previous /\ t3.result = t2.result
  <2>1. t2.attempts + 1 \in Nat
    BY <1>4 DEF Tasks
  <2> QED BY <1>4, <2>1, TaskFields
<1> HIDE DEF t3
<1> QED BY <1>1, <1>2, <1>3, <1>4, <1>5, TaskSet DEF TasksMove

LEMMA LeaseMoves ==
  ASSUME TasksOK, NEW c \in Commands, GiveUp(c) \/ LeaseEnds(c)
  PROVE  TasksMove
<1>1. task[c] \in Tasks /\ Open(c)
  BY DEF TasksOK, TaskRowOK, GiveUp, Due, LeaseEnds, Open
<1>2. CASE LeaseEnds(c)
  <2> DEFINE t == [task[c] EXCEPT !.live = FALSE]
  <2>1. task' = [task EXCEPT ![c] = t]
    BY <1>2 DEF LeaseEnds
  <2>2. t \in Tasks /\ t.state = task[c].state /\ t.previous = task[c].previous /\ t.result = task[c].result
    BY <1>1, TaskFields
  <2> HIDE DEF t
  <2> QED BY <1>1, <2>1, <2>2, TaskSet DEF TasksMove, Open
<1>3. CASE GiveUp(c)
  <2> DEFINE t1 == [task[c] EXCEPT !.state = "dead"]
             t2 == [t1 EXCEPT !.live = FALSE]
  <2>1. task' = [task EXCEPT ![c] = t2]
    BY <1>3 DEF GiveUp, TasksOK
  <2>2. t1 \in Tasks /\ t1.state = "dead" /\ t1.previous = task[c].previous /\ t1.result = task[c].result
    BY <1>1, TaskFields DEF States
  <2> HIDE DEF t1
  <2>3. t2 \in Tasks /\ t2.state = "dead" /\ t2.previous = t1.previous /\ t2.result = t1.result
    BY <2>2, TaskFields
  <2> HIDE DEF t2
  <2> QED BY <1>1, <2>1, <2>2, <2>3, TaskSet DEF TasksMove
<1> QED BY <1>2, <1>3

LEMMA ReceiptMoves ==
  ASSUME QueueInv, NEW w \in Workers, WriteReceipt(w) \/ FailAttempt(w)
  PROVE  TasksMove
<1> DEFINE c == call[w].command
<1>1. /\ c \in Commands /\ task[c] \in Tasks /\ TasksOK
      /\ call[w].answer \in Results \cup {"error"}
      /\ call[w].answer = "saved" => IsSaved(c)
  BY DEF WriteReceipt, FailAttempt, QueueInv, ReviewInv, CallsOK, CallKeys, Calls, TasksOK,
     TaskRowOK, CallsFollow, CallFollows, Results
<1>2. CASE UNCHANGED task
  BY <1>1, <1>2, NoTaskMoved
<1>3. ASSUME WriteReceipt(w), HasLease(w) PROVE TasksMove
  <2> DEFINE t1 == [task[c] EXCEPT !.state = "complete"]
             t2 == [t1 EXCEPT !.live = FALSE]
             t3 == [t2 EXCEPT !.result = call[w].answer]
  <2>1. Open(c) /\ call[w].answer \in Results
    BY <1>1, <1>3 DEF HasLease, Open, WriteReceipt
  <2>2. [task[c] EXCEPT !.state = "complete", !.live = FALSE, !.result = call[w].answer] = t3
    BY Zenon
  <2>3. task' = [task EXCEPT ![c] = t3]
    <3> HIDE DEF t3
    <3> QED BY <1>1, <1>3, <2>2 DEF WriteReceipt, TasksOK
  <2>4. t1 \in Tasks /\ t1.state = "complete" /\ t1.previous = task[c].previous
    BY <1>1, TaskFields DEF States
  <2> HIDE DEF t1
  <2>5. t2 \in Tasks /\ t2.state = "complete" /\ t2.previous = t1.previous
    BY <2>4, TaskFields
  <2> HIDE DEF t2
  <2>6. t3 \in Tasks /\ t3.state = "complete" /\ t3.previous = t2.previous
        /\ t3.result = call[w].answer
    BY <2>1, <2>5, TaskFields
  <2> HIDE DEF t3
  <2> QED BY <1>1, <2>1, <2>3, <2>4, <2>5, <2>6, TaskSet DEF TasksMove
<1>4. ASSUME FailAttempt(w), HasLease(w) PROVE TasksMove
  <2>1. PICK to \in {"dead", "queued"} :
          task' = [task EXCEPT ![c] = [@ EXCEPT !.live = FALSE, !.state = to]]
    BY <1>4 DEF FailAttempt
  <2> DEFINE t1 == [task[c] EXCEPT !.live = FALSE]
             t2 == [t1 EXCEPT !.state = to]
  <2>2. [task[c] EXCEPT !.live = FALSE, !.state = to] = t2
    BY Zenon
  <2>3. task' = [task EXCEPT ![c] = t2]
    <3> HIDE DEF t2
    <3> QED BY <1>1, <2>1, <2>2 DEF TasksOK
  <2>4. t1 \in Tasks /\ t1.previous = task[c].previous /\ t1.result = task[c].result
    BY <1>1, TaskFields
  <2> HIDE DEF t1
  <2>5. t2 \in Tasks /\ t2.state = to /\ t2.previous = t1.previous /\ t2.result = t1.result
    <3>1. to \in States
      BY DEF States
    <3> QED BY <2>4, <3>1, TaskFields
  <2> HIDE DEF t2
  <2>6. Open(c)
    BY <1>4 DEF HasLease, Open
  <2> QED BY <1>1, <2>3, <2>4, <2>5, <2>6, TaskSet DEF TasksMove
<1> QED BY <1>2, <1>3, <1>4 DEF WriteReceipt, FailAttempt

-----------------------------------------------------------------------------
(* What the tasks, the calls and the saved commands need to stay in order. *)
LEMMA KeptByMoves ==
  ASSUME QueueInv, TasksMove, \A c \in Commands : IsSaved(c) => IsSaved(c)',
         \A c \in Commands : request[c].kind \in Kinds => request'[c] = request[c]
  PROVE  Kept /\ TasksOK'
<1>1. ASSUME NEW c \in Commands PROVE TaskRowOK(c)' /\ (task[c].result = "saved" => task'[c].result = "saved")
  <2>1. TaskRowOK(c)
    BY DEF QueueInv, TasksOK
  <2>2. CASE Moved(c)
    BY <2>1, <2>2 DEF Moved, TaskRowOK, Open, Kinds
  <2>3. CASE task'[c] = task[c]
    BY <2>1, <2>3 DEF TaskRowOK, Kinds
  <2> QED BY <2>2, <2>3 DEF TasksMove
<1>2. ASSUME NEW c \in Commands, request[c].kind \in Kinds, Admitted(c)
      PROVE  Admitted(c)' /\ (Follows(c) => Follows(c)')
  <2>1. task'[c].previous = task[c].previous /\ (task[c].state # "none" => task'[c].state # "none")
    BY DEF TasksMove, Moved
  <2>2. task[c].previous \in Commands \cup {None}
    BY DEF QueueInv, TasksOK, TaskRowOK, Tasks
  <2> QED BY <1>1, <1>2, <2>1, <2>2 DEF Admitted, Follows
<1> QED BY <1>1, <1>2 DEF Kept, TasksOK, TasksMove

LEMMA CallStaysInOrder ==
  ASSUME Kept, NEW me, CallKeys(me), CallFollows(me)
  PROVE  CallFollows(me)'
<1>1. CASE me.at = "idle"
  BY <1>1 DEF CallFollows
<1>2. CASE me.at # "idle"
  <2>1. me.command \in Commands /\ request[me.command].kind \in Kinds
    BY <1>2 DEF CallKeys
  <2> QED BY <2>1 DEF CallFollows, Kept
<1> QED BY <1>1, <1>2

LEMMA OneCallInOrder ==
  ASSUME QueueInv, Kept, NEW w \in Workers, NEW me, call' = [call EXCEPT ![w] = me],
         CallFollows(me)'
  PROVE  CallsFollow'
<1> SUFFICES ASSUME NEW v \in Workers PROVE CallFollows(call[v])'
  BY DEF CallsFollow
<1>1. CASE v = w
  <2>1. call'[v] = me
    BY <1>1 DEF QueueInv, ReviewInv, CallsOK
  <2> QED BY <2>1 DEF CallFollows
<1>2. CASE v # w
  <2>1. call'[v] = call[v] /\ CallKeys(call[v]) /\ CallFollows(call[v])
    BY <1>2 DEF QueueInv, ReviewInv, CallsOK, CallsFollow
  <2>2. PICK you : you = call[v]
    OBVIOUS
  <2>3. CallFollows(you)'
    BY <2>1, <2>2, CallStaysInOrder
  <2> QED BY <2>1, <2>2, <2>3 DEF CallFollows
<1> QED BY <1>1, <1>2

LEMMA SavedStayInOrder ==
  ASSUME QueueInv, Kept,
         \A c \in Commands : IsSaved(c)' =>
           IsSaved(c) \/ (request[c].kind \in Kinds /\ Admitted(c) /\ Follows(c))
  PROVE  SavedInOrder'
<1>1. \A c \in Commands : IsSaved(c) => request[c].kind \in Kinds /\ Admitted(c) /\ Follows(c)
  BY DEF QueueInv, SavedInOrder, ReviewInv, LedgerInv, SavedAsSent, RowsOK, Entries, IsSaved
<1> QED BY <1>1 DEF SavedInOrder, Kept

\* A step that saves nothing, and moves one call.
LEMMA QuietInOrder ==
  ASSUME QueueInv, ReviewInv', TasksMove, UNCHANGED <<saved, request>>,
         NEW w \in Workers, NEW me, call' = [call EXCEPT ![w] = me],
         CallKeys(me), CallFollows(me)
  PROVE  QueueInv'
<1>1. Kept /\ TasksOK'
  BY KeptByMoves DEF IsSaved
<1>2. CallFollows(me)'
  BY <1>1, CallStaysInOrder
<1>3. SavedInOrder'
  BY <1>1, SavedStayInOrder DEF IsSaved
<1> QED BY <1>1, <1>2, <1>3, OneCallInOrder DEF QueueInv

-----------------------------------------------------------------------------
(* A step of a call of the service: it keeps its command, and answers      *)
(* "saved" only for a command that is.                                     *)
Serving == {"reading", "undo-run", "undo-project", "committing", "replaying", "diagnosing"}
Answers == {"none", "saved", "conflict", "concurrent", "error"}

LEMMA AnsweredRecord ==
  ASSUME NEW c \in Commands, NEW answer \in Answers
  PROVE  LET me == [Idle EXCEPT !.at = "answered", !.command = c, !.answer = answer]
         IN me \in Calls /\ me.at = "answered" /\ me.command = c /\ me.answer = answer
<1> DEFINE there == [Idle EXCEPT !.at = "answered"]
           named == [there EXCEPT !.command = c]
           me == [named EXCEPT !.answer = answer]
<1>1. there \in Calls /\ there.at = "answered"
  BY DEF Idle, Calls, Places
<1>2. [Idle EXCEPT !.at = "answered", !.command = c, !.answer = answer] = me
  BY Zenon
<1> HIDE DEF there
<1>3. named \in Calls /\ named.at = "answered" /\ named.command = c
  BY <1>1 DEF Calls
<1> HIDE DEF named
<1>4. me \in Calls /\ me.at = "answered" /\ me.command = c /\ me.answer = answer
  BY <1>3 DEF Calls, Answers
<1> HIDE DEF me
<1> QED BY <1>2, <1>4

\* What becomes of the call of a step that saves nothing.
Serves(w, me) ==
  /\ call' = [call EXCEPT ![w] = me]
  /\ me.at # "idle" /\ me.command = call[w].command
  /\ me.answer = "saved" =>
       (me.at = "answered" /\ IsSaved(me.command)) \/ me.answer = call[w].answer

LEMMA AnswerServes ==
  ASSUME NEW w \in Workers, call[w].command \in Commands, NEW answer \in Answers, Answer(w, answer),
         answer = "saved" => IsSaved(call[w].command)
  PROVE  \E me : Serves(w, me)
<1> DEFINE me == [Idle EXCEPT !.at = "answered", !.command = call[w].command, !.answer = answer]
<1>1. me.at = "answered" /\ me.command = call[w].command /\ me.answer = answer
  BY AnsweredRecord
<1>2. call' = [call EXCEPT ![w] = me]
  BY DEF Answer, Become
<1> HIDE DEF me
<1>3. Serves(w, me)
  BY <1>1, <1>2 DEF Serves
<1> QED BY <1>3

LEMMA GotoServes ==
  ASSUME NEW w \in Workers, call[w] \in Calls, NEW at \in Places \ {"idle"},
         NEW fault \in BOOLEAN,
         Goto(w, at) \/ Become(w, [call[w] EXCEPT !.at = at, !.fault = fault])
  PROVE  \E me : Serves(w, me)
<1> DEFINE u1 == [call[w] EXCEPT !.at = at]
           u2 == [u1 EXCEPT !.fault = fault]
<1>1. /\ u1 \in Calls /\ u1.at = at /\ u1.command = call[w].command
      /\ u1.answer = call[w].answer
  BY UpdatedCall
<1>2. [call[w] EXCEPT !.at = at, !.fault = fault] = u2
  BY Zenon
<1>3. call' = [call EXCEPT ![w] = u1] \/ call' = [call EXCEPT ![w] = u2]
  BY <1>2, Zenon DEF Goto, Become
<1> HIDE DEF u1
<1>4. u2.at = at /\ u2.command = call[w].command /\ u2.answer = call[w].answer
  BY <1>1 DEF Calls
<1> HIDE DEF u2
<1> QED BY <1>1, <1>3, <1>4 DEF Serves

LEMMA ReadServes ==
  ASSUME ReviewInv, NEW w \in Workers, call[w].at \in Serving,
         \/ ReadDecide(w) \/ ReadApproveRun(w) \/ ReadUndone(w) \/ ReadUndoRun(w)
         \/ ReadUndoProject(w)
  PROVE  \E me : Serves(w, me)
<1>1. /\ call[w] \in Calls /\ call[w].command \in Commands
      /\ runRevision \in Nat /\ projectRevision \in Nat
  BY DEF ReviewInv, CallsOK, CallKeys, RequestsOK, Serving
<1> DEFINE u1 == [call[w] EXCEPT !.at = "committing"]
           u2 == [u1 EXCEPT !.runRevision = runRevision]
           u3 == [u2 EXCEPT !.projectRevision = projectRevision]
           u4 == [u3 EXCEPT !.decided = ToDecide(Request(w))]
           v2 == [u1 EXCEPT !.projectRevision = projectRevision]
           r1 == [call[w] EXCEPT !.at = "undo-project"]
           r2 == [r1 EXCEPT !.runRevision = runRevision]
           r3 == [r2 EXCEPT !.reviewable = active /\ ready]
<1>2. Answer(w, "conflict") => \E me : Serves(w, me)
  BY <1>1, AnswerServes DEF Answers
<1>3. Goto(w, "undo-run") => \E me : Serves(w, me)
  BY <1>1, GotoServes DEF Places
<1>4. \/ Answer(w, "conflict") \/ Goto(w, "undo-run")
      \/ call' = [call EXCEPT ![w] = u4] \/ call' = [call EXCEPT ![w] = u3]
      \/ call' = [call EXCEPT ![w] = v2]
      \/ call' = [call EXCEPT ![w] = r3]
  BY Zenon DEF ReadDecide, ReadApproveRun, ReadUndone, ReadUndoRun, ReadUndoProject, Become, Request
<1>5. u1 \in Calls /\ u1.at = "committing" /\ u1.command = call[w].command /\ u1.answer = call[w].answer
  BY <1>1, UpdatedCall DEF Places
<1>6. r1 \in Calls /\ r1.at = "undo-project" /\ r1.command = call[w].command /\ r1.answer = call[w].answer
  BY <1>1, UpdatedCall DEF Places
<1> HIDE DEF u1, r1
<1>7. u2 \in Calls /\ u2.at = "committing" /\ u2.command = call[w].command /\ u2.answer = call[w].answer
  BY <1>1, <1>5, UpdatedCall
<1>8. v2 \in Calls /\ v2.at = "committing" /\ v2.command = call[w].command /\ v2.answer = call[w].answer
  BY <1>1, <1>5, UpdatedCall
<1>9. r2 \in Calls /\ r2.at = "undo-project" /\ r2.command = call[w].command /\ r2.answer = call[w].answer
  BY <1>1, <1>6, UpdatedCall
<1> HIDE DEF u2, v2, r2
<1>10. u3 \in Calls /\ u3.at = "committing" /\ u3.command = call[w].command /\ u3.answer = call[w].answer
  BY <1>1, <1>7, UpdatedCall
<1>11. r3.at = "undo-project" /\ r3.command = call[w].command /\ r3.answer = call[w].answer
  BY <1>9 DEF Calls
<1> HIDE DEF u3, r3
<1>12. u4.at = "committing" /\ u4.command = call[w].command /\ u4.answer = call[w].answer
  BY <1>10 DEF Calls
<1> HIDE DEF u4
<1> QED BY <1>2, <1>3, <1>4, <1>8, <1>10, <1>11, <1>12 DEF Serves

LEMMA AfterReadServes ==
  ASSUME ReviewInv, NEW w \in Workers, call[w].at \in Serving,
         \/ CommitFails(w) \/ Replay(w) \/ Diagnose(w) \/ ReadFails(w)
         \/ ToReplay(w, FALSE) \/ ToReplay(w, TRUE)
  PROVE  \E me : Serves(w, me)
<1>1. call[w] \in Calls /\ call[w].command \in Commands
  BY DEF ReviewInv, CallsOK, CallKeys, Serving
<1>2. ASSUME NEW answer \in Answers, Answer(w, answer), answer = "saved" => IsSaved(call[w].command)
      PROVE  \E me : Serves(w, me)
  BY <1>1, <1>2, AnswerServes
<1>3. ASSUME NEW fault \in BOOLEAN, ToReplay(w, fault) PROVE \E me : Serves(w, me)
  <2>1. PICK at \in Places \ {"idle"} : at = "replaying"
    BY DEF Places
  <2>2. Become(w, [call[w] EXCEPT !.at = at, !.fault = fault])
    BY <1>3, <2>1 DEF ToReplay
  <2> QED BY <1>1, <2>2, GotoServes
<1>4. ASSUME Goto(w, "diagnosing") PROVE \E me : Serves(w, me)
  <2>1. PICK at \in Places \ {"idle"} : at = "diagnosing"
    BY DEF Places
  <2> QED BY <1>1, <1>4, <2>1, GotoServes
<1>5. CASE Replay(w)
  <2>1. \/ IsSaved(call[w].command) /\ Answer(w, "saved")
        \/ Answer(w, "error") \/ Goto(w, "diagnosing")
    BY <1>5 DEF Replay
  <2> QED BY <1>2, <1>4, <2>1 DEF Answers
<1>6. CASE Diagnose(w) \/ ReadFails(w)
  BY <1>2, <1>6 DEF Diagnose, ReadFails, Answers
<1> QED BY <1>3, <1>5, <1>6 DEF CommitFails

LEMMA BatchSaves ==
  ASSUME ReviewInv, NEW c \in Commands, ~IsSaved(c), Decided(c) \/ Undid(c)
  PROVE  IsSaved(c)' /\ \A b \in Commands : b # c => (IsSaved(b)' <=> IsSaved(b))
<1>1. RowsOK
  BY DEF ReviewInv, LedgerInv
<1>2. CASE Decided(c)
  <2>1. PICK kind \in {"decide", "approveRun"}, rows \in SUBSET Rows : WriteDecisions(c, kind, rows)
    BY <1>2 DEF Decided
  <2>2. kind \in Kinds
    BY DEF Kinds
  <2>3. Entry(kind, rows) # NotSaved
    BY <1>1, <2>2, NewEntry
  <2>4. saved' = [saved EXCEPT ![c] = Entry(kind, rows)]
    BY <2>1 DEF WriteDecisions
  <2> QED BY <1>1, <2>3, <2>4 DEF RowsOK, IsSaved
<1>3. CASE Undid(c)
  <2>1. PICK d \in Commands : IsSaved(d) /\ UndoTargets(d) = saved[d].rows /\ WriteUndo(c, d)
    BY <1>3 DEF Undid
  <2>2. PICK kind \in Kinds : kind = "undo"
    BY DEF Kinds
  <2>3. c # d /\ saved[d] \in Entries /\ UndoTargets(d) \in SUBSET Rows
    BY <1>1, <2>1 DEF RowsOK, Entries, IsSaved
  <2> DEFINE entry == Entry("undo", UndoTargets(d))
             first == [saved EXCEPT ![c] = entry]
             left == [saved[d] EXCEPT !.undoneBy = c]
  <2>4. entry # NotSaved
    BY <1>1, <2>2, <2>3, NewEntry
  <2>5. left \in Entries
    BY <2>3, UndoneEntry
  <2>6. saved' = [first EXCEPT ![d] = [first[d] EXCEPT !.undoneBy = c]]
    BY <2>1, Zenon DEF WriteUndo
  <2> HIDE DEF entry
  <2>7. first[c] = entry /\ DOMAIN first = Commands /\ \A b \in Commands : b # c => first[b] = saved[b]
    BY <1>1 DEF RowsOK
  <2> HIDE DEF first
  <2>8. saved' = [first EXCEPT ![d] = left]
    BY <2>3, <2>6, <2>7
  <2> HIDE DEF left
  <2> QED BY <2>1, <2>3, <2>4, <2>5, <2>7, <2>8, NotSavedAssumption DEF IsSaved
<1> QED BY <1>2, <1>3

LEMMA StepInOrder ==
  ASSUME QueueInv, ReviewInv', NEW w \in Workers, Step(w), UNCHANGED task
  PROVE  QueueInv'
<1>1. call[w].at \in Serving /\ UNCHANGED request
  BY DEF Step, ReadDecide, ReadApproveRun, ReadUndone, ReadUndoRun, ReadUndoProject, Commit,
     CommitFails, Replay, Diagnose, ReadFails, Serving
<1>0. PICK c \in Commands : c = call[w].command
  BY <1>1 DEF QueueInv, ReviewInv, CallsOK, CallKeys, Serving
<1>2. /\ c = call[w].command /\ request[c].kind \in Kinds /\ ReviewInv
      /\ Admitted(c) /\ Follows(c) /\ call[w].answer # "saved"
  BY <1>0, <1>1 DEF QueueInv, ReviewInv, CallsOK, CallKeys, CallsFollow, CallFollows, Serving
<1>3. /\ \A b \in Commands : b # c => (IsSaved(b)' <=> IsSaved(b))
      /\ IsSaved(c) => IsSaved(c)'
      /\ \E me : /\ call' = [call EXCEPT ![w] = me] /\ me.at # "idle" /\ me.command = c
                 /\ me.answer = "saved" => me.at = "answered" /\ IsSaved(c)'
  <2>1. ASSUME UNCHANGED saved, \E me : Serves(w, me) PROVE <1>3
    <3>1. PICK me : Serves(w, me)
      BY <2>1
    <3>2. me.answer = "saved" => me.at = "answered" /\ IsSaved(c)'
      BY <1>2, <2>1, <3>1 DEF Serves, IsSaved
    <3> QED BY <1>2, <2>1, <3>1, <3>2 DEF Serves, IsSaved
  <2>2. ASSUME Commit(w), BatchPasses(call[w]) PROVE <1>3
    <3>0. call[w].at = "committing"
      BY <2>2 DEF Commit
    <3>1. Write(call[w]) /\ (Answer(w, "saved") \/ ToReplay(w, TRUE))
      BY <2>2 DEF Commit
    <3>2. IsSaved(c)' /\ \A b \in Commands : b # c => (IsSaved(b)' <=> IsSaved(b))
      <4>1. ~IsSaved(c) /\ (Decided(c) \/ Undid(c))
        BY <1>2, <2>2, <3>0, <3>1, CommitWrites
      <4> QED BY <1>2, <4>1, BatchSaves
    <3>3. CASE Answer(w, "saved")
      <4> DEFINE me == [Idle EXCEPT !.at = "answered", !.command = c, !.answer = "saved"]
      <4>1. PICK answer \in Answers : answer = "saved"
        BY DEF Answers
      <4>2. me.at = "answered" /\ me.command = c
        <5>1. me = [Idle EXCEPT !.at = "answered", !.command = c, !.answer = answer]
          BY <4>1
        <5> HIDE DEF me
        <5> QED BY <5>1, AnsweredRecord
      <4>3. call' = [call EXCEPT ![w] = me]
        BY <1>2, <3>3 DEF Answer, Become
      <4> HIDE DEF me
      <4> QED BY <3>2, <4>2, <4>3
    <3>4. CASE ToReplay(w, TRUE)
      <4>1. PICK me : Serves(w, me)
        BY <1>1, <1>2, <3>4, AfterReadServes
      <4>2. me.answer = "saved" => me.at = "answered" /\ IsSaved(c)'
        BY <1>2, <3>2, <4>1 DEF Serves
      <4> QED BY <1>2, <3>2, <4>1, <4>2 DEF Serves
    <3> QED BY <3>1, <3>3, <3>4
  <2>3. CASE Commit(w) /\ ~BatchPasses(call[w])
    BY <1>1, <1>2, <2>1, <2>3, AfterReadServes DEF Commit
  <2>4. CASE ReadDecide(w) \/ ReadApproveRun(w) \/ ReadUndone(w) \/ ReadUndoRun(w) \/ ReadUndoProject(w)
    <3>1. UNCHANGED saved
      BY <2>4 DEF ReadDecide, ReadApproveRun, ReadUndone, ReadUndoRun, ReadUndoProject
    <3> QED BY <1>1, <1>2, <2>1, <2>4, <3>1, ReadServes
  <2>5. CASE CommitFails(w) \/ Replay(w) \/ Diagnose(w) \/ ReadFails(w)
    <3>1. UNCHANGED saved
      BY <2>5 DEF CommitFails, Replay, Diagnose, ReadFails
    <3> QED BY <1>1, <1>2, <2>1, <2>5, <3>1, AfterReadServes
  <2> QED BY <2>2, <2>3, <2>4, <2>5 DEF Step
<1>4. \A b \in Commands : IsSaved(b) => IsSaved(b)'
  BY <1>3
<1>5. Kept /\ TasksOK'
  BY <1>1, <1>4, KeptByMoves, NoTaskMoved DEF QueueInv
<1>6. PICK me : /\ call' = [call EXCEPT ![w] = me] /\ me.at # "idle" /\ me.command = c
                /\ me.answer = "saved" => me.at = "answered" /\ IsSaved(c)'
  BY <1>3
<1>7. Admitted(c)' /\ Follows(c)'
  BY <1>2, <1>5 DEF Kept
<1>8. CallFollows(me)'
  BY <1>6, <1>7 DEF CallFollows
<1>9. CallsFollow'
  BY <1>5, <1>6, <1>8, OneCallInOrder
<1>10. SavedInOrder'
  BY <1>2, <1>3, <1>5, SavedStayInOrder
<1> QED BY <1>5, <1>9, <1>10 DEF QueueInv

-----------------------------------------------------------------------------
(* The other steps.                                                        *)
LEMMA NobodyCallsYet ==
  ASSUME QueueInv, NEW c \in Commands, request[c].kind \notin Kinds \/
           (request[c].kind # "undo" /\ task[c].state = "none")
  PROVE  ~IsSaved(c) /\ \A w \in Workers : call[w].at # "idle" => call[w].command # c
<1>1. ~Admitted(c) \/ request[c].kind \notin Kinds
  BY DEF Admitted
<1> QED BY <1>1 DEF QueueInv, SavedInOrder, CallsFollow, CallFollows, ReviewInv, CallsOK,
           CallKeys, LedgerInv, SavedAsSent, RowsOK, Entries, IsSaved

LEMMA AdmitInOrder ==
  ASSUME QueueInv, ReviewInv', NEW c \in Commands, Admit(c)
  PROVE  QueueInv'
<1>1. PICK p \in Commands \cup {None} :
        task' = [task EXCEPT ![c] = [NoTask EXCEPT !.state = "queued", !.previous = p]]
  BY DEF Admit
<1> DEFINE t1 == [NoTask EXCEPT !.state = "queued"]
           t2 == [t1 EXCEPT !.previous = p]
<1>2. NoTask \in Tasks /\ NoTask.result = "none"
  BY DEF NoTask, Tasks, States, Results
<1>3. t1 \in Tasks /\ t1.state = "queued" /\ t1.result = "none"
  BY <1>2, TaskFields DEF States
<1>4. [NoTask EXCEPT !.state = "queued", !.previous = p] = t2
  BY Zenon
<1> HIDE DEF t1
<1>5. t2 \in Tasks /\ t2.state = "queued" /\ t2.result = "none"
  BY <1>3, TaskFields
<1> HIDE DEF t2
<1>6. task'[c] = t2 /\ \A d \in Commands : d # c => task'[d] = task[d]
  BY <1>1, <1>4 DEF QueueInv, TasksOK
<1>7. task[c] = NoTask /\ request[c].kind \in {"decide", "approveRun"} /\ UNCHANGED vars
  BY DEF Admit
<1>8. TasksOK'
  <2>1. \A d \in Commands : TaskRowOK(d)'
    BY <1>5, <1>6, <1>7 DEF QueueInv, TasksOK, TaskRowOK, vars, IsSaved
  <2> QED BY <1>1, <2>1 DEF QueueInv, TasksOK
<1>9. ~IsSaved(c) /\ \A w \in Workers : call[w].at # "idle" => call[w].command # c
  <2>1. task[c].state = "none"
    BY <1>7 DEF NoTask
  <2> QED BY <1>7, <2>1, NobodyCallsYet
<1>10. \A d \in Commands : d # c =>
         (Admitted(d) => Admitted(d)') /\ (Follows(d) => Follows(d)')
  <2>1. \A b \in Commands : task[b].result = "saved" => b # c
    BY <1>2, <1>7
  <2>2. \A d \in Commands : task[d].previous \in Commands \cup {None}
    BY DEF QueueInv, TasksOK, TaskRowOK, Tasks
  <2> QED BY <1>6, <1>7, <2>1, <2>2 DEF Admitted, Follows, vars
<1>11. SavedInOrder'
  BY <1>7, <1>9, <1>10 DEF QueueInv, SavedInOrder, vars, IsSaved
<1>12. CallsFollow'
  <2> SUFFICES ASSUME NEW w \in Workers PROVE CallFollows(call[w])'
    BY DEF CallsFollow
  <2>1. CallFollows(call[w]) /\ (call[w].at # "idle" => call[w].command \in Commands)
    BY DEF QueueInv, CallsFollow, ReviewInv, CallsOK, CallKeys
  <2> QED BY <1>7, <1>9, <1>10, <2>1 DEF CallFollows, vars, IsSaved
<1> QED BY <1>8, <1>11, <1>12 DEF QueueInv

LEMMA PagesInOrder ==
  ASSUME QueueInv, ReviewInv', UNCHANGED <<task, saved, call>>,
         \A c \in Commands : request[c].kind \in Kinds => request'[c] = request[c]
  PROVE  QueueInv'
<1>1. Kept /\ TasksOK'
  BY KeptByMoves, NoTaskMoved DEF QueueInv, IsSaved
<1>2. SavedInOrder'
  BY <1>1, SavedStayInOrder DEF IsSaved
<1>3. CallsFollow'
  <2> SUFFICES ASSUME NEW w \in Workers PROVE CallFollows(call[w])'
    BY DEF CallsFollow
  <2>1. CallKeys(call[w]) /\ CallFollows(call[w]) /\ call'[w] = call[w]
    BY DEF QueueInv, ReviewInv, CallsOK, CallsFollow
  <2>2. PICK me : me = call[w]
    OBVIOUS
  <2>3. CallFollows(me)'
    BY <1>1, <2>1, <2>2, CallStaysInOrder
  <2> QED BY <2>1, <2>2, <2>3 DEF CallFollows
<1> QED BY <1>1, <1>2, <1>3 DEF QueueInv

\* A consumer goes to a place before the service, starts a call, or is done.
LEMMA AnswerInOrder ==
  ASSUME QueueInv, ReviewInv', TasksMove, UNCHANGED <<saved, request>>,
         NEW w \in Workers, call[w].at # "idle", NEW answer \in Answers, Answer(w, answer),
         answer = "saved" => IsSaved(call[w].command)
  PROVE  QueueInv'
<1> DEFINE c == call[w].command
           me == [Idle EXCEPT !.at = "answered", !.command = c, !.answer = answer]
<1>1. c \in Commands /\ request[c].kind \in Kinds /\ Admitted(c)
  BY DEF QueueInv, ReviewInv, CallsOK, CallKeys, CallsFollow, CallFollows
<1>2. me \in Calls /\ me.at = "answered" /\ me.command = c /\ me.answer = answer
  BY <1>1, AnsweredRecord
<1>3. call' = [call EXCEPT ![w] = me]
  BY DEF Answer, Become
<1> HIDE DEF me
<1>4. CallKeys(me) /\ CallFollows(me)
  BY <1>1, <1>2 DEF CallKeys, CallFollows
<1> QED BY <1>3, <1>4, QuietInOrder

LEMMA StopInOrder ==
  ASSUME QueueInv, ReviewInv', TasksMove, NEW w \in Workers, Stop(w)
  PROVE  QueueInv'
<1>1. CallFollows(Idle)
  BY DEF CallFollows, Idle
<1> QED BY <1>1, IdleKeys, QuietInOrder DEF Stop, Become

LEMMA ClaimInOrder ==
  ASSUME QueueInv, ReviewInv', NEW w \in Workers, NEW c \in Commands, Claim(w, c)
  PROVE  QueueInv'
<1> DEFINE there == [Idle EXCEPT !.at = "predecessor"]
           me == [there EXCEPT !.command = c]
<1>1. request[c].kind \in Kinds /\ Admitted(c) /\ TasksMove
  BY ClaimMoves DEF Claim, Due, QueueInv, TasksOK, TaskRowOK, Kinds, Admitted
<1>2. there \in Calls /\ there.at = "predecessor" /\ there.answer = "none"
  BY DEF Idle, Calls, Places
<1>3. [Idle EXCEPT !.at = "predecessor", !.command = c] = me
  BY Zenon
<1> HIDE DEF there
<1>4. me \in Calls /\ me.at = "predecessor" /\ me.command = c /\ me.answer = "none"
  BY <1>2 DEF Calls
<1> HIDE DEF me
<1>5. call' = [call EXCEPT ![w] = me] /\ UNCHANGED <<saved, request>>
  BY <1>3 DEF Claim, Become
<1>6. CallKeys(me) /\ CallFollows(me)
  BY <1>1, <1>4 DEF CallKeys, CallFollows
<1> QED BY <1>1, <1>5, <1>6, QuietInOrder

LEMMA GoneOnInOrder ==
  ASSUME QueueInv, ReviewInv', NEW w \in Workers, call[w].at \notin {"idle", "answered"},
         NEW at \in {"begin", "reading"}, Goto(w, at), Follows(call[w].command),
         UNCHANGED <<task, saved, request>>
  PROVE  QueueInv'
<1> DEFINE c == call[w].command
           me == [call[w] EXCEPT !.at = at]
<1>1. /\ call[w] \in Calls /\ c \in Commands /\ request[c].kind \in Kinds /\ Admitted(c)
      /\ call[w].answer # "saved" /\ at \in Places
  BY DEF QueueInv, ReviewInv, CallsOK, CallKeys, CallsFollow, CallFollows, Places
<1>2. me \in Calls /\ me.at = at /\ me.command = c /\ me.answer = call[w].answer
  BY <1>1, UpdatedCall
<1>3. call' = [call EXCEPT ![w] = me]
  BY DEF Goto, Become
<1> HIDE DEF me
<1>4. CallKeys(me) /\ CallFollows(me)
  BY <1>1, <1>2 DEF CallKeys, CallFollows
<1> QED BY <1>3, <1>4, NoTaskMoved, QuietInOrder DEF QueueInv

LEMMA BeginInOrder ==
  ASSUME QueueInv, ReviewInv', NEW w \in Workers, NEW c \in Commands, DirectUndo(w, c),
         UNCHANGED task
  PROVE  QueueInv'
<1>1. PICK at \in {"answered", "reading"}, answer \in {"saved", "none"} :
        /\ call' = [call EXCEPT ![w] = [Idle EXCEPT !.command = c, !.at = at, !.answer = answer]]
        /\ answer = "saved" => at = "answered" /\ IsSaved(c)
  BY DEF DirectUndo, Begin, Become
<1> DEFINE named == [Idle EXCEPT !.command = c]
           there == [named EXCEPT !.at = at]
           me == [there EXCEPT !.answer = answer]
<1>2. named \in Calls /\ named.command = c
  BY DEF Idle, Calls, Places
<1>3. [Idle EXCEPT !.command = c, !.at = at, !.answer = answer] = me
  BY Zenon
<1> HIDE DEF named
<1>4. there \in Calls /\ there.at = at /\ there.command = c
  BY <1>2 DEF Calls, Places
<1> HIDE DEF there
<1>5. me \in Calls /\ me.at = at /\ me.command = c /\ me.answer = answer
  BY <1>4 DEF Calls
<1> HIDE DEF me
<1>6. request[c].kind = "undo" /\ task[c] = NoTask /\ UNCHANGED <<saved, request>>
  BY DEF DirectUndo, Begin, QueueInv, TasksOK, TaskRowOK
<1>7. CallKeys(me) /\ CallFollows(me)
  BY <1>1, <1>5, <1>6 DEF CallKeys, CallFollows, Kinds, Admitted, Follows, NoTask
<1>8. call' = [call EXCEPT ![w] = me]
  BY <1>1, <1>3
<1> QED BY <1>6, <1>7, <1>8, NoTaskMoved, QuietInOrder DEF QueueInv

LEMMA ConsumerInOrder ==
  ASSUME QueueInv, ReviewInv', NEW w \in Workers,
         \/ Predecessor(w) \/ BeginQueued(w) \/ WriteReceipt(w) \/ FailAttempt(w)
         \/ ReceiptFails(w) \/ StopConsumer(w)
  PROVE  QueueInv'
<1>1. TasksOK /\ CallFollows(call[w])
  BY DEF QueueInv, CallsFollow
<1>2. CASE Predecessor(w)
  <2>1. /\ call[w].at \notin {"idle", "answered"} /\ UNCHANGED <<saved, request, task>>
        /\ Answer(w, "conflict") \/ (Goto(w, "begin") /\ Follows(call[w].command))
    BY <1>2 DEF Predecessor, Follows
  <2> QED BY <1>1, <2>1, AnswerInOrder, GoneOnInOrder, NoTaskMoved DEF Answers
<1>3. CASE BeginQueued(w)
  <2>1. /\ call[w].at \notin {"idle", "answered"} /\ UNCHANGED <<saved, request, task>>
        /\ \/ Answer(w, "saved") /\ IsSaved(call[w].command)
           \/ Goto(w, "reading") /\ Follows(call[w].command)
    BY <1>1, <1>3 DEF BeginQueued, CallFollows
  <2> QED BY <1>1, <2>1, AnswerInOrder, GoneOnInOrder, NoTaskMoved DEF Answers
<1>4. CASE WriteReceipt(w) \/ FailAttempt(w)
  BY <1>4, ReceiptMoves, StopInOrder DEF WriteReceipt, FailAttempt, Finish
<1>5. CASE ReceiptFails(w)
  BY <1>1, <1>5, AnswerInOrder, NoTaskMoved DEF ReceiptFails, Answers
<1>6. CASE StopConsumer(w)
  BY <1>1, <1>6, StopInOrder, NoTaskMoved DEF StopConsumer, Finish
<1> QED BY <1>2, <1>3, <1>4, <1>5, <1>6

LEMMA OthersInOrder ==
  ASSUME QueueInv, ReviewInv', UNCHANGED task,
         \/ Pages \/ OtherRunWrites \/ OtherPromotion \/ PromoteSettled \/ Retire
         \/ \E w \in Workers : ReturnUndo(w)
  PROVE  QueueInv'
<1>1. CASE Pages
  <2>1. PICK c \in Commands : \E content : Send(c, content)
    BY <1>1 DEF Pages, SendDecide, SendApproveRun, SendUndo
  <2>2. /\ UNCHANGED <<saved, call>>
        /\ \A d \in Commands : request[d].kind \in Kinds => request'[d] = request[d]
    BY <2>1 DEF Send, NoRequest, Kinds, QueueInv, ReviewInv, RequestsOK
  <2> QED BY <2>2, PagesInOrder
<1>2. CASE OtherRunWrites \/ OtherPromotion \/ PromoteSettled \/ Retire
  <2>1. UNCHANGED <<saved, request, call>>
    BY <1>2 DEF OtherRunWrites, OtherPromotion, PromoteSettled, Promote, Retire
  <2> QED BY <2>1, PagesInOrder
<1>3. ASSUME NEW w \in Workers, ReturnUndo(w) PROVE QueueInv'
  BY <1>3, StopInOrder, NoTaskMoved DEF ReturnUndo, Return, Crash, QueueInv
<1> QED BY <1>1, <1>2, <1>3

LEMMA QueueStepKeeps == QueueInv /\ [QueueNext]_queueVars => QueueInv'
<1> SUFFICES ASSUME QueueInv, [QueueNext]_queueVars PROVE QueueInv'
  OBVIOUS
<1>1. ReviewInv'
  BY QueueKeepsReview
<1>2. ASSUME NEW c \in Commands, Admit(c) PROVE QueueInv'
  BY <1>1, <1>2, AdmitInOrder
<1>3. ASSUME NEW c \in Commands, GiveUp(c) \/ LeaseEnds(c) PROVE QueueInv'
  <2>1. TasksMove /\ UNCHANGED vars
    BY <1>3, LeaseMoves DEF GiveUp, LeaseEnds, QueueInv
  <2>2. Kept /\ TasksOK'
    BY <2>1, KeptByMoves DEF vars, IsSaved
  <2>3. SavedInOrder'
    BY <2>1, <2>2, SavedStayInOrder DEF vars, IsSaved
  <2>4. CallsFollow'
    <3> SUFFICES ASSUME NEW w \in Workers PROVE CallFollows(call[w])'
      BY DEF CallsFollow
    <3>1. CallKeys(call[w]) /\ CallFollows(call[w]) /\ call'[w] = call[w]
      BY <2>1 DEF QueueInv, ReviewInv, CallsOK, CallsFollow, vars
    <3>2. PICK me : me = call[w]
      OBVIOUS
    <3>3. CallFollows(me)'
      BY <2>2, <3>1, <3>2, CallStaysInOrder
    <3> QED BY <3>1, <3>2, <3>3 DEF CallFollows
  <2> QED BY <1>1, <2>2, <2>3, <2>4 DEF QueueInv
<1>4. ASSUME NEW w \in Workers, Consume(w) \/ ReceiptFails(w) \/ StopConsumer(w) PROVE QueueInv'
  BY <1>1, <1>4, ClaimInOrder, ConsumerInOrder, StepInOrder DEF Consume
<1>5. ASSUME UNCHANGED task, NEW w \in Workers, NEW c \in Commands, DirectUndo(w, c) PROVE QueueInv'
  BY <1>1, <1>5, BeginInOrder
<1>6. ASSUME UNCHANGED task,
             \/ Pages \/ OtherRunWrites \/ OtherPromotion \/ PromoteSettled \/ Retire
             \/ \E w \in Workers : ReturnUndo(w)
      PROVE  QueueInv'
  BY <1>1, <1>6, OthersInOrder
<1>7. CASE UNCHANGED queueVars
  BY <1>1, <1>7, PagesInOrder DEF queueVars, vars
<1> QED BY <1>2, <1>3, <1>4, <1>5, <1>6, <1>7 DEF QueueNext

LEMMA QueueInitHolds == QueueInit => QueueInv
<1> SUFFICES ASSUME QueueInit PROVE QueueInv
  OBVIOUS
<1>1. ReviewInv
  BY InitHolds DEF QueueInit
<1>2. NoTask \in Tasks
  BY DEF NoTask, Tasks, States, Results
<1>3. TasksOK /\ SavedInOrder
  BY <1>2 DEF QueueInit, Init, TasksOK, TaskRowOK, NoTask, SavedInOrder, IsSaved
<1>4. CallsFollow
  BY DEF QueueInit, Init, CallsFollow, CallFollows, Idle
<1> QED BY <1>1, <1>3, <1>4 DEF QueueInv

-----------------------------------------------------------------------------
(* The inductive invariant of the queue: a consumer that calls the service *)
(* has seen the receipt of the decision before, and every receipt is true. *)
THEOREM QueueInvariantHolds == QueueSpec => []QueueInv
  BY QueueInitHolds, QueueStepKeeps, PTL DEF QueueSpec

(* Whatever leases end and consumers stop or run twice, a decision is      *)
(* saved only after the one its page made before it (InPageOrder).         *)
THEOREM PageOrder == QueueSpec => []InPageOrder
<1>1. QueueInv => InPageOrder
  <2> SUFFICES ASSUME QueueInv, NEW c \in Commands, IsSaved(c), task[c].previous # None
               PROVE  IsSaved(task[c].previous) /\ task[task[c].previous].result = "saved"
    BY DEF InPageOrder
  <2>1. task[task[c].previous].result = "saved" /\ task[c].previous \in Commands
    BY DEF QueueInv, SavedInOrder, Follows, TasksOK, TaskRowOK, Tasks
  <2> QED BY <2>1 DEF QueueInv, TasksOK, TaskRowOK
<1> QED BY <1>1, QueueInvariantHolds, PTL

(* Two consumers with one task, or a consumer and a page, never apply one  *)
(* decision twice (EachCommandOnce), and the rows of a promoted comparison *)
(* stay accepted (PromotedIsAccepted).                                     *)
THEOREM QueuedOnce == QueueSpec => [](EachCommandOnce /\ PromotedIsAccepted)
<1>1. QueueInv => EachCommandOnce /\ PromotedIsAccepted
  BY DEF QueueInv, ReviewInv, LedgerInv
<1> QED BY <1>1, QueueInvariantHolds, PTL

-----------------------------------------------------------------------------
(* A step of the queue is one of the service or of the pages, or it        *)
(* changes nothing that the ledger shows.                                  *)
LEMMA QueueSteps ==
  ASSUME [QueueNext]_queueVars
  PROVE  [Next]_vars \/ UNCHANGED <<runVars, rowVars, saved>>
<1>1. CASE UNCHANGED queueVars
  BY <1>1 DEF queueVars
<1>2. ASSUME NEW c \in Commands, Admit(c) \/ GiveUp(c) \/ LeaseEnds(c) PROVE UNCHANGED vars
  BY <1>2 DEF Admit, GiveUp, LeaseEnds
<1>3. ASSUME NEW w \in Workers,
             \/ \E c \in Commands : Claim(w, c)
             \/ Predecessor(w) \/ BeginQueued(w) \/ WriteReceipt(w) \/ FailAttempt(w)
             \/ ReceiptFails(w) \/ StopConsumer(w)
      PROVE  UNCHANGED <<runVars, rowVars, saved>>
  BY <1>3 DEF Claim, Predecessor, BeginQueued, WriteReceipt, FailAttempt, ReceiptFails,
     StopConsumer, Finish, Stop
<1>4. ASSUME NEW w \in Workers, Step(w) \/ ReturnUndo(w) PROVE Next
  BY <1>4 DEF Next, ReturnUndo
<1>5. CASE \/ Pages \/ OtherRunWrites \/ OtherPromotion \/ PromoteSettled \/ Retire
           \/ \E w \in Workers, c \in Commands : DirectUndo(w, c)
  BY <1>5 DEF Next, Others, PromoteSettled, DirectUndo
<1> QED BY <1>1, <1>2, <1>3, <1>4, <1>5 DEF QueueNext, Consume

(* The decisions of a queue with any number of consumers are the entries   *)
(* of one ledger too (ImplementsLedger).                                   *)
THEOREM QueueImplementsLedger == QueueSpec => ImplementsLedger
<1>1. QueueInit => Ledger!Init
  BY DEF QueueInit, Init, Ledger!Init, IsSaved, Reviewable
<1>2. QueueInv /\ [QueueNext]_queueVars => [Ledger!Next]_(Ledger!vars)
  <2> SUFFICES ASSUME QueueInv, [QueueNext]_queueVars PROVE [Ledger!Next]_(Ledger!vars)
    OBVIOUS
  <2>1. CASE [Next]_vars
    BY <2>1, LedgerStep DEF QueueInv
  <2>2. CASE UNCHANGED <<runVars, rowVars, saved>>
    BY <2>2 DEF Ledger!vars, runVars, rowVars, Reviewable, IsSaved
  <2> QED BY <2>1, <2>2, QueueSteps
<1> QED BY <1>1, <1>2, QueueInvariantHolds, PTL DEF QueueSpec, ImplementsLedger, Ledger!Spec

=============================================================================
