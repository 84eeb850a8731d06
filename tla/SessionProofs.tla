---------------------------- MODULE SessionProofs ----------------------------
(***************************************************************************)
(* Proofs about ReviewSession, for any screenshots, any number of          *)
(* decisions of the page and of others, and any faults: the model of the   *)
(* page is one the run had; what it shows is not behind that model; a page *)
(* that says saved is not behind a receipt; what it reported as not saved  *)
(* is not saved later; and a page that is alone is never refused.          *)
(*                                                                         *)
(* What the page shows is a recursive function over the decisions that     *)
(* wait, which are any number.  Where a fact goes from one of them to the  *)
(* next, the proof takes the first one for which it would not hold.        *)
(***************************************************************************)
EXTENDS ReviewSession, SequenceTheorems, WellFoundedInduction, TLAPS

IsSequence(s) == \E S : s \in Seq(S)

\* The rows at the revisions that were stay.
Extends(old, new) ==
  Len(old) <= Len(new) /\ \A i \in 1..Len(old) : new[i] = old[i]

\* A model that the run had, at its revision or, row by row, later.
Had(rows, m) ==
  /\ m.at \in 0..(Len(rows) - 1)
  /\ \A s \in Shots : \E r \in m.at..(Len(rows) - 1) : m.rows[s] = rows[r + 1][s]

Ended(t) == t.state \in {"refused", "dead"}

\* A receipt names what its decision wrote; the other rows stayed.
ReceiptIn(t, verdict, rows) ==
  /\ t.runRevision \in 1..(Len(rows) - 1)
  /\ \A s \in Shots :
       rows[t.runRevision + 1][s] =
         IF s \in DOMAIN t.revisions
           THEN [revision |-> t.revisions[s], verdict |-> verdict]
           ELSE rows[t.runRevision][s]

TaskIn(t, c, rows) ==
  /\ t.state \in {"none", "queued", "saved", "refused", "dead"}
  /\ t # NoTask => t.state # "none" /\ c # NoTask
  /\ t.state = "saved" => ReceiptIn(t, c.verdict, rows)

TasksIn(tasks, commands, rows) ==
  \A d \in Decisions : TaskIn(tasks[d], commands[d], rows)

EntryIn(e, tasks, commands, rows) ==
  /\ e.id \in Decisions /\ commands[e.id] # NoTask
  /\ e.at = "waiting" => tasks[e.id].state # "none"
  /\ e.at = "admission" => Ended(tasks[e.id])
  /\ e.at = "saved" =>
       tasks[e.id].state = "saved" /\ e.currentRunRevision \in 0..(Len(rows) - 1)
  /\ e.at = "conflict" => Ended(tasks[e.id]) /\ Had(rows, e.model)

\* Each decision of a queue names the one before it, and is not saved before
\* any that precedes it.
QueueIn(q, tasks, commands, rows) ==
  /\ IsSequence(q)
  /\ \A i \in 1..Len(q) : EntryIn(q[i], tasks, commands, rows)
  /\ \A i \in 2..Len(q) : commands[q[i].id].previous = q[i - 1].id
  /\ \A j \in 1..Len(q) : \A i \in 1..j - 1 :
       tasks[q[j].id].state = "saved" => tasks[q[i].id].state = "saved"

\* A read that confirms the loop or an Undo began after the receipts before.
ReadIn(k, x, rows, newest) ==
  /\ x.at = "run" => /\ x.revision \in 0..(Len(rows) - 1)
                     /\ k \in {"loop", "undo"} => x.revision >= newest
  /\ x.at = "answered" => /\ Had(rows, x.model)
                          /\ k \in {"loop", "undo"} => x.model.at >= newest

ReadsIn(reads_, rows, newest) == \A k \in Readers : ReadIn(k, reads_[k], rows, newest)

\* What was reported as not saved was refused, or follows what was.
NotSavedIn(reported, tasks, commands) ==
  \A d \in reported :
    /\ d \in Decisions /\ commands[d] # NoTask /\ tasks[d].state # "saved"
    /\ Ended(tasks[d]) \/ commands[d].previous \in reported

Held(q) == \A i \in 1..Len(q) : q[i].at = "held"

\* The loop over the queue, a manual read and an Undo exclude each other, and
\* an error stops the queue.
ModeOK ==
  /\ status \in {"idle", "saving", "saved", "error", "conflict"}
  /\ status \in {"idle", "saved", "conflict"} => queue = <<>>
  /\ read["manual"] = NoRead => held = <<>>
  /\ read["manual"] # NoRead => status = "saving" /\ queue = <<>> /\ read["undo"] = NoRead
  /\ read["undo"] # NoRead => status = "saving" /\ queue = <<>>
  /\ undoing # NoDecision => status \in {"saving", "error"} /\ queue = <<>> /\ held = <<>>
  /\ read["loop"] # NoRead => status = "saving" /\ Is(1, {"confirming"})
  /\ status = "error" => Held(queue)
  /\ Held(held)

ServiceOK ==
  /\ IsSequence(rowsAt) /\ Len(rowsAt) >= 1
  /\ DOMAIN task = Decisions /\ DOMAIN command = Decisions /\ DOMAIN read = Readers
  /\ TasksIn(task, command, rowsAt)
  /\ \A d \in late : d \in Decisions /\ command[d] # NoTask

SessionInv ==
  /\ ServiceOK /\ Had(rowsAt, page) /\ Had(rowsAt, currentModel)
  /\ QueueIn(queue, task, command, rowsAt) /\ QueueIn(held, task, command, rowsAt)
  /\ newestRunRevision \in 0..Now /\ ReadsIn(read, rowsAt, newestRunRevision)
  /\ ModeOK /\ SavedIsNewest /\ NotSavedIn(notSaved, task, command)

-----------------------------------------------------------------------------
(* Sequences.                                                              *)
LEMMA SequenceFacts ==
  ASSUME NEW s, IsSequence(s)
  PROVE  /\ Len(s) \in Nat /\ DOMAIN s = 1..Len(s)
         /\ (s = <<>>) = (Len(s) = 0)
<1>1. PICK S : s \in Seq(S)
  BY DEF IsSequence
<1> QED BY <1>1, EmptySeq, LenProperties

LEMMA AppendFacts ==
  ASSUME NEW s, IsSequence(s), NEW e
  PROVE  /\ IsSequence(Append(s, e)) /\ Len(Append(s, e)) = Len(s) + 1
         /\ \A i \in 1..Len(s) : Append(s, e)[i] = s[i]
         /\ Append(s, e)[Len(s) + 1] = e
<1>1. PICK S : s \in Seq(S)
  BY DEF IsSequence
<1> DEFINE T == S \cup {e}
<1>2. s \in Seq(T) /\ e \in T
  BY <1>1, SeqMonotonic, Zenon
<1>3. Append(s, e) \in Seq(T)
  BY <1>2
<1> QED BY <1>2, <1>3 DEF IsSequence

\* A sequence is any function over as many positions.
LEMMA FunctionIsSequence ==
  ASSUME NEW n \in Nat, NEW f, f = [i \in 1..n |-> f[i]]
  PROVE  IsSequence(f) /\ Len(f) = n
<1> DEFINE S == {f[i] : i \in 1..n}
<1>1. f \in [1..n -> S]
  BY Zenon
<1>2. f \in Seq(S)
  BY <1>1, SeqDef
<1>3. DOMAIN f = 1..n
  BY <1>1
<1>4. DOMAIN f = 1..Len(f) /\ Len(f) \in Nat
  BY <1>2, LenProperties
<1> HIDE DEF S
<1> QED BY <1>2, <1>3, <1>4 DEF IsSequence

LEMMA TailFacts ==
  ASSUME NEW s, IsSequence(s), Len(s) >= 1
  PROVE  /\ IsSequence(Tail(s)) /\ Len(Tail(s)) = Len(s) - 1
         /\ \A i \in 1..Len(s) - 1 : Tail(s)[i] = s[i + 1]
<1>1. PICK S : s \in Seq(S)
  BY DEF IsSequence
<1>2. s # <<>>
  BY SequenceFacts
<1> QED BY <1>1, <1>2, HeadTailProperties DEF IsSequence

-----------------------------------------------------------------------------
(* What stays when the service goes on.                                    *)
LEMMA HadStays ==
  ASSUME NEW old, NEW new, IsSequence(old), IsSequence(new), Extends(old, new),
         NEW m, Had(old, m)
  PROVE  Had(new, m)
<1>1. Len(old) \in Nat /\ Len(new) \in Nat /\ Len(old) <= Len(new)
  BY SequenceFacts DEF Extends
<1>2. m.at \in 0..(Len(new) - 1)
  BY <1>1 DEF Had
<1>3. ASSUME NEW s \in Shots
      PROVE  \E r \in m.at..(Len(new) - 1) : m.rows[s] = new[r + 1][s]
  <2>1. PICK r \in m.at..(Len(old) - 1) : m.rows[s] = old[r + 1][s]
    BY DEF Had
  <2>2. m.at \in 0..(Len(old) - 1)
    BY DEF Had
  <2>3. r + 1 \in 1..Len(old) /\ r \in m.at..(Len(new) - 1)
    BY <1>1, <2>2
  <2>4. new[r + 1] = old[r + 1]
    BY <2>3 DEF Extends
  <2> QED BY <2>1, <2>3, <2>4
<1> QED BY <1>2, <1>3 DEF Had

LEMMA ReceiptStays ==
  ASSUME NEW old, NEW new, IsSequence(old), IsSequence(new), Extends(old, new),
         NEW t, NEW verdict, ReceiptIn(t, verdict, old)
  PROVE  ReceiptIn(t, verdict, new)
<1>1. Len(old) \in Nat /\ Len(new) \in Nat /\ Len(old) <= Len(new)
  BY SequenceFacts DEF Extends
<1>2. t.runRevision \in 1..(Len(old) - 1)
  BY DEF ReceiptIn
<1>3. t.runRevision + 1 \in 1..Len(old) /\ t.runRevision \in 1..Len(old)
      /\ t.runRevision \in 1..(Len(new) - 1)
  BY <1>1, <1>2
<1>4. new[t.runRevision + 1] = old[t.runRevision + 1] /\ new[t.runRevision] = old[t.runRevision]
  BY <1>3 DEF Extends
<1> QED BY <1>3, <1>4 DEF ReceiptIn

\* What a step does with the tasks and the commands.
Moves(tasks, next, commands) ==
  \A d \in Decisions :
    /\ tasks[d].state \notin {"none", "queued"} => next[d] = tasks[d]
    /\ tasks[d].state # "none" => next[d].state # "none"
    /\ next[d].state = "saved" /\ tasks[d].state # "saved" =>
         /\ ~Ended(tasks[d])
         /\ commands[d].previous # NoDecision => tasks[commands[d].previous].state = "saved"

Keeps(commands, next) == \A d \in Decisions : commands[d] # NoTask => next[d] = commands[d]

LEMMA EntryStays ==
  ASSUME NEW old, NEW new, IsSequence(old), IsSequence(new), Extends(old, new),
         NEW tasks, NEW tasksN, NEW commands, NEW commandsN,
         Moves(tasks, tasksN, commands), Keeps(commands, commandsN),
         NEW e, EntryIn(e, tasks, commands, old)
  PROVE  EntryIn(e, tasksN, commandsN, new)
<1>1. e.id \in Decisions /\ commandsN[e.id] # NoTask
  BY DEF EntryIn, Keeps
<1>2. e.at = "waiting" => tasksN[e.id].state # "none"
  BY <1>1 DEF EntryIn, Moves
<1>3. Ended(tasks[e.id]) => Ended(tasksN[e.id])
  BY <1>1 DEF Ended, Moves
<1>4. Len(old) \in Nat /\ Len(new) \in Nat /\ Len(old) <= Len(new)
  BY SequenceFacts DEF Extends
<1>5. e.at = "saved" => tasksN[e.id].state = "saved"
  BY <1>1 DEF EntryIn, Moves
<1>6. e.at = "saved" => e.currentRunRevision \in 0..(Len(new) - 1)
  BY <1>4 DEF EntryIn
<1>7. e.at = "conflict" => Had(new, e.model)
  BY HadStays DEF EntryIn
<1> QED BY <1>1, <1>2, <1>3, <1>5, <1>6, <1>7 DEF EntryIn

LEMMA QueueStays ==
  ASSUME SessionAssumption,
         NEW old, NEW new, IsSequence(old), IsSequence(new), Extends(old, new),
         NEW tasks, NEW tasksN, NEW commands, NEW commandsN,
         Moves(tasks, tasksN, commands), Keeps(commands, commandsN),
         NEW q, QueueIn(q, tasks, commands, old)
  PROVE  QueueIn(q, tasksN, commandsN, new)
<1>1. Len(q) \in Nat
  BY SequenceFacts DEF QueueIn
<1>2. \A i \in 1..Len(q) : q[i].id \in Decisions /\ commands[q[i].id] # NoTask
  BY DEF QueueIn, EntryIn
<1>3. \A i \in 1..Len(q) : EntryIn(q[i], tasksN, commandsN, new)
  BY EntryStays DEF QueueIn
<1>4. \A i \in 2..Len(q) : commandsN[q[i].id].previous = q[i - 1].id
  BY <1>1, <1>2 DEF QueueIn, Keeps
<1>5. ASSUME NEW j \in 1..Len(q), NEW i \in 1..j - 1, tasksN[q[j].id].state = "saved"
      PROVE  tasksN[q[i].id].state = "saved"
  <2>1. i \in 1..Len(q) /\ j \in 2..Len(q) /\ j - 1 \in 1..Len(q)
    BY <1>1
  <2>2. q[i].id \in Decisions /\ q[j].id \in Decisions /\ q[j - 1].id \in Decisions
    BY <1>2, <2>1
  <2>3. tasks[q[i].id].state = "saved" => tasksN[q[i].id].state = "saved"
    BY <2>2 DEF Moves
  <2>4. CASE tasks[q[j].id].state = "saved"
    BY <2>3, <2>4 DEF QueueIn
  <2>5. CASE tasks[q[j].id].state # "saved"
    <3>1. commands[q[j].id].previous = q[j - 1].id /\ q[j - 1].id # NoDecision
      BY <2>1, <2>2 DEF QueueIn, SessionAssumption
    <3>2. tasks[q[j - 1].id].state = "saved"
      BY <1>5, <2>2, <2>5, <3>1 DEF Moves
    <3>3. CASE i = j - 1
      BY <2>3, <3>2, <3>3
    <3>4. CASE i # j - 1
      <4>1. i \in 1..(j - 1) - 1
        BY <2>1, <3>4
      <4> QED BY <2>1, <2>3, <3>2, <4>1 DEF QueueIn
    <3> QED BY <3>3, <3>4
  <2> QED BY <2>4, <2>5
<1> QED BY <1>3, <1>4, <1>5 DEF QueueIn

LEMMA ReadsStay ==
  ASSUME NEW old, NEW new, IsSequence(old), IsSequence(new), Extends(old, new),
         NEW reads_, NEW newest, ReadsIn(reads_, old, newest)
  PROVE  ReadsIn(reads_, new, newest)
<1>1. Len(old) \in Nat /\ Len(new) \in Nat /\ Len(old) <= Len(new)
  BY SequenceFacts DEF Extends
<1>2. ASSUME NEW k \in Readers
      PROVE  ReadIn(k, reads_[k], new, newest)
  <2>1. ReadIn(k, reads_[k], old, newest)
    BY DEF ReadsIn
  <2>2. reads_[k].at = "run" => reads_[k].revision \in 0..(Len(new) - 1)
    BY <1>1, <2>1 DEF ReadIn
  <2>3. reads_[k].at = "answered" => Had(new, reads_[k].model)
    BY <2>1, HadStays DEF ReadIn
  <2> QED BY <2>1, <2>2, <2>3 DEF ReadIn
<1> QED BY <1>2 DEF ReadsIn

LEMMA NotSavedStays ==
  ASSUME SessionAssumption, NEW tasks, NEW tasksN, NEW commands, NEW commandsN,
         Moves(tasks, tasksN, commands), Keeps(commands, commandsN),
         NEW reported, NotSavedIn(reported, tasks, commands)
  PROVE  NotSavedIn(reported, tasksN, commandsN)
<1> SUFFICES ASSUME NEW d \in reported
             PROVE  /\ d \in Decisions /\ commandsN[d] # NoTask /\ tasksN[d].state # "saved"
                    /\ Ended(tasksN[d]) \/ commandsN[d].previous \in reported
  BY DEF NotSavedIn
<1>1. d \in Decisions /\ commands[d] # NoTask /\ tasks[d].state # "saved"
      /\ (Ended(tasks[d]) \/ commands[d].previous \in reported)
  BY DEF NotSavedIn
<1>2. commandsN[d] = commands[d]
  BY <1>1 DEF Keeps
<1>3. Ended(tasks[d]) => tasksN[d] = tasks[d]
  BY <1>1 DEF Moves, Ended
<1>4. tasksN[d].state # "saved"
  <2>1. SUFFICES ASSUME tasksN[d].state = "saved" PROVE FALSE
    OBVIOUS
  <2>2. ~Ended(tasks[d]) /\ (commands[d].previous # NoDecision => tasks[commands[d].previous].state = "saved")
    BY <1>1, <2>1 DEF Moves
  <2>3. commands[d].previous \in reported
    BY <1>1, <2>2
  <2>4. commands[d].previous \in Decisions /\ tasks[commands[d].previous].state # "saved"
    BY <2>3 DEF NotSavedIn
  <2> QED BY <2>2, <2>4 DEF SessionAssumption
<1> QED BY <1>1, <1>2, <1>3, <1>4

-----------------------------------------------------------------------------
(* The steps of a queue.                                                   *)
LEMMA EmptyQueue ==
  ASSUME NEW tasks, NEW commands, NEW rows
  PROVE  QueueIn(<<>>, tasks, commands, rows)
<1>1. IsSequence(<<>>) /\ Len(<<>>) = 0
  BY EmptySeq DEF IsSequence
<1> QED BY <1>1 DEF QueueIn

\* The entries change their places, and the decisions stay.
LEMMA QueueRenewed ==
  ASSUME NEW tasks, NEW commands, NEW rows, NEW q, QueueIn(q, tasks, commands, rows),
         NEW p, p = [i \in 1..Len(q) |-> p[i]],
         \A i \in 1..Len(q) : p[i].id = q[i].id /\ EntryIn(p[i], tasks, commands, rows)
  PROVE  QueueIn(p, tasks, commands, rows) /\ Len(p) = Len(q)
<1>1. Len(q) \in Nat
  BY SequenceFacts DEF QueueIn
<1>2. IsSequence(p) /\ Len(p) = Len(q)
  BY <1>1, FunctionIsSequence
<1>3. \A i \in 2..Len(p) : commands[p[i].id].previous = p[i - 1].id
  <2> SUFFICES ASSUME NEW i \in 2..Len(p)
               PROVE  commands[p[i].id].previous = p[i - 1].id
    OBVIOUS
  <2>1. i \in 1..Len(q) /\ i - 1 \in 1..Len(q) /\ i \in 2..Len(q)
    BY <1>1, <1>2
  <2> QED BY <2>1 DEF QueueIn
<1>4. ASSUME NEW j \in 1..Len(p), NEW i \in 1..j - 1, tasks[p[j].id].state = "saved"
      PROVE  tasks[p[i].id].state = "saved"
  <2>1. i \in 1..Len(q) /\ j \in 1..Len(q)
    BY <1>1, <1>2
  <2> QED BY <1>4, <2>1 DEF QueueIn
<1> QED BY <1>2, <1>3, <1>4 DEF QueueIn

LEMMA QueueSet ==
  ASSUME NEW tasks, NEW commands, NEW rows, NEW q, QueueIn(q, tasks, commands, rows),
         NEW i \in 1..Len(q), NEW e, e.id = q[i].id, EntryIn(e, tasks, commands, rows)
  PROVE  QueueIn([q EXCEPT ![i] = e], tasks, commands, rows)
<1> DEFINE p == [q EXCEPT ![i] = e]
<1>1. IsSequence(q) /\ DOMAIN q = 1..Len(q)
  BY SequenceFacts DEF QueueIn
<1>2. p = [j \in 1..Len(q) |-> p[j]]
  BY <1>1
<1>3. p[i] = e /\ \A j \in 1..Len(q) : j # i => p[j] = q[j]
  BY <1>1
<1> HIDE DEF p
<1>4. \A j \in 1..Len(q) : p[j].id = q[j].id /\ EntryIn(p[j], tasks, commands, rows)
  BY <1>3 DEF QueueIn
<1>5. QueueIn(p, tasks, commands, rows)
  BY <1>2, <1>4, QueueRenewed
<1> QED BY <1>5 DEF p

LEMMA QueueAdded ==
  ASSUME NEW tasks, NEW commands, NEW rows, NEW q, QueueIn(q, tasks, commands, rows),
         NEW e, EntryIn(e, tasks, commands, rows), tasks[e.id].state # "saved",
         q # <<>> => commands[e.id].previous = q[Len(q)].id
  PROVE  QueueIn(Append(q, e), tasks, commands, rows) /\ Len(Append(q, e)) = Len(q) + 1
<1> DEFINE p == Append(q, e)
<1>1. IsSequence(q) /\ Len(q) \in Nat /\ (q = <<>>) = (Len(q) = 0)
  BY SequenceFacts DEF QueueIn
<1>2. /\ IsSequence(p) /\ Len(p) = Len(q) + 1 /\ p[Len(q) + 1] = e
      /\ \A i \in 1..Len(q) : p[i] = q[i]
  BY <1>1, AppendFacts
<1> HIDE DEF p
<1>3. ASSUME NEW i \in 1..Len(p)
      PROVE  EntryIn(p[i], tasks, commands, rows)
  <2>1. i \in 1..Len(q) \/ i = Len(q) + 1
    BY <1>1, <1>2
  <2> QED BY <1>2, <2>1 DEF QueueIn
<1>4. ASSUME NEW i \in 2..Len(p)
      PROVE  commands[p[i].id].previous = p[i - 1].id
  <2>1. CASE i \in 2..Len(q)
    <3>1. i \in 1..Len(q) /\ i - 1 \in 1..Len(q)
      BY <1>1, <2>1
    <3> QED BY <1>2, <2>1, <3>1 DEF QueueIn
  <2>2. CASE i = Len(q) + 1
    <3>1. i - 1 = Len(q) /\ Len(q) \in 1..Len(q)
      BY <1>1, <2>2
    <3> QED BY <1>1, <1>2, <2>2, <3>1
  <2>3. i \in 2..Len(q) \/ i = Len(q) + 1
    BY <1>1, <1>2
  <2> QED BY <2>1, <2>2, <2>3
<1>5. ASSUME NEW j \in 1..Len(p), NEW i \in 1..j - 1, tasks[p[j].id].state = "saved"
      PROVE  tasks[p[i].id].state = "saved"
  <2>1. j # Len(q) + 1
    BY <1>2, <1>5
  <2>2. j \in 1..Len(q) /\ i \in 1..Len(q)
    BY <1>1, <1>2, <2>1
  <2> QED BY <1>2, <1>5, <2>2 DEF QueueIn
<1>6. QueueIn(p, tasks, commands, rows)
  BY <1>2, <1>3, <1>4, <1>5 DEF QueueIn
<1> QED BY <1>2, <1>6 DEF p

LEMMA QueueWithoutHead ==
  ASSUME NEW tasks, NEW commands, NEW rows, NEW q, QueueIn(q, tasks, commands, rows),
         Len(q) >= 1
  PROVE  QueueIn(Tail(q), tasks, commands, rows) /\ Len(Tail(q)) = Len(q) - 1
<1> DEFINE p == Tail(q)
<1>1. IsSequence(q) /\ Len(q) \in Nat
  BY SequenceFacts DEF QueueIn
<1>2. IsSequence(p) /\ Len(p) = Len(q) - 1 /\ \A i \in 1..Len(q) - 1 : p[i] = q[i + 1]
  BY <1>1, TailFacts
<1> HIDE DEF p
<1>3. \A i \in 1..Len(p) : i + 1 \in 1..Len(q) /\ p[i] = q[i + 1]
  BY <1>1, <1>2
<1>4. \A i \in 1..Len(p) : EntryIn(p[i], tasks, commands, rows)
  BY <1>3 DEF QueueIn
<1>5. ASSUME NEW i \in 2..Len(p)
      PROVE  commands[p[i].id].previous = p[i - 1].id
  <2>1. i \in 1..Len(p) /\ i - 1 \in 1..Len(p) /\ i + 1 \in 2..Len(q) /\ (i - 1) + 1 = (i + 1) - 1
    BY <1>1, <1>2
  <2> QED BY <1>3, <2>1 DEF QueueIn
<1>6. ASSUME NEW j \in 1..Len(p), NEW i \in 1..j - 1, tasks[p[j].id].state = "saved"
      PROVE  tasks[p[i].id].state = "saved"
  <2>1. i \in 1..Len(p) /\ j + 1 \in 1..Len(q) /\ i + 1 \in 1..(j + 1) - 1
    BY <1>1, <1>2
  <2> QED BY <1>3, <1>6, <2>1 DEF QueueIn
<1>7. QueueIn(p, tasks, commands, rows)
  BY <1>2, <1>4, <1>5, <1>6 DEF QueueIn
<1> QED BY <1>2, <1>7 DEF p

-----------------------------------------------------------------------------
(* A step of the service.                                                  *)
Advances ==
  /\ IsSequence(rowsAt') /\ Extends(rowsAt, rowsAt')
  /\ Moves(task, task', command) /\ Keeps(command, command')

LEMMA StateStays ==
  ASSUME SessionAssumption, SessionInv, Advances
  PROVE  /\ Len(rowsAt') >= 1 /\ newestRunRevision \in 0..(Len(rowsAt') - 1)
         /\ Had(rowsAt', page) /\ Had(rowsAt', currentModel)
         /\ QueueIn(queue, task', command', rowsAt') /\ QueueIn(held, task', command', rowsAt')
         /\ ReadsIn(read, rowsAt', newestRunRevision) /\ NotSavedIn(notSaved, task', command')
         /\ \A d \in late : d \in Decisions /\ command'[d] # NoTask
<1>1. IsSequence(rowsAt) /\ IsSequence(rowsAt') /\ Extends(rowsAt, rowsAt')
  BY DEF Advances, SessionInv, ServiceOK
<1>2. Moves(task, task', command) /\ Keeps(command, command')
  BY DEF Advances
<1>3. Len(rowsAt) \in Nat /\ Len(rowsAt') \in Nat /\ Len(rowsAt) <= Len(rowsAt')
  BY <1>1, SequenceFacts DEF Extends
<1>4. Len(rowsAt') >= 1 /\ newestRunRevision \in 0..(Len(rowsAt') - 1)
  BY <1>3 DEF SessionInv, ServiceOK, Now
<1>5. Had(rowsAt', page) /\ Had(rowsAt', currentModel)
  BY <1>1, HadStays DEF SessionInv
<1>6. QueueIn(queue, task', command', rowsAt') /\ QueueIn(held, task', command', rowsAt')
  BY <1>1, <1>2, QueueStays DEF SessionInv
<1>7. ReadsIn(read, rowsAt', newestRunRevision)
  BY <1>1, ReadsStay DEF SessionInv
<1>8. NotSavedIn(notSaved, task', command')
  BY <1>2, NotSavedStays DEF SessionInv
<1>9. \A d \in late : d \in Decisions /\ command'[d] # NoTask
  BY <1>2 DEF SessionInv, ServiceOK, Keeps
<1> QED BY <1>4, <1>5, <1>6, <1>7, <1>8, <1>9

LEMMA TaskStays ==
  ASSUME NEW old, NEW new, IsSequence(old), IsSequence(new), Extends(old, new),
         NEW t, NEW c, TaskIn(t, c, old)
  PROVE  TaskIn(t, c, new)
  BY ReceiptStays DEF TaskIn

LEMMA ServiceKeeps ==
  ASSUME SessionAssumption, SessionInv, Advances, TasksIn(task', command', rowsAt'),
         DOMAIN task' = Decisions, UNCHANGED <<pageVars, read>>, late' \subseteq late
  PROVE  SessionInv'
<1>1. UNCHANGED <<command, page, queue, held, status, currentModel, newestRunRevision,
                  history, undoing, notSaved, read>>
  BY DEF pageVars, loopVars, undoVars
<1>2. ServiceOK'
  BY <1>1, StateStays DEF SessionInv, ServiceOK, Advances
<1>3. ModeOK' /\ SavedIsNewest'
  BY <1>1 DEF SessionInv, ModeOK, SavedIsNewest, Is, Held
<1> QED BY <1>1, <1>2, <1>3, StateStays DEF SessionInv, Now

LEMMA RewrittenFacts ==
  ASSUME IsSequence(rowsAt), Len(rowsAt) >= 1, NEW shots, NEW verdict,
         rowsAt' = Rewritten(shots, verdict)
  PROVE  /\ IsSequence(rowsAt') /\ Extends(rowsAt, rowsAt') /\ Len(rowsAt') = Len(rowsAt) + 1
         /\ rowsAt'[Len(rowsAt)] = rowsAt[Len(rowsAt)]
         /\ \A s \in Shots :
              rowsAt'[Len(rowsAt) + 1][s] =
                IF s \in shots
                  THEN [revision |-> RowsAt(Now)[s].revision + 1, verdict |-> verdict[s]]
                  ELSE rowsAt[Len(rowsAt)][s]
<1>1. Len(rowsAt) \in Nat
  BY SequenceFacts
<1>2. RowsAt(Now) = rowsAt[Len(rowsAt)]
  BY <1>1 DEF RowsAt, Now
<1> DEFINE e == [s \in Shots |->
                   IF s \in shots
                     THEN [revision |-> RowsAt(Now)[s].revision + 1, verdict |-> verdict[s]]
                     ELSE RowsAt(Now)[s]]
<1>3. rowsAt' = Append(rowsAt, e)
  BY DEF Rewritten
<1>4. \A s \in Shots :
        e[s] = IF s \in shots
                 THEN [revision |-> RowsAt(Now)[s].revision + 1, verdict |-> verdict[s]]
                 ELSE rowsAt[Len(rowsAt)][s]
  BY <1>2
<1> HIDE DEF e
<1>5. /\ IsSequence(rowsAt') /\ Len(rowsAt') = Len(rowsAt) + 1 /\ rowsAt'[Len(rowsAt) + 1] = e
      /\ \A i \in 1..Len(rowsAt) : rowsAt'[i] = rowsAt[i]
  BY <1>3, AppendFacts
<1>6. Extends(rowsAt, rowsAt') /\ rowsAt'[Len(rowsAt)] = rowsAt[Len(rowsAt)]
  BY <1>1, <1>5 DEF Extends
<1> QED BY <1>4, <1>5, <1>6

-----------------------------------------------------------------------------
(* The service.                                                            *)
LEMMA SavingKeeps ==
  ASSUME SessionAssumption, SessionInv, NEW d \in Decisions,
         task[d].state = "queued", PreviousSaved(d), Store(d), UNCHANGED <<command, late>>,
         UNCHANGED <<pageVars, read>>,
         task' = [task EXCEPT ![d] =
                    [state |-> "saved", runRevision |-> Now + 1,
                     revisions |-> [s \in Decided(command[d]) |-> RowsAt(Now)[s].revision + 1]]]
  PROVE  SessionInv'
<1> DEFINE changed == Decided(command[d])
           t == [state |-> "saved", runRevision |-> Now + 1,
                 revisions |-> [s \in changed |-> RowsAt(Now)[s].revision + 1]]
<1>1. /\ IsSequence(rowsAt) /\ Len(rowsAt) >= 1 /\ Len(rowsAt) \in Nat
      /\ DOMAIN task = Decisions /\ TasksIn(task, command, rowsAt)
  BY SequenceFacts DEF SessionInv, ServiceOK
<1>2. /\ t.state = "saved" /\ t.runRevision = Len(rowsAt) /\ DOMAIN t.revisions = changed
      /\ \A s \in changed : t.revisions[s] = RowsAt(Now)[s].revision + 1
  BY <1>1 DEF Now
<1>3. /\ task'[d] = t /\ DOMAIN task' = Decisions
      /\ \A e \in Decisions : e # d => task'[e] = task[e]
  BY <1>1
<1>4. rowsAt' = Rewritten(changed, [s \in Shots |-> command[d].verdict])
  BY DEF Store
<1> HIDE DEF changed, t
<1>5. /\ IsSequence(rowsAt') /\ Extends(rowsAt, rowsAt') /\ Len(rowsAt') = Len(rowsAt) + 1
      /\ rowsAt'[Len(rowsAt)] = rowsAt[Len(rowsAt)]
      /\ \A s \in Shots :
           rowsAt'[Len(rowsAt) + 1][s] =
             IF s \in changed
               THEN [revision |-> RowsAt(Now)[s].revision + 1,
                     verdict |-> [r \in Shots |-> command[d].verdict][s]]
               ELSE rowsAt[Len(rowsAt)][s]
  BY <1>1, <1>4, RewrittenFacts
<1>6. Advances
  BY <1>1, <1>2, <1>3, <1>5 DEF Advances, Moves, Keeps, PreviousSaved, Ended
<1>7. ReceiptIn(t, command[d].verdict, rowsAt')
  <2>1. t.runRevision \in 1..(Len(rowsAt') - 1)
    BY <1>1, <1>2, <1>5
  <2> QED BY <1>2, <1>5, <2>1 DEF ReceiptIn
<1>8. TaskIn(task'[d], command[d], rowsAt')
  <2>1. TaskIn(task[d], command[d], rowsAt)
    BY <1>1 DEF TasksIn
  <2>2. task[d] # NoTask
    BY DEF NoTask
  <2> QED BY <1>2, <1>3, <1>7, <2>1, <2>2 DEF TaskIn
<1>9. TasksIn(task', command', rowsAt')
  BY <1>1, <1>3, <1>5, <1>8, TaskStays DEF TasksIn
<1> QED BY <1>3, <1>6, <1>9, ServiceKeeps

\* The decision ends without a receipt of saved rows.
LEMMA EndingKeeps ==
  ASSUME SessionAssumption, SessionInv, NEW d \in Decisions, NEW state \in {"refused", "dead"},
         task[d].state = "queued", UNCHANGED <<command, late>>, UNCHANGED <<pageVars, read>>,
         task' = [task EXCEPT ![d] = [state |-> state]],
         IsSequence(rowsAt'), Extends(rowsAt, rowsAt')
  PROVE  SessionInv'
<1>1. /\ IsSequence(rowsAt) /\ DOMAIN task = Decisions /\ TasksIn(task, command, rowsAt)
  BY DEF SessionInv, ServiceOK
<1>2. /\ task'[d] = [state |-> state] /\ DOMAIN task' = Decisions
      /\ \A e \in Decisions : e # d => task'[e] = task[e]
  BY <1>1
<1>3. task'[d].state = state
  BY <1>2
<1>4. Advances
  BY <1>2, <1>3 DEF Advances, Moves, Keeps, Ended
<1>5. TaskIn(task'[d], command[d], rowsAt')
  <2>1. TaskIn(task[d], command[d], rowsAt) /\ task[d] # NoTask
    BY <1>1 DEF TasksIn, NoTask
  <2> QED BY <1>3, <2>1 DEF TaskIn
<1>6. TasksIn(task', command', rowsAt')
  BY <1>1, <1>2, <1>5, TaskStays DEF TasksIn
<1> QED BY <1>2, <1>4, <1>6, ServiceKeeps

LEMMA RowsStay ==
  ASSUME SessionInv, UNCHANGED rowsAt
  PROVE  IsSequence(rowsAt') /\ Extends(rowsAt, rowsAt')
BY SequenceFacts DEF SessionInv, ServiceOK, Extends

LEMMA RowsGrow ==
  ASSUME SessionInv, NEW shots, NEW verdict, rowsAt' = Rewritten(shots, verdict)
  PROVE  IsSequence(rowsAt') /\ Extends(rowsAt, rowsAt')
BY RewrittenFacts DEF SessionInv, ServiceOK

LEMMA ProcessKeeps ==
  ASSUME SessionAssumption, SessionInv, NEW d \in Decisions, Process(d)
  PROVE  SessionInv'
<1>1. task[d].state = "queued" /\ UNCHANGED <<late, command, pageVars, read>>
  BY DEF Process, pageVars
<1>2. CASE Fits(d)
  BY <1>1, <1>2, SavingKeeps DEF Process, Fits
<1>3. CASE ~Fits(d)
  BY <1>1, <1>3, RowsStay, EndingKeeps DEF Process
<1> QED BY <1>2, <1>3

LEMMA ProcessFailsKeeps ==
  ASSUME SessionAssumption, SessionInv, NEW d \in Decisions, ProcessFails(d)
  PROVE  SessionInv'
<1>1. task[d].state = "queued" /\ UNCHANGED <<late, command, pageVars, read>>
  BY DEF ProcessFails, pageVars
<1>2. PICK state \in {"refused", "dead"} : task' = [task EXCEPT ![d] = [state |-> state]]
  BY DEF ProcessFails
<1>3. IsSequence(rowsAt') /\ Extends(rowsAt, rowsAt')
  BY RowsStay, RowsGrow DEF ProcessFails, Store
<1> QED BY <1>1, <1>2, <1>3, EndingKeeps

LEMMA TasksStay ==
  ASSUME SessionInv, UNCHANGED <<task, command>>, IsSequence(rowsAt'), Extends(rowsAt, rowsAt')
  PROVE  Advances /\ TasksIn(task', command', rowsAt') /\ DOMAIN task' = Decisions
<1>1. Advances
  BY DEF Advances, Moves, Keeps
<1> QED BY <1>1, TaskStays DEF TasksIn, SessionInv, ServiceOK

LEMMA OtherDecidesKeeps ==
  ASSUME SessionAssumption, SessionInv, NEW s \in Shots, NEW verdict, OtherDecides(s, verdict)
  PROVE  SessionInv'
<1>1. UNCHANGED <<task, command, late>> /\ UNCHANGED <<pageVars, read>>
  BY DEF OtherDecides, pageVars
<1>2. IsSequence(rowsAt') /\ Extends(rowsAt, rowsAt')
  BY RowsGrow DEF OtherDecides
<1> QED BY <1>1, <1>2, TasksStay, ServiceKeeps

\* A decision that the service has not yet is queued.
LEMMA EnqueueAdvances ==
  ASSUME SessionInv, UNCHANGED <<rowsAt, command>>, NEW d \in Decisions, command[d] # NoTask,
         Enqueue(d)
  PROVE  Advances /\ TasksIn(task', command', rowsAt') /\ DOMAIN task' = Decisions
<1>1. IsSequence(rowsAt') /\ Extends(rowsAt, rowsAt')
  BY RowsStay
<1>2. CASE task[d] # NoTask
  BY <1>1, <1>2, TasksStay DEF Enqueue
<1>3. CASE task[d] = NoTask
  <2>1. DOMAIN task = Decisions /\ TasksIn(task, command, rowsAt)
    BY DEF SessionInv, ServiceOK
  <2>2. task' = [task EXCEPT ![d] = [state |-> "queued"]]
    BY <1>3 DEF Enqueue
  <2>3. /\ task'[d].state = "queued" /\ DOMAIN task' = Decisions
        /\ \A e \in Decisions : e # d => task'[e] = task[e]
    BY <2>1, <2>2
  <2>4. task[d].state = "none"
    BY <1>3 DEF NoTask
  <2>5. Advances
    BY <1>1, <2>3, <2>4 DEF Advances, Moves, Keeps
  <2>6. TaskIn(task'[d], command[d], rowsAt')
    BY <2>3 DEF TaskIn
  <2>7. TasksIn(task', command', rowsAt')
    BY <2>1, <2>3, <2>6 DEF TasksIn
  <2> QED BY <2>3, <2>5, <2>7
<1> QED BY <1>2, <1>3

LEMMA ArrivesLateKeeps ==
  ASSUME SessionAssumption, SessionInv, NEW d \in Decisions, ArrivesLate(d)
  PROVE  SessionInv'
<1>1. UNCHANGED <<rowsAt, command>> /\ UNCHANGED <<pageVars, read>> /\ late' \subseteq late
  BY DEF ArrivesLate, pageVars
<1>2. command[d] # NoTask
  BY DEF ArrivesLate, SessionInv, ServiceOK
<1>3. CASE Enqueue(d)
  BY <1>1, <1>2, <1>3, EnqueueAdvances, ServiceKeeps
<1>4. CASE UNCHANGED task
  BY <1>1, <1>4, RowsStay, TasksStay, ServiceKeeps
<1> QED BY <1>3, <1>4 DEF ArrivesLate

-----------------------------------------------------------------------------
(* The page: its service stays for a step.                                 *)
LEMMA PageKeeps ==
  ASSUME SessionInv, UNCHANGED <<rowsAt, task, command>>,
         \A d \in late' : d \in Decisions /\ command[d] # NoTask, DOMAIN read' = Readers,
         Had(rowsAt, page'), Had(rowsAt, currentModel'),
         QueueIn(queue', task, command, rowsAt), QueueIn(held', task, command, rowsAt),
         newestRunRevision' \in 0..Now, ReadsIn(read', rowsAt, newestRunRevision'),
         ModeOK', SavedIsNewest', NotSavedIn(notSaved', task, command)
  PROVE  SessionInv'
<1>1. ServiceOK'
  BY DEF SessionInv, ServiceOK
<1>2. Now' = Now
  BY DEF Now
<1> QED BY <1>1, <1>2 DEF SessionInv

LEMMA InvFacts ==
  ASSUME SessionInv
  PROVE  /\ IsSequence(rowsAt) /\ Len(rowsAt) \in Nat /\ Len(rowsAt) >= 1
         /\ Now = Len(rowsAt) - 1 /\ Now \in Nat
         /\ DOMAIN task = Decisions /\ DOMAIN command = Decisions /\ DOMAIN read = Readers
         /\ \A d \in late : d \in Decisions /\ command[d] # NoTask
         /\ Had(rowsAt, page) /\ Had(rowsAt, currentModel)
         /\ QueueIn(queue, task, command, rowsAt) /\ QueueIn(held, task, command, rowsAt)
         /\ IsSequence(queue) /\ Len(queue) \in Nat /\ DOMAIN queue = 1..Len(queue)
         /\ (queue = <<>>) = (Len(queue) = 0)
         /\ newestRunRevision \in 0..Now /\ ReadsIn(read, rowsAt, newestRunRevision)
         /\ ModeOK /\ SavedIsNewest /\ NotSavedIn(notSaved, task, command)
<1>1. IsSequence(rowsAt) /\ Len(rowsAt) \in Nat /\ Len(rowsAt) >= 1
  BY SequenceFacts DEF SessionInv, ServiceOK
<1>2. Now = Len(rowsAt) - 1 /\ Now \in Nat
  BY <1>1 DEF Now
<1>3. /\ IsSequence(queue) /\ Len(queue) \in Nat /\ DOMAIN queue = 1..Len(queue)
      /\ (queue = <<>>) = (Len(queue) = 0)
  BY SequenceFacts DEF SessionInv, QueueIn
<1> QED BY <1>1, <1>2, <1>3 DEF SessionInv, ServiceOK

LEMMA LatestHad ==
  ASSUME NEW rows, IsSequence(rows), NEW a, NEW b, Had(rows, a), Had(rows, b)
  PROVE  /\ Had(rows, Latest(a, b))
         /\ Latest(a, b).at >= a.at /\ Latest(a, b).at >= b.at
<1>1. Len(rows) \in Nat
  BY SequenceFacts
<1>2. a.at \in Nat /\ b.at \in Nat
  BY <1>1 DEF Had
<1> QED BY <1>2 DEF Latest

\* A read that did not end, or that begins.
LEMMA UnendedRead ==
  ASSUME NEW k, NEW x, x.at \notin {"run", "answered"}, NEW rows, NEW newest
  PROVE  ReadIn(k, x, rows, newest)
BY DEF ReadIn

LEMMA ReadSet ==
  ASSUME NEW rows, NEW newest, NEW all, DOMAIN all = Readers, ReadsIn(all, rows, newest),
         NEW k \in Readers, NEW x, ReadIn(k, x, rows, newest)
  PROVE  LET next == [all EXCEPT ![k] = x]
         IN /\ DOMAIN next = Readers /\ ReadsIn(next, rows, newest) /\ next[k] = x
            /\ \A j \in Readers : j # k => next[j] = all[j]
<1> DEFINE next == [all EXCEPT ![k] = x]
<1>1. /\ DOMAIN next = Readers /\ next[k] = x
      /\ \A j \in Readers : j # k => next[j] = all[j]
  OBVIOUS
<1> HIDE DEF next
<1>2. ReadsIn(next, rows, newest)
  BY <1>1 DEF ReadsIn
<1> QED BY <1>1, <1>2 DEF next

LEMMA IdleRead ==
  NoRead.at = "idle" /\ Sent.at = "sent" /\ Sent # NoRead
BY DEF NoRead, Sent

\* A read of the model goes on.
LEMMA ReadMoves ==
  ASSUME SessionInv, NEW k \in Readers, NEW x, read' = [read EXCEPT ![k] = x],
         read[k] # NoRead, x # NoRead, ReadIn(k, x, rowsAt, newestRunRevision),
         UNCHANGED <<serviceVars, late>>, UNCHANGED pageVars
  PROVE  SessionInv'
<1>1. UNCHANGED <<rowsAt, task, late, command, page, queue, held, status, currentModel,
                  newestRunRevision, undoing, notSaved>>
  BY DEF serviceVars, pageVars, loopVars, undoVars
<1>2. /\ DOMAIN read' = Readers /\ ReadsIn(read', rowsAt, newestRunRevision) /\ read'[k] = x
      /\ \A j \in Readers : j # k => read'[j] = read[j]
  BY InvFacts, ReadSet
<1>3. \A j \in Readers : (read'[j] = NoRead) = (read[j] = NoRead)
  BY <1>2
<1>4. ModeOK'
  BY <1>1, <1>3, InvFacts DEF ModeOK, Is, Readers, Held
<1>5. SavedIsNewest'
  BY <1>1, InvFacts DEF SavedIsNewest
<1> QED BY <1>1, <1>2, <1>4, <1>5, InvFacts, PageKeeps

LEMMA ReadRunKeeps ==
  ASSUME SessionInv, NEW k \in Readers, ReadRun(k)
  PROVE  SessionInv'
<1> DEFINE x == [at |-> "run", revision |-> Now]
<1>1. read[k] # NoRead /\ x # NoRead
  <2>1. read[k].at = "sent" /\ x.at = "run"
    BY DEF ReadRun
  <2> QED BY <2>1, IdleRead
<1>2. ReadIn(k, x, rowsAt, newestRunRevision)
  BY InvFacts DEF ReadIn
<1>3. read' = [read EXCEPT ![k] = x] /\ UNCHANGED <<serviceVars, late>> /\ UNCHANGED pageVars
  BY DEF ReadRun
<1> HIDE DEF x
<1> QED BY <1>1, <1>2, <1>3, ReadMoves

\* The rows of a read are the newest, under the revision that it took before.
LEMMA RowsOfNow ==
  ASSUME SessionInv, NEW m, m.at \in 0..Now, m.rows = RowsAt(Now)
  PROVE  Had(rowsAt, m)
<1>1. \A s \in Shots : Now \in m.at..(Len(rowsAt) - 1) /\ m.rows[s] = rowsAt[Now + 1][s]
  BY InvFacts DEF RowsAt
<1> QED BY <1>1, InvFacts DEF Had

LEMMA ReadRowsKeeps ==
  ASSUME SessionInv, NEW k \in Readers, ReadRows(k)
  PROVE  SessionInv'
<1> DEFINE m == [at |-> read[k].revision, rows |-> RowsAt(Now)]
           x == [at |-> "answered", model |-> m]
<1>1. /\ read[k].revision \in 0..Now
      /\ k \in {"loop", "undo"} => read[k].revision >= newestRunRevision
  BY InvFacts DEF ReadRows, ReadsIn, ReadIn
<1>2. m.at = read[k].revision /\ m.rows = RowsAt(Now) /\ x.at = "answered" /\ x.model = m
  OBVIOUS
<1>3. read' = [read EXCEPT ![k] = x] /\ UNCHANGED <<serviceVars, late>> /\ UNCHANGED pageVars
  BY DEF ReadRows
<1> HIDE DEF m, x
<1>4. Had(rowsAt, m)
  BY <1>1, <1>2, RowsOfNow
<1>5. ReadIn(k, x, rowsAt, newestRunRevision)
  BY <1>1, <1>2, <1>4 DEF ReadIn
<1>6. read[k] # NoRead /\ x # NoRead
  BY <1>2, IdleRead DEF ReadRows
<1> QED BY <1>3, <1>5, <1>6, ReadMoves

LEMMA BeginReadKeeps ==
  ASSUME SessionInv, NEW k \in Readers, BeginRead(k)
  PROVE  SessionInv'
<1>1. UNCHANGED <<rowsAt, task, late, command, page, queue, held, status, currentModel,
                  newestRunRevision, undoing, notSaved>>
  BY DEF BeginRead, serviceVars, pageVars, loopVars, undoVars
<1>2. read' = [read EXCEPT ![k] = Sent] /\ k \in {"route", "return"}
  BY DEF BeginRead, Asked
<1>3. /\ DOMAIN read' = Readers /\ ReadsIn(read', rowsAt, newestRunRevision)
      /\ \A j \in Readers : j # k => read'[j] = read[j]
  BY <1>2, InvFacts, IdleRead, UnendedRead, ReadSet
<1>4. ModeOK'
  BY <1>1, <1>2, <1>3, InvFacts DEF ModeOK, Is, Readers, Held
<1>5. SavedIsNewest'
  BY <1>1, InvFacts DEF SavedIsNewest
<1> QED BY <1>1, <1>3, <1>4, <1>5, InvFacts, PageKeeps

LEMMA LandKeeps ==
  ASSUME SessionInv, NEW k \in Readers, Land(k)
  PROVE  SessionInv'
<1>1. UNCHANGED <<rowsAt, task, late, command, queue, held, status, currentModel,
                  newestRunRevision, undoing, notSaved>>
  BY DEF Land, serviceVars, loopVars, undoVars
<1>2. read' = [read EXCEPT ![k] = NoRead] /\ k \in {"route", "return", "refusal"}
  BY DEF Land, Done
<1>3. /\ DOMAIN read' = Readers /\ ReadsIn(read', rowsAt, newestRunRevision)
      /\ \A j \in Readers : j # k => read'[j] = read[j]
  BY <1>2, InvFacts, IdleRead, UnendedRead, ReadSet
<1>4. ModeOK'
  BY <1>1, <1>2, <1>3, InvFacts DEF ModeOK, Is, Readers, Held
<1>5. Had(rowsAt, read[k].model)
  BY InvFacts DEF Land, ReadsIn, ReadIn
<1>6. Had(rowsAt, page') /\ page'.at >= page.at
  BY <1>5, InvFacts, LatestHad DEF Land
<1>7. SavedIsNewest'
  <2>1. page.at \in Nat /\ page'.at \in Nat /\ newestRunRevision \in Nat
    BY <1>6, InvFacts DEF Had
  <2> QED BY <1>1, <1>6, <2>1, InvFacts DEF SavedIsNewest
<1> QED BY <1>1, <1>3, <1>4, <1>6, <1>7, InvFacts, PageKeeps

-----------------------------------------------------------------------------
(* The decisions of the page.                                              *)
\* What starts the loop over the queue.
LEMMA LoopStarts ==
  ASSUME SessionInv, StartLoop, UNCHANGED <<page, rowsAt>>
  PROVE  /\ DOMAIN read' = Readers /\ Had(rowsAt, currentModel')
         /\ newestRunRevision' \in 0..Now /\ ReadsIn(read', rowsAt, newestRunRevision')
         /\ \A j \in Readers : j # "return" => read'[j] = read[j]
<1>1. CASE Busy
  BY <1>1, InvFacts DEF StartLoop, loopVars
<1>2. CASE ~Busy
  <2>1. /\ currentModel' = page /\ newestRunRevision' = 0
        /\ read' = [read EXCEPT !["return"] = NoRead] /\ "return" \in Readers
    BY <1>2 DEF StartLoop, Done, Readers
  <2>2. /\ DOMAIN read' = Readers /\ ReadsIn(read', rowsAt, newestRunRevision)
        /\ \A j \in Readers : j # "return" => read'[j] = read[j]
    BY <2>1, InvFacts, IdleRead, UnendedRead, ReadSet
  <2>3. ReadsIn(read', rowsAt, 0)
    <3>1. ASSUME NEW k \in Readers PROVE ReadIn(k, read'[k], rowsAt, 0)
      <4>1. ReadIn(k, read'[k], rowsAt, newestRunRevision)
        BY <2>2 DEF ReadsIn
      <4>2. read'[k].at = "run" => read'[k].revision >= 0
        BY <4>1, InvFacts DEF ReadIn
      <4>3. read'[k].at = "answered" => read'[k].model.at >= 0
        BY <4>1, InvFacts DEF ReadIn, Had
      <4> QED BY <4>1, <4>2, <4>3 DEF ReadIn
    <3> QED BY <3>1 DEF ReadsIn
  <2> QED BY <2>1, <2>2, <2>3, InvFacts
<1> QED BY <1>1, <1>2

\* The page is idle or runs the loop over the queue.
Deciding ==
  /\ status \in {"idle", "saved", "conflict"} \/ (status = "saving" /\ queue # <<>>)

LEMMA EnterKeeps ==
  ASSUME SessionAssumption, SessionInv, NEW d \in Decisions, NEW content,
         command[d] = NoTask, content # NoTask, Deciding, Enter(d, content),
         queue # <<>> => content.previous = queue[Len(queue)].id
  PROVE  SessionInv'
<1>1. UNCHANGED <<rowsAt, task, late, page, held, undoing, notSaved>> /\ status' = "saving"
  BY DEF Enter, serviceVars, undoVars
<1>2. command' = [command EXCEPT ![d] = content] /\ queue' = Append(queue, Waiting(d)) /\ StartLoop
  BY DEF Enter
<1>3. /\ command'[d] = content /\ DOMAIN command' = Decisions
      /\ \A e \in Decisions : e # d => command'[e] = command[e]
  BY <1>2, InvFacts
<1>4. TasksIn(task, command, rowsAt)
  BY DEF SessionInv, ServiceOK
<1>5. task[d] = NoTask /\ task[d].state = "none"
  BY <1>4 DEF TasksIn, TaskIn, NoTask
<1>6. Advances
  BY <1>1, <1>3, RowsStay DEF Advances, Moves, Keeps
<1>7. TasksIn(task', command', rowsAt')
  <2>1. TaskIn(task[d], command'[d], rowsAt)
    BY <1>3, <1>5 DEF TaskIn
  <2> QED BY <1>1, <1>3, <1>4, <2>1 DEF TasksIn
<1>8. /\ Had(rowsAt, page) /\ QueueIn(queue, task, command', rowsAt)
      /\ QueueIn(held, task, command', rowsAt) /\ NotSavedIn(notSaved, task, command')
      /\ \A e \in late : e \in Decisions /\ command'[e] # NoTask
  BY <1>1, <1>6, StateStays
<1>9. EntryIn(Waiting(d), task, command', rowsAt) /\ Waiting(d).id = d
  BY <1>3 DEF EntryIn, Waiting
<1>10. QueueIn(queue', task, command', rowsAt) /\ Len(queue') = Len(queue) + 1
  <2>1. PICK e : e = Waiting(d)
    OBVIOUS
  <2>2. task[e.id].state # "saved"
    BY <1>5, <1>9, <2>1
  <2>3. queue # <<>> => command'[e.id].previous = queue[Len(queue)].id
    BY <1>3, <1>9, <2>1
  <2>4. queue' = Append(queue, e) /\ EntryIn(e, task, command', rowsAt)
    BY <1>2, <1>9, <2>1
  <2> QED BY <1>8, <2>2, <2>3, <2>4, QueueAdded
<1>11. \A i \in 1..Len(queue) : queue'[i] = queue[i]
  BY <1>2, InvFacts, AppendFacts
<1>12. DOMAIN queue' = 1..Len(queue')
  BY <1>10, SequenceFacts DEF QueueIn
<1>13. /\ DOMAIN read' = Readers /\ Had(rowsAt, currentModel')
       /\ newestRunRevision' \in 0..Now /\ ReadsIn(read', rowsAt, newestRunRevision')
       /\ \A j \in Readers : j # "return" => read'[j] = read[j]
  BY <1>1, <1>2, LoopStarts
<1>14. ModeOK'
  <2>1. /\ read["manual"] = NoRead /\ read["undo"] = NoRead /\ undoing = NoDecision
        /\ held = <<>>
    BY InvFacts DEF ModeOK, Deciding
  <2>2. read["loop"] # NoRead => Is(1, {"confirming"})'
    BY <1>10, <1>11, <1>12, InvFacts DEF ModeOK, Is, Held
  <2> QED BY <1>1, <1>13, <2>1, <2>2 DEF ModeOK, Readers, Held
<1>15. ServiceOK'
  BY <1>1, <1>3, <1>7, <1>8, <1>13, InvFacts DEF ServiceOK
<1>16. SavedIsNewest'
  BY <1>1 DEF SavedIsNewest
<1>17. Now' = Now
  BY <1>1 DEF Now
<1> QED BY <1>1, <1>8, <1>10, <1>13, <1>14, <1>15, <1>16, <1>17 DEF SessionInv

\* A decision is not the record of an unsent one.
LEMMA Commanded ==
  ASSUME NEW content, "kind" \in DOMAIN content
  PROVE  content # NoTask
BY DEF NoTask

LEMMA DecideKeeps ==
  ASSUME SessionAssumption, SessionInv, NEW d \in Decisions, Decide(d)
  PROVE  SessionInv'
<1>1. command[d] = NoTask /\ Deciding
  BY InvFacts DEF Decide, Deciding, ReviewBlocked, Busy, ModeOK
<1>2. PICK c \in Contents :
        Enter(d, [kind |-> c.kind, verdict |-> c.verdict, targets |-> c.targets,
                  expected |-> [s \in c.targets |-> Shown[s].revision],
                  previous |-> Predecessor])
  BY DEF Decide
<1>3. PICK content : content = [kind |-> c.kind, verdict |-> c.verdict, targets |-> c.targets,
                                expected |-> [s \in c.targets |-> Shown[s].revision],
                                previous |-> Predecessor]
  OBVIOUS
<1>4. Enter(d, content)
  BY <1>2, <1>3
<1>5. content # NoTask
  BY <1>3, Commanded
<1>6. queue # <<>> => content.previous = queue[Len(queue)].id
  BY <1>3 DEF Predecessor, LastQueued, Last
<1> QED BY <1>1, <1>4, <1>5, <1>6, EnterKeeps

LEMMA ApproveRunKeeps ==
  ASSUME SessionAssumption, SessionInv, NEW d \in Decisions, ApproveRun(d)
  PROVE  SessionInv'
<1>1. command[d] = NoTask /\ Deciding /\ queue = <<>>
  BY InvFacts DEF ApproveRun, Deciding, Busy, ModeOK
<1>2. PICK content : content = [kind |-> "run", verdict |-> "approved", targets |-> {},
                                runRevision |-> page.at,
                                count |-> Cardinality(OpenShots(page.rows)),
                                previous |-> NoDecision]
  OBVIOUS
<1>3. Enter(d, content)
  BY <1>2 DEF ApproveRun
<1>4. content # NoTask
  BY <1>2, Commanded
<1> QED BY <1>1, <1>3, <1>4, EnterKeeps

LEMMA RetryKeeps ==
  ASSUME SessionInv, Retry
  PROVE  SessionInv'
<1>1. UNCHANGED <<rowsAt, task, late, command, page, held, undoing, notSaved>>
      /\ status = "error" /\ status' = "saving" /\ queue # <<>> /\ StartLoop
  BY DEF Retry, serviceVars, undoVars
<1>2. queue' = [i \in 1..Len(queue) |-> Waiting(queue[i].id)]
  BY InvFacts DEF Retry
<1>3. ASSUME NEW i \in 1..Len(queue)
      PROVE  queue'[i].id = queue[i].id /\ EntryIn(queue'[i], task, command, rowsAt)
  <2>1. queue'[i] = Waiting(queue[i].id)
    BY <1>2
  <2>2. EntryIn(queue[i], task, command, rowsAt)
    BY InvFacts DEF QueueIn
  <2>3. queue'[i].id = queue[i].id /\ queue'[i].at = "sending"
    BY <2>1 DEF Waiting
  <2> QED BY <2>2, <2>3 DEF EntryIn
<1>4. queue' = [i \in 1..Len(queue) |-> queue'[i]]
  BY <1>2
<1>5. QueueIn(queue', task, command, rowsAt)
  BY <1>3, <1>4, InvFacts, QueueRenewed
<1>6. /\ DOMAIN read' = Readers /\ Had(rowsAt, currentModel')
      /\ newestRunRevision' \in 0..Now /\ ReadsIn(read', rowsAt, newestRunRevision')
      /\ \A j \in Readers : j # "return" => read'[j] = read[j]
  BY <1>1, LoopStarts
<1>7. ModeOK'
  BY <1>1, <1>6, InvFacts DEF ModeOK, Readers, Held
<1>8. SavedIsNewest'
  BY <1>1 DEF SavedIsNewest
<1> QED BY <1>1, <1>5, <1>6, <1>7, <1>8, InvFacts, PageKeeps

-----------------------------------------------------------------------------
(* The answers of the queued decisions.                                    *)
\* An entry of the queue that confirms no read changes its place.
LEMMA BecomesKeepsMode ==
  ASSUME SessionInv, NEW i \in 1..Len(queue), queue[i].at \notin {"confirming", "held"},
         NEW e, Becomes(i, e),
         NEW k \in {"admission", "loop"}, UNCHANGED <<held, status, undoing>>,
         DOMAIN read' = Readers, \A j \in Readers : j # k => read'[j] = read[j],
         k = "loop" => i = 1 /\ e.at = "confirming"
  PROVE  ModeOK'
<1>1. /\ Len(queue') = Len(queue) /\ IsSequence(queue') /\ queue'[i] = e
      /\ \A j \in 1..Len(queue) : j # i => queue'[j] = queue[j]
  <2>1. /\ Len(queue) \in Nat /\ DOMAIN queue = 1..Len(queue)
        /\ queue' = [queue EXCEPT ![i] = e]
    BY InvFacts DEF Becomes
  <2>2. queue'[i] = e /\ \A j \in 1..Len(queue) : j # i => queue'[j] = queue[j]
    BY <2>1
  <2>3. queue' = [j \in 1..Len(queue) |-> queue'[j]]
    BY <2>1
  <2> QED BY <2>1, <2>2, <2>3, FunctionIsSequence
<1>2. DOMAIN queue' = 1..Len(queue) /\ queue # <<>> /\ queue' # <<>>
  BY <1>1, InvFacts, SequenceFacts
<1>3. read["manual"] = NoRead /\ read["undo"] = NoRead /\ undoing = NoDecision /\ held = <<>>
  BY <1>2, InvFacts DEF ModeOK, Held
<1>4. status = "saving"
  BY <1>2, InvFacts DEF ModeOK, Held
<1>5. read'["manual"] = NoRead /\ read'["undo"] = NoRead
  BY <1>3 DEF Readers
<1>6. read'["loop"] # NoRead => status = "saving" /\ Is(1, {"confirming"})'
  BY <1>1, <1>2, InvFacts DEF ModeOK, Is, Readers, Held
<1> QED BY <1>3, <1>4, <1>5, <1>6 DEF ModeOK, Held

LEMMA BecomesKeepsQueue ==
  ASSUME SessionInv, NEW i \in 1..Len(queue), NEW e, Becomes(i, e), e.id = queue[i].id,
         EntryIn(e, task, command, rowsAt)
  PROVE  QueueIn(queue', task, command, rowsAt)
BY InvFacts, QueueSet DEF Becomes

\* An answer that leaves the tasks alone.
LEMMA AnswerKeeps ==
  ASSUME SessionInv, NEW i \in 1..Len(queue), queue[i].at \notin {"confirming", "held"},
         NEW e, Becomes(i, e), e.id = queue[i].id, EntryIn(e, task, command, rowsAt),
         UNCHANGED <<rowsAt, task, command, page, held, status, loopVars, undoVars, notSaved>>,
         late' \subseteq late \cup {queue[i].id},
         DOMAIN read' = Readers, ReadsIn(read', rowsAt, newestRunRevision),
         \A j \in Readers : j # "admission" => read'[j] = read[j]
  PROVE  SessionInv'
<1>1. UNCHANGED <<currentModel, newestRunRevision, undoing>>
  BY DEF loopVars, undoVars
<1>2. ModeOK'
  BY <1>1, BecomesKeepsMode
<1>3. QueueIn(queue', task, command, rowsAt)
  BY BecomesKeepsQueue
<1>4. SavedIsNewest'
  BY <1>1, InvFacts DEF SavedIsNewest
<1>5. \A d \in late' : d \in Decisions /\ command[d] # NoTask
  <2>1. queue[i].id \in Decisions /\ command[queue[i].id] # NoTask
    BY InvFacts DEF QueueIn, EntryIn
  <2> QED BY <2>1, InvFacts
<1> QED BY <1>1, <1>2, <1>3, <1>4, <1>5, InvFacts, PageKeeps

LEMMA PostKeeps ==
  ASSUME SessionAssumption, SessionInv, NEW i \in DOMAIN queue, Post(i)
  PROVE  SessionInv'
<1> DEFINE d == queue[i].id
<1>1. i \in 1..Len(queue) /\ queue[i].at = "sending"
  BY InvFacts DEF Post, Sendable, Is
<1>2. /\ UNCHANGED <<rowsAt, command, page, held, status, loopVars, undoVars, notSaved>>
      /\ UNCHANGED late
  BY DEF Post
<1>3. d \in Decisions /\ command[d] # NoTask
  BY <1>1, InvFacts DEF QueueIn, EntryIn
<1>4. CASE ~Admissible(d)
  <2>1. PICK e : e = At(i, "failed")
    OBVIOUS
  <2>2. Becomes(i, e) /\ UNCHANGED <<task, read>>
    BY <1>4, <2>1 DEF Post
  <2>3. e.id = d /\ EntryIn(e, task, command, rowsAt)
    BY <1>3, <2>1 DEF At, EntryIn
  <2> QED BY <1>1, <1>2, <2>2, <2>3, InvFacts, AnswerKeeps
<1>5. CASE Admissible(d) /\ task[d].state = "dead"
  <2>1. PICK e : e = At(i, "admission")
    OBVIOUS
  <2>2. Becomes(i, e) /\ UNCHANGED task /\ read' = [read EXCEPT !["admission"] = Sent]
    BY <1>5, <2>1 DEF Post, Asked
  <2>3. e.id = d /\ EntryIn(e, task, command, rowsAt)
    BY <1>3, <1>5, <2>1 DEF At, EntryIn, Ended
  <2>4. "admission" \in Readers
    BY DEF Readers
  <2>5. /\ DOMAIN read' = Readers /\ ReadsIn(read', rowsAt, newestRunRevision)
        /\ \A j \in Readers : j # "admission" => read'[j] = read[j]
    BY <2>2, <2>4, InvFacts, IdleRead, UnendedRead, ReadSet
  <2> QED BY <1>1, <1>2, <2>2, <2>3, <2>5, AnswerKeeps
<1>6. CASE Admissible(d) /\ task[d].state # "dead"
  <2>1. PICK e : e = At(i, "waiting")
    OBVIOUS
  <2>2. Becomes(i, e) /\ Enqueue(d) /\ UNCHANGED read
    BY <1>6, <2>1 DEF Post
  <2>3. Advances /\ TasksIn(task', command', rowsAt') /\ DOMAIN task' = Decisions
    BY <1>2, <1>3, <2>2, EnqueueAdvances
  <2>4. e.id = d /\ e.at = "waiting"
    BY <2>1 DEF At
  <2>5. task'[d].state # "none"
    <3>1. CASE task[d] = NoTask
      BY <1>3, <2>2, <3>1, InvFacts DEF Enqueue
    <3>2. CASE task[d] # NoTask
      <4>1. TaskIn(task[d], command[d], rowsAt) /\ task' = task
        BY <1>3, <2>2, <3>2 DEF Enqueue, SessionInv, ServiceOK, TasksIn
      <4> QED BY <3>2, <4>1 DEF TaskIn
    <3> QED BY <3>1, <3>2
  <2>6. EntryIn(e, task', command', rowsAt')
    BY <1>2, <1>3, <2>4, <2>5 DEF EntryIn
  <2>7. QueueIn(queue', task', command', rowsAt')
    BY <1>1, <2>2, <2>3, <2>4, <2>6, StateStays, QueueSet DEF Becomes
  <2>8. UNCHANGED <<currentModel, newestRunRevision, undoing>>
    BY <1>2 DEF loopVars, undoVars
  <2>9. ModeOK'
    BY <1>1, <1>2, <2>2, <2>8, InvFacts, BecomesKeepsMode
  <2>10. ServiceOK' /\ SavedIsNewest' /\ Now' = Now
    BY <1>2, <2>2, <2>3, <2>8, StateStays, InvFacts DEF ServiceOK, SavedIsNewest, Now
  <2> QED BY <1>2, <2>2, <2>3, <2>7, <2>8, <2>9, <2>10, StateStays, InvFacts DEF SessionInv
<1> QED BY <1>4, <1>5, <1>6

LEMMA PostFailsKeeps ==
  ASSUME SessionInv, NEW i \in DOMAIN queue, PostFails(i)
  PROVE  SessionInv'
<1>1. i \in 1..Len(queue) /\ queue[i].at = "sending"
  BY InvFacts DEF PostFails, Sendable, Is
<1>2. PICK e : e = At(i, "failed")
  OBVIOUS
<1>3. /\ UNCHANGED <<rowsAt, task, command, page, held, status, loopVars, undoVars, notSaved>>
      /\ late' \subseteq late \cup {queue[i].id} /\ UNCHANGED read /\ Becomes(i, e)
  BY <1>2 DEF PostFails, serviceVars
<1>4. e.id = queue[i].id /\ EntryIn(e, task, command, rowsAt)
  BY <1>1, <1>2, InvFacts DEF At, QueueIn, EntryIn
<1> QED BY <1>1, <1>3, <1>4, InvFacts, AnswerKeeps

LEMMA AdmissionRefusedKeeps ==
  ASSUME SessionInv, NEW i \in DOMAIN queue, AdmissionRefused(i)
  PROVE  SessionInv'
<1>1. i \in 1..Len(queue) /\ queue[i].at = "admission"
  BY InvFacts DEF AdmissionRefused, Is
<1>2. PICK e : e = [id |-> queue[i].id, at |-> "conflict", model |-> read["admission"].model]
  OBVIOUS
<1>3. /\ UNCHANGED <<rowsAt, task, command, page, held, status, loopVars, undoVars, notSaved>>
      /\ late' = late /\ read' = [read EXCEPT !["admission"] = NoRead] /\ Becomes(i, e)
      /\ read["admission"].at = "answered"
  BY <1>2 DEF AdmissionRefused, serviceVars, Done
<1>4. "admission" \in Readers
  BY DEF Readers
<1>5. /\ DOMAIN read' = Readers /\ ReadsIn(read', rowsAt, newestRunRevision)
      /\ \A j \in Readers : j # "admission" => read'[j] = read[j]
  BY <1>3, <1>4, InvFacts, IdleRead, UnendedRead, ReadSet
<1>6. Had(rowsAt, e.model)
  BY <1>2, <1>3, <1>4, InvFacts DEF ReadsIn, ReadIn
<1>7. EntryIn(queue[i], task, command, rowsAt)
  BY <1>1, InvFacts DEF QueueIn
<1>8. e.id = queue[i].id /\ e.at = "conflict"
  BY <1>2
<1>9. EntryIn(e, task, command, rowsAt)
  BY <1>1, <1>6, <1>7, <1>8 DEF EntryIn
<1> QED BY <1>1, <1>3, <1>5, <1>8, <1>9, AnswerKeeps

LEMMA ReadReceiptKeeps ==
  ASSUME SessionInv, NEW i \in DOMAIN queue, ReadReceipt(i)
  PROVE  SessionInv'
<1> DEFINE d == queue[i].id
<1>1. i \in 1..Len(queue) /\ queue[i].at = "waiting" /\ task[d].state # "queued"
  BY InvFacts DEF ReadReceipt, Oldest, Is
<1>2. /\ UNCHANGED <<rowsAt, task, command, page, held, status, loopVars, undoVars, notSaved>>
      /\ late' = late /\ UNCHANGED read
  BY DEF ReadReceipt, serviceVars
<1>3. d \in Decisions /\ command[d] # NoTask /\ task[d].state # "none"
  BY <1>1, InvFacts DEF QueueIn, EntryIn
<1>4. task[d].state = "saved" \/ Ended(task[d])
  BY <1>1, <1>3 DEF SessionInv, ServiceOK, TasksIn, TaskIn, Ended
<1>5. CASE task[d].state = "saved"
  <2>1. PICK e : e = [id |-> d, at |-> "saved", currentRunRevision |-> Now]
    OBVIOUS
  <2>2. Becomes(i, e)
    BY <1>5, <2>1 DEF ReadReceipt
  <2>3. e.id = d /\ EntryIn(e, task, command, rowsAt)
    BY <1>3, <1>5, <2>1, InvFacts DEF EntryIn
  <2> QED BY <1>1, <1>2, <2>2, <2>3, InvFacts, AnswerKeeps
<1>6. CASE task[d].state # "saved"
  <2>1. PICK e : e = [id |-> d, at |-> "conflict", model |-> [at |-> Now, rows |-> RowsAt(Now)]]
    OBVIOUS
  <2>2. Becomes(i, e)
    BY <1>6, <2>1 DEF ReadReceipt
  <2>3. e.id = d /\ e.at = "conflict" /\ e.model.at = Now /\ e.model.rows = RowsAt(Now)
    BY <2>1
  <2>4. Had(rowsAt, e.model)
    BY <2>3, InvFacts, RowsOfNow
  <2>5. EntryIn(e, task, command, rowsAt)
    BY <1>3, <1>4, <1>6, <2>3, <2>4 DEF EntryIn
  <2> QED BY <1>1, <1>2, <2>2, <2>3, <2>5, InvFacts, AnswerKeeps
<1> QED BY <1>5, <1>6

LEMMA ReceiptFailsKeeps ==
  ASSUME SessionInv, NEW i \in DOMAIN queue, ReceiptFails(i)
  PROVE  SessionInv'
<1>1. i \in 1..Len(queue) /\ queue[i].at = "waiting"
  BY InvFacts DEF ReceiptFails, Oldest, Is
<1>2. PICK e : e = At(i, "failed")
  OBVIOUS
<1>3. /\ UNCHANGED <<rowsAt, task, command, page, held, status, loopVars, undoVars, notSaved>>
      /\ late' = late /\ UNCHANGED read /\ Becomes(i, e)
  BY <1>2 DEF ReceiptFails, serviceVars
<1>4. e.id = queue[i].id /\ EntryIn(e, task, command, rowsAt)
  BY <1>1, <1>2, InvFacts DEF At, QueueIn, EntryIn
<1> QED BY <1>1, <1>3, <1>4, InvFacts, AnswerKeeps

-----------------------------------------------------------------------------
(* The loop over the queue.                                                *)
\* The head of the queue is final, and its model is the one of the loop.
LEMMA ConfirmKeeps ==
  ASSUME SessionInv, NEW model, Confirm(model), Had(rowsAt, model), Len(queue) >= 1,
         UNCHANGED <<rowsAt, task, late, command, held, undoing, notSaved>>,
         newestRunRevision' \in 0..Now, DOMAIN read' = Readers,
         ReadsIn(read', rowsAt, newestRunRevision'), read'["loop"] = NoRead,
         \A j \in Readers : j # "loop" => read'[j] = read[j],
         Len(queue) = 1 => model.at >= newestRunRevision'
  PROVE  SessionInv'
<1>1. /\ currentModel' = model /\ page' = Latest(page, model) /\ queue' = Tail(queue)
      /\ status' = IF Len(queue) = 1 THEN "saved" ELSE "saving"
  BY DEF Confirm
<1>2. Had(rowsAt, page') /\ page'.at >= model.at
  BY <1>1, InvFacts, LatestHad
<1>3. QueueIn(queue', task, command, rowsAt) /\ Len(queue') = Len(queue) - 1
  BY <1>1, InvFacts, QueueWithoutHead
<1>4. Len(queue) = 1 => queue' = <<>>
  BY <1>3, InvFacts, SequenceFacts DEF QueueIn
<1>5. ModeOK'
  <2>1. queue # <<>>
    BY InvFacts
  <2>2. /\ read["manual"] = NoRead /\ read["undo"] = NoRead /\ undoing = NoDecision
        /\ held = <<>>
    BY <2>1, InvFacts DEF ModeOK, Held
  <2>3. read'["manual"] = NoRead /\ read'["undo"] = NoRead
    BY <2>2 DEF Readers
  <2> QED BY <1>1, <1>4, <2>2, <2>3 DEF ModeOK, Held
<1>6. SavedIsNewest'
  <2>1. model.at \in Nat /\ page'.at \in Nat /\ newestRunRevision' \in Nat
    BY <1>2, InvFacts DEF Had
  <2> QED BY <1>1, <1>2, <2>1 DEF SavedIsNewest
<1> QED BY <1>1, <1>2, <1>3, <1>5, <1>6, InvFacts, PageKeeps

\* Reads that confirm the loop or an Undo do not run with a receipt at the head.
LEMMA NewestRises ==
  ASSUME SessionInv, Is(1, {"saved"}), NEW newest \in Nat, NEW all, DOMAIN all = Readers,
         ReadsIn(all, rowsAt, newestRunRevision),
         all["loop"].at \notin {"run", "answered"}, all["undo"].at \notin {"run", "answered"}
  PROVE  ReadsIn(all, rowsAt, newest)
<1> SUFFICES ASSUME NEW k \in Readers PROVE ReadIn(k, all[k], rowsAt, newest)
  BY DEF ReadsIn
<1>1. ReadIn(k, all[k], rowsAt, newestRunRevision)
  BY DEF ReadsIn
<1> QED BY <1>1 DEF ReadIn

LEMMA MaxOfTwo ==
  ASSUME NEW m \in Nat, NEW n \in Nat
  PROVE  Max({m, n}) \in {m, n} /\ Max({m, n}) >= m /\ Max({m, n}) >= n
<1>1. \E x \in {m, n} : \A y \in {m, n} : x >= y
  <2>1. CASE m >= n
    BY <2>1
  <2>2. CASE ~(m >= n)
    BY <2>2
  <2> QED BY <2>1, <2>2
<1>2. Max({m, n}) \in {m, n} /\ \A y \in {m, n} : Max({m, n}) >= y
  BY <1>1 DEF Max
<1> QED BY <1>2

\* The rows that a receipt does not name are those of the model before it.
LEMMA AppliedHad ==
  ASSUME NEW rows, IsSequence(rows), NEW model, Had(rows, model), NEW c, NEW receipt,
         ReceiptIn(receipt, c.verdict, rows), receipt.runRevision = model.at + 1
  PROVE  Had(rows, Applied(model, c, receipt))
         /\ Applied(model, c, receipt).at = receipt.runRevision
<1> DEFINE m == Applied(model, c, receipt)
<1>1. /\ m.at = receipt.runRevision
      /\ \A s \in Shots : m.rows[s] = IF s \in DOMAIN receipt.revisions
           THEN [revision |-> receipt.revisions[s], verdict |-> c.verdict] ELSE model.rows[s]
  BY DEF Applied
<1> HIDE DEF m
<1>2. Len(rows) \in Nat /\ model.at \in 0..(Len(rows) - 1)
      /\ receipt.runRevision \in 1..(Len(rows) - 1)
  BY SequenceFacts DEF Had, ReceiptIn
<1>3. m.at \in 0..(Len(rows) - 1) /\ m.at \in m.at..(Len(rows) - 1)
  BY <1>1, <1>2
<1>4. ASSUME NEW s \in Shots
      PROVE  \E r \in m.at..(Len(rows) - 1) : m.rows[s] = rows[r + 1][s]
  <2>1. CASE s \in DOMAIN receipt.revisions
    <3>1. m.rows[s] = rows[m.at + 1][s]
      BY <1>1, <2>1 DEF ReceiptIn
    <3> QED BY <1>3, <3>1
  <2>2. CASE s \notin DOMAIN receipt.revisions
    <3>1. m.rows[s] = model.rows[s] /\ rows[m.at + 1][s] = rows[m.at][s]
      BY <1>1, <2>2 DEF ReceiptIn
    <3>2. PICK r \in model.at..(Len(rows) - 1) : model.rows[s] = rows[r + 1][s]
      BY DEF Had
    <3>3. CASE r = model.at
      <4>1. r + 1 = m.at
        BY <1>1, <3>3
      <4> QED BY <1>3, <3>1, <3>2, <4>1
    <3>4. CASE r # model.at
      <4>1. r \in m.at..(Len(rows) - 1)
        BY <1>1, <1>2, <3>4
      <4> QED BY <3>1, <3>2, <4>1
    <3> QED BY <3>3, <3>4
  <2> QED BY <2>1, <2>2
<1>5. Had(rows, m)
  BY <1>3, <1>4 DEF Had
<1> QED BY <1>1, <1>5 DEF m

LEMMA TakeSavedKeeps ==
  ASSUME SessionInv, TakeSaved
  PROVE  SessionInv'
<1> DEFINE d == queue[1].id
           newest == Max({newestRunRevision, queue[1].currentRunRevision})
<1>1. 1 \in 1..Len(queue) /\ Len(queue) >= 1 /\ queue[1].at = "saved" /\ queue # <<>>
  BY InvFacts DEF TakeSaved, Is
<1>2. UNCHANGED <<rowsAt, task, late, command, held, undoing, notSaved>>
  BY DEF TakeSaved, serviceVars
<1>3. /\ d \in Decisions /\ task[d].state = "saved" /\ queue[1].currentRunRevision \in 0..Now
  BY <1>1, InvFacts DEF QueueIn, EntryIn
<1>4. newest \in 0..Now /\ newest >= newestRunRevision /\ newest \in Nat
  <2>1. newestRunRevision \in Nat /\ queue[1].currentRunRevision \in Nat
    BY <1>3, InvFacts
  <2>2. newest \in {newestRunRevision, queue[1].currentRunRevision} /\ newest >= newestRunRevision
    BY <2>1, MaxOfTwo
  <2> QED BY <1>3, <2>1, <2>2, InvFacts
<1>5. newestRunRevision' = newest
  BY DEF TakeSaved
<1>6. ReceiptIn(task[d], command[d].verdict, rowsAt)
  BY <1>3 DEF SessionInv, ServiceOK, TasksIn, TaskIn
<1>7. read["loop"] = NoRead /\ read["undo"] = NoRead /\ status # "idle"
      /\ read["manual"] = NoRead
  BY <1>1, InvFacts DEF ModeOK, Is, Held
<1> HIDE DEF newest
<1>8. CASE Applies(currentModel, command[d], task[d]) /\ IsCurrent(newest, task[d])
  <2>1. PICK model : model = Applied(currentModel, command[d], task[d])
    OBVIOUS
  <2>2. Confirm(model) /\ UNCHANGED read
    BY <1>8, <2>1 DEF TakeSaved, newest
  <2>3. Had(rowsAt, model) /\ model.at = task[d].runRevision
    BY <1>6, <1>8, <2>1, InvFacts, AppliedHad DEF Applies, Follows
  <2>4. Len(queue) = 1 => model.at >= newestRunRevision'
    <3>1. Len(queue) = 1 => newest = task[d].runRevision
      BY <1>8 DEF IsCurrent
    <3> QED BY <1>4, <1>5, <2>3, <3>1
  <2>5. ReadsIn(read', rowsAt, newestRunRevision')
    BY <1>4, <1>5, <1>7, <2>2, InvFacts, IdleRead, NewestRises DEF TakeSaved
  <2> QED BY <1>1, <1>2, <1>4, <1>5, <1>7, <2>2, <2>3, <2>4, <2>5, InvFacts, ConfirmKeeps
<1>9. CASE ~(Applies(currentModel, command[d], task[d]) /\ IsCurrent(newest, task[d]))
  <2>1. PICK e : e = At(1, "confirming")
    OBVIOUS
  <2>2. /\ Becomes(1, e) /\ read' = [read EXCEPT !["loop"] = Sent]
        /\ UNCHANGED <<currentModel, page, history, status>>
    BY <1>9, <2>1 DEF TakeSaved, newest, Asked
  <2>3. e.id = d /\ e.at = "confirming" /\ EntryIn(e, task, command, rowsAt)
    <3>1. EntryIn(queue[1], task, command, rowsAt)
      BY <1>1, InvFacts DEF QueueIn
    <3> QED BY <2>1, <3>1 DEF At, EntryIn
  <2>4. QueueIn(queue', task, command, rowsAt)
    BY <1>1, <2>2, <2>3, BecomesKeepsQueue
  <2>5. "loop" \in Readers /\ "undo" \in Readers
    BY DEF Readers
  <2>6. /\ DOMAIN read' = Readers /\ ReadsIn(read', rowsAt, newestRunRevision)
        /\ read'["loop"] = Sent /\ \A j \in Readers : j # "loop" => read'[j] = read[j]
    BY <2>2, <2>5, InvFacts, IdleRead, UnendedRead, ReadSet
  <2>7. ReadsIn(read', rowsAt, newestRunRevision')
    BY <1>4, <1>5, <1>7, <2>5, <2>6, IdleRead, NewestRises DEF TakeSaved
  <2>8. status = "saving"
    BY <1>1, InvFacts DEF ModeOK, Held
  <2>9. ModeOK' /\ SavedIsNewest'
    BY <1>1, <1>2, <2>2, <2>3, <2>6, <2>8, BecomesKeepsMode DEF SavedIsNewest
  <2> QED BY <1>2, <1>4, <1>5, <2>2, <2>4, <2>6, <2>7, <2>9, InvFacts, PageKeeps
<1> QED BY <1>8, <1>9

LEMMA ConfirmReadKeeps ==
  ASSUME SessionInv, ConfirmRead
  PROVE  SessionInv'
<1>1. Len(queue) >= 1
  BY InvFacts DEF ConfirmRead, Is
<1>2. PICK model : model = read["loop"].model
  OBVIOUS
<1>3. Confirm(model) /\ read' = [read EXCEPT !["loop"] = NoRead] /\ "loop" \in Readers
  BY <1>2 DEF ConfirmRead, Done, Readers
<1>4. UNCHANGED <<rowsAt, task, late, command, held, undoing, notSaved, newestRunRevision>>
  BY DEF ConfirmRead, serviceVars
<1>5. Had(rowsAt, model) /\ model.at >= newestRunRevision
  BY <1>2, <1>3, InvFacts DEF ConfirmRead, ReadsIn, ReadIn
<1>6. /\ DOMAIN read' = Readers /\ ReadsIn(read', rowsAt, newestRunRevision)
      /\ read'["loop"] = NoRead /\ \A j \in Readers : j # "loop" => read'[j] = read[j]
  BY <1>3, InvFacts, IdleRead, UnendedRead, ReadSet
<1> QED BY <1>1, <1>3, <1>4, <1>5, <1>6, InvFacts, ConfirmKeeps

\* The requests that the page gives up are of its queue.
LEMMA AbortedLate ==
  ASSUME SessionInv, Abort, UNCHANGED command
  PROVE  \A d \in late' : d \in Decisions /\ command[d] # NoTask
<1>1. \A i \in DOMAIN queue : queue[i].id \in Decisions /\ command[queue[i].id] # NoTask
  BY InvFacts DEF QueueIn, EntryIn
<1>2. late' = late \/ \E i \in DOMAIN queue : late' = late \cup {queue[i].id}
  BY DEF Abort
<1> QED BY <1>1, <1>2, InvFacts

LEMMA FailsKeeps ==
  ASSUME SessionInv, Fails, Is(1, {"failed", "confirming"})
  PROVE  SessionInv'
<1>1. /\ UNCHANGED <<rowsAt, task, command, page, held, currentModel, newestRunRevision,
                     undoing, notSaved>>
      /\ status' = "error"
  BY DEF Fails, serviceVars, loopVars, undoVars
<1>2. queue' = [i \in 1..Len(queue) |-> [id |-> queue[i].id, at |-> "held"]]
  BY InvFacts DEF Fails
<1>3. ASSUME NEW i \in 1..Len(queue)
      PROVE  /\ queue'[i].id = queue[i].id /\ queue'[i].at = "held"
             /\ EntryIn(queue'[i], task, command, rowsAt)
  <2>1. queue'[i] = [id |-> queue[i].id, at |-> "held"]
    BY <1>2
  <2>2. EntryIn(queue[i], task, command, rowsAt)
    BY InvFacts DEF QueueIn
  <2>3. queue'[i].id = queue[i].id /\ queue'[i].at = "held"
    BY <2>1
  <2> QED BY <2>2, <2>3 DEF EntryIn
<1>4. queue' = [i \in 1..Len(queue) |-> queue'[i]]
  BY <1>2
<1>5. QueueIn(queue', task, command, rowsAt) /\ Len(queue') = Len(queue)
  BY <1>3, <1>4, InvFacts, QueueRenewed
<1>6. PICK all : all = [read EXCEPT !["loop"] = NoRead]
  OBVIOUS
<1>7. "loop" \in Readers /\ "admission" \in Readers
  BY DEF Readers
<1>8. /\ DOMAIN all = Readers /\ ReadsIn(all, rowsAt, newestRunRevision)
      /\ all["loop"] = NoRead /\ \A j \in Readers : j # "loop" => all[j] = read[j]
  BY <1>6, <1>7, InvFacts, IdleRead, UnendedRead, ReadSet
<1>9. read' = [all EXCEPT !["admission"] = NoRead]
  <2>1. read' = [read EXCEPT !["loop"] = NoRead, !["admission"] = NoRead]
    BY DEF Fails
  <2> QED BY <1>6, <2>1, Zenon
<1>10. /\ DOMAIN read' = Readers /\ ReadsIn(read', rowsAt, newestRunRevision)
       /\ \A j \in Readers : j # "admission" => read'[j] = all[j]
  <2>1. ReadIn("admission", NoRead, rowsAt, newestRunRevision)
    BY IdleRead, UnendedRead
  <2> QED BY <1>7, <1>8, <1>9, <2>1, ReadSet
<1>11. ModeOK'
  <2>1. queue # <<>>
    BY InvFacts DEF Is
  <2>2. /\ read["manual"] = NoRead /\ read["undo"] = NoRead /\ undoing = NoDecision
        /\ held = <<>> /\ Held(held)
    BY <2>1, InvFacts DEF ModeOK
  <2>3. read'["manual"] = NoRead /\ read'["undo"] = NoRead /\ read'["loop"] = NoRead
    BY <1>8, <1>10, <2>2 DEF Readers
  <2>4. Held(queue)' /\ Held(held)'
    BY <1>1, <1>3, <1>5, <2>2 DEF Held
  <2> QED BY <1>1, <2>2, <2>3, <2>4 DEF ModeOK
<1>12. SavedIsNewest'
  BY <1>1 DEF SavedIsNewest
<1>13. \A d \in late' : d \in Decisions /\ command[d] # NoTask
  BY <1>1, AbortedLate DEF Fails
<1> QED BY <1>1, <1>5, <1>10, <1>11, <1>12, <1>13, InvFacts, PageKeeps

\* No decision of a queue that begins with a refusal is saved.
LEMMA TakeConflictKeeps ==
  ASSUME SessionInv, TakeConflict
  PROVE  SessionInv'
<1>1. /\ UNCHANGED <<rowsAt, task, command, held, currentModel, newestRunRevision, undoing>>
      /\ status' = "conflict" /\ queue' = <<>>
  BY DEF TakeConflict, serviceVars, loopVars, undoVars
<1>2. 1 \in 1..Len(queue) /\ queue # <<>> /\ queue[1].at = "conflict"
  BY InvFacts DEF TakeConflict, Is
<1>3. EntryIn(queue[1], task, command, rowsAt)
  BY <1>2, InvFacts DEF QueueIn
<1>4. Had(rowsAt, page')
  BY <1>2, <1>3, InvFacts, LatestHad DEF TakeConflict, EntryIn
<1>5. NotSavedIn(notSaved', task, command)
  <2>1. notSaved' = notSaved \cup {queue[i].id : i \in 1..Len(queue)}
    BY InvFacts DEF TakeConflict
  <2>2. ASSUME NEW i \in 1..Len(queue)
        PROVE  /\ queue[i].id \in Decisions /\ command[queue[i].id] # NoTask
               /\ task[queue[i].id].state # "saved"
               /\ Ended(task[queue[i].id]) \/ command[queue[i].id].previous \in notSaved'
    <3>1. queue[i].id \in Decisions /\ command[queue[i].id] # NoTask
      BY InvFacts DEF QueueIn, EntryIn
    <3>2. Ended(task[queue[1].id])
      BY <1>2, <1>3 DEF EntryIn
    <3>3. CASE i = 1
      BY <3>1, <3>2, <3>3 DEF Ended
    <3>4. CASE i # 1
      <4>1. i \in 2..Len(queue) /\ 1 \in 1..i - 1 /\ i - 1 \in 1..Len(queue)
        BY <3>4, InvFacts
      <4>2. command[queue[i].id].previous = queue[i - 1].id
        BY <4>1, InvFacts DEF QueueIn
      <4>3. task[queue[i].id].state = "saved" => task[queue[1].id].state = "saved"
        BY <4>1, InvFacts DEF QueueIn
      <4> QED BY <2>1, <3>1, <3>2, <4>1, <4>2, <4>3 DEF Ended
    <3> QED BY <3>3, <3>4
  <2> QED BY <2>1, <2>2, InvFacts DEF NotSavedIn
<1>6. QueueIn(queue', task, command, rowsAt)
  BY <1>1, EmptyQueue
<1>7. PICK all : all = [read EXCEPT !["admission"] = NoRead]
  OBVIOUS
<1>8. "refusal" \in Readers /\ "admission" \in Readers
  BY DEF Readers
<1>9. /\ DOMAIN all = Readers /\ ReadsIn(all, rowsAt, newestRunRevision)
      /\ \A j \in Readers : j # "admission" => all[j] = read[j]
  BY <1>7, <1>8, InvFacts, IdleRead, UnendedRead, ReadSet
<1>10. PICK x : x = IF queue[1].model.at < newestRunRevision THEN Sent ELSE all["refusal"]
  OBVIOUS
<1>11. read' = [all EXCEPT !["refusal"] = x]
  BY <1>7, <1>9, <1>10 DEF TakeConflict, Done
<1>12. ReadIn("refusal", x, rowsAt, newestRunRevision)
  BY <1>8, <1>9, <1>10, IdleRead, UnendedRead DEF ReadsIn
<1>13. /\ DOMAIN read' = Readers /\ ReadsIn(read', rowsAt, newestRunRevision)
       /\ \A j \in Readers : j # "refusal" => read'[j] = all[j]
  BY <1>8, <1>9, <1>11, <1>12, ReadSet
<1>14. ModeOK'
  <2>1. /\ read["manual"] = NoRead /\ read["undo"] = NoRead /\ undoing = NoDecision
        /\ held = <<>> /\ Held(held) /\ read["loop"] = NoRead
    BY <1>2, InvFacts DEF ModeOK, Is
  <2>2. read'["manual"] = NoRead /\ read'["undo"] = NoRead /\ read'["loop"] = NoRead
    BY <1>9, <1>13, <2>1 DEF Readers
  <2>3. Held(held)'
    BY <1>1, <2>1 DEF Held
  <2> QED BY <1>1, <2>1, <2>2, <2>3 DEF ModeOK
<1>15. SavedIsNewest'
  BY <1>1 DEF SavedIsNewest
<1>16. \A d \in late' : d \in Decisions /\ command[d] # NoTask
  BY <1>1, AbortedLate DEF TakeConflict
<1> QED BY <1>1, <1>4, <1>5, <1>6, <1>13, <1>14, <1>15, <1>16, InvFacts, PageKeeps

-----------------------------------------------------------------------------
(* A manual read, and Undo.                                                *)
LEMMA RefreshKeeps ==
  ASSUME SessionInv, Refresh
  PROVE  SessionInv'
<1>1. /\ UNCHANGED <<rowsAt, task, late, command, page, currentModel, newestRunRevision,
                     undoing, notSaved>>
      /\ status \in {"error", "conflict"} /\ status' = "saving" /\ queue' = <<>>
      /\ held' = queue /\ read' = [read EXCEPT !["manual"] = Sent]
  BY DEF Refresh, serviceVars, loopVars, undoVars, Asked
<1>2. "manual" \in Readers
  BY DEF Readers
<1>3. /\ DOMAIN read' = Readers /\ ReadsIn(read', rowsAt, newestRunRevision)
      /\ read'["manual"] = Sent /\ \A j \in Readers : j # "manual" => read'[j] = read[j]
  BY <1>1, <1>2, InvFacts, IdleRead, UnendedRead, ReadSet
<1>4. ModeOK'
  <2>1. /\ read["undo"] = NoRead /\ read["loop"] = NoRead
        /\ undoing # NoDecision => queue = <<>>
    BY <1>1, InvFacts DEF ModeOK
  <2>2. Held(queue)
    <3>1. CASE status = "error"
      BY <3>1, InvFacts DEF ModeOK
    <3>2. CASE status # "error"
      BY <1>1, <3>2, InvFacts DEF ModeOK, Held
    <3> QED BY <3>1, <3>2
  <2>3. Held(held)'
    BY <1>1, <2>2 DEF Held
  <2>4. read'["undo"] = NoRead /\ read'["loop"] = NoRead /\ read'["manual"] # NoRead
    BY <1>3, <2>1, IdleRead DEF Readers
  <2> QED BY <1>1, <2>1, <2>3, <2>4 DEF ModeOK
<1>5. SavedIsNewest'
  BY <1>1 DEF SavedIsNewest
<1>6. QueueIn(queue', task, command, rowsAt) /\ QueueIn(held', task, command, rowsAt)
  BY <1>1, InvFacts, EmptyQueue
<1> QED BY <1>1, <1>3, <1>4, <1>5, <1>6, InvFacts, PageKeeps

LEMMA RefreshedKeeps ==
  ASSUME SessionInv, Refreshed
  PROVE  SessionInv'
<1>1. /\ UNCHANGED <<rowsAt, task, late, command, queue, currentModel, newestRunRevision,
                     notSaved>>
      /\ status' = "idle" /\ held' = <<>> /\ undoing' = NoDecision
      /\ read["manual"].at = "answered" /\ read' = [read EXCEPT !["manual"] = NoRead]
  BY DEF Refreshed, serviceVars, loopVars, Done
<1>2. "manual" \in Readers
  BY DEF Readers
<1>3. /\ DOMAIN read' = Readers /\ ReadsIn(read', rowsAt, newestRunRevision)
      /\ read'["manual"] = NoRead /\ \A j \in Readers : j # "manual" => read'[j] = read[j]
  BY <1>1, <1>2, InvFacts, IdleRead, UnendedRead, ReadSet
<1>4. ModeOK'
  <2>1. read["manual"] # NoRead
    BY <1>1, IdleRead
  <2>2. queue = <<>> /\ read["undo"] = NoRead /\ read["loop"] = NoRead
    BY <2>1, InvFacts DEF ModeOK, Is
  <2>3. read'["undo"] = NoRead /\ read'["loop"] = NoRead
    BY <1>3, <2>2 DEF Readers
  <2>4. Held(held)'
    BY <1>1, EmptySeq DEF Held
  <2> QED BY <1>1, <1>3, <2>2, <2>3, <2>4 DEF ModeOK
<1>5. Had(rowsAt, page')
  <2>1. Had(rowsAt, read["manual"].model)
    BY <1>1, <1>2, InvFacts DEF ReadsIn, ReadIn
  <2> QED BY <2>1, InvFacts, LatestHad DEF Refreshed
<1>6. SavedIsNewest'
  BY <1>1 DEF SavedIsNewest
<1>7. QueueIn(held', task, command, rowsAt)
  BY <1>1, EmptyQueue
<1> QED BY <1>1, <1>3, <1>4, <1>5, <1>6, <1>7, InvFacts, PageKeeps

LEMMA RefreshFailsKeeps ==
  ASSUME SessionInv, RefreshFails
  PROVE  SessionInv'
<1>1. /\ UNCHANGED <<rowsAt, task, late, command, page, currentModel, newestRunRevision,
                     undoing, notSaved>>
      /\ status' = "error" /\ held' = <<>> /\ queue' = held
      /\ read["manual"] # NoRead /\ read' = [read EXCEPT !["manual"] = NoRead]
  BY DEF RefreshFails, serviceVars, loopVars, undoVars, Done
<1>2. "manual" \in Readers
  BY DEF Readers
<1>3. /\ DOMAIN read' = Readers /\ ReadsIn(read', rowsAt, newestRunRevision)
      /\ read'["manual"] = NoRead /\ \A j \in Readers : j # "manual" => read'[j] = read[j]
  BY <1>1, <1>2, InvFacts, IdleRead, UnendedRead, ReadSet
<1>4. ModeOK'
  <2>1. /\ queue = <<>> /\ read["undo"] = NoRead /\ read["loop"] = NoRead /\ Held(held)
        /\ undoing # NoDecision => held = <<>>
    BY <1>1, InvFacts DEF ModeOK, Is
  <2>2. read'["undo"] = NoRead /\ read'["loop"] = NoRead
    BY <1>3, <2>1 DEF Readers
  <2>3. Held(held)' /\ Held(queue)'
    BY <1>1, <2>1, EmptySeq DEF Held
  <2> QED BY <1>1, <1>3, <2>1, <2>2, <2>3 DEF ModeOK
<1>5. SavedIsNewest'
  BY <1>1 DEF SavedIsNewest
<1>6. QueueIn(queue', task, command, rowsAt) /\ QueueIn(held', task, command, rowsAt)
  BY <1>1, InvFacts, EmptyQueue
<1> QED BY <1>1, <1>3, <1>4, <1>5, <1>6, InvFacts, PageKeeps

LEMMA BeginUndoKeeps ==
  ASSUME SessionInv, BeginUndo
  PROVE  SessionInv'
<1>1. /\ UNCHANGED <<rowsAt, task, late, command, page, queue, held, currentModel,
                     newestRunRevision, notSaved>>
      /\ status # "saving" /\ status' = "saving" /\ (status = "error" => undoing # NoDecision)
  BY DEF BeginUndo, serviceVars, loopVars, Busy
<1>2. PICK all : all = [read EXCEPT !["return"] = NoRead]
  OBVIOUS
<1>3. PICK posted : posted = [at |-> "posted"]
  OBVIOUS
<1>4. "return" \in Readers /\ "undo" \in Readers
  BY DEF Readers
<1>5. /\ DOMAIN all = Readers /\ ReadsIn(all, rowsAt, newestRunRevision)
      /\ \A j \in Readers : j # "return" => all[j] = read[j]
  BY <1>2, <1>4, InvFacts, IdleRead, UnendedRead, ReadSet
<1>6. read' = [all EXCEPT !["undo"] = posted]
  BY <1>2, <1>3 DEF BeginUndo, Done
<1>7. posted.at = "posted"
  BY <1>3
<1>8. /\ DOMAIN read' = Readers /\ ReadsIn(read', rowsAt, newestRunRevision)
      /\ \A j \in Readers : j # "undo" => read'[j] = all[j]
  <2>1. ReadIn("undo", posted, rowsAt, newestRunRevision)
    BY <1>7, UnendedRead
  <2> QED BY <1>4, <1>5, <1>6, <2>1, ReadSet
<1>9. ModeOK'
  <2>1. queue = <<>> /\ read["manual"] = NoRead /\ held = <<>> /\ read["loop"] = NoRead
        /\ Held(held)
    BY <1>1, InvFacts DEF ModeOK
  <2>2. read'["manual"] = NoRead /\ read'["loop"] = NoRead
    BY <1>5, <1>8, <2>1 DEF Readers
  <2>3. Held(held)'
    BY <1>1, <2>1 DEF Held
  <2> QED BY <1>1, <2>1, <2>2, <2>3 DEF ModeOK
<1>10. SavedIsNewest'
  BY <1>1 DEF SavedIsNewest
<1> QED BY <1>1, <1>8, <1>9, <1>10, InvFacts, PageKeeps

\* The service takes an Undo: a step of the service and of its read.
LEMMA ServeUndoKeeps ==
  ASSUME SessionAssumption, SessionInv, ServeUndo
  PROVE  SessionInv'
<1>1. /\ UNCHANGED <<task, late, command, page, queue, held, status, currentModel,
                     newestRunRevision, notSaved>>
      /\ read["undo"].at = "posted" /\ read' = [read EXCEPT !["undo"] = Sent]
  BY DEF ServeUndo, loopVars, Asked
<1>2. IsSequence(rowsAt') /\ Extends(rowsAt, rowsAt')
  BY RowsStay, RowsGrow DEF ServeUndo
<1>3. Advances /\ TasksIn(task', command', rowsAt') /\ DOMAIN task' = Decisions
  BY <1>1, <1>2, TasksStay
<1>4. "undo" \in Readers
  BY DEF Readers
<1>5. /\ DOMAIN read' = Readers /\ ReadsIn(read', rowsAt', newestRunRevision)
      /\ read'["undo"] = Sent /\ \A j \in Readers : j # "undo" => read'[j] = read[j]
  BY <1>1, <1>3, <1>4, StateStays, InvFacts, IdleRead, UnendedRead, ReadSet
<1>6. ModeOK'
  <2>1. read["undo"] # NoRead
    BY <1>1, IdleRead
  <2>2. /\ queue = <<>> /\ status = "saving" /\ read["manual"] = NoRead /\ held = <<>>
        /\ read["loop"] = NoRead /\ Held(held)
    BY <2>1, InvFacts DEF ModeOK, Is
  <2>3. read'["manual"] = NoRead /\ read'["loop"] = NoRead
    BY <1>5, <2>2 DEF Readers
  <2>4. Held(held)'
    BY <1>1, <2>2 DEF Held
  <2> QED BY <1>1, <2>2, <2>3, <2>4 DEF ModeOK
<1>7. ServiceOK'
  BY <1>1, <1>3, <1>5, StateStays, InvFacts DEF ServiceOK, Advances
<1>8. SavedIsNewest'
  BY <1>1, InvFacts DEF SavedIsNewest
<1> QED BY <1>1, <1>3, <1>5, <1>6, <1>7, <1>8, StateStays DEF SessionInv, Now

LEMMA UndoAnsweredKeeps ==
  ASSUME SessionInv, UndoAnswered
  PROVE  SessionInv'
<1>1. /\ UNCHANGED <<rowsAt, task, late, command, queue, held, currentModel,
                     newestRunRevision, notSaved>>
      /\ status' \in {"saved", "conflict"} /\ undoing' = NoDecision
      /\ read["undo"].at = "answered" /\ read' = [read EXCEPT !["undo"] = NoRead]
  BY DEF UndoAnswered, serviceVars, loopVars, Done
<1>2. "undo" \in Readers
  BY DEF Readers
<1>3. /\ DOMAIN read' = Readers /\ ReadsIn(read', rowsAt, newestRunRevision)
      /\ read'["undo"] = NoRead /\ \A j \in Readers : j # "undo" => read'[j] = read[j]
  BY <1>1, <1>2, InvFacts, IdleRead, UnendedRead, ReadSet
<1>4. ModeOK'
  <2>1. read["undo"] # NoRead
    BY <1>1, IdleRead
  <2>2. /\ queue = <<>> /\ read["manual"] = NoRead /\ held = <<>>
        /\ read["loop"] = NoRead /\ Held(held)
    BY <2>1, InvFacts DEF ModeOK, Is
  <2>3. read'["manual"] = NoRead /\ read'["loop"] = NoRead
    BY <1>3, <2>2 DEF Readers
  <2>4. Held(held)'
    BY <1>1, <2>2 DEF Held
  <2> QED BY <1>1, <1>3, <2>2, <2>3, <2>4 DEF ModeOK
<1>5. Had(rowsAt, read["undo"].model) /\ read["undo"].model.at >= newestRunRevision
  BY <1>1, <1>2, InvFacts DEF ReadsIn, ReadIn
<1>6. Had(rowsAt, page') /\ page'.at >= read["undo"].model.at
  BY <1>5, InvFacts, LatestHad DEF UndoAnswered
<1>7. SavedIsNewest'
  <2>1. read["undo"].model.at \in Nat /\ page'.at \in Nat /\ newestRunRevision \in Nat
    BY <1>5, <1>6, InvFacts DEF Had
  <2> QED BY <1>1, <1>5, <1>6, <2>1 DEF SavedIsNewest
<1> QED BY <1>1, <1>3, <1>4, <1>6, <1>7, InvFacts, PageKeeps

LEMMA UndoFailsKeeps ==
  ASSUME SessionInv, UndoFails
  PROVE  SessionInv'
<1>1. /\ UNCHANGED <<rowsAt, task, late, command, page, queue, held, currentModel,
                     newestRunRevision, undoing, notSaved>>
      /\ status' = "error" /\ read["undo"] # NoRead
      /\ read' = [read EXCEPT !["undo"] = NoRead]
  BY DEF UndoFails, serviceVars, loopVars, undoVars, Done
<1>2. "undo" \in Readers
  BY DEF Readers
<1>3. /\ DOMAIN read' = Readers /\ ReadsIn(read', rowsAt, newestRunRevision)
      /\ read'["undo"] = NoRead /\ \A j \in Readers : j # "undo" => read'[j] = read[j]
  BY <1>1, <1>2, InvFacts, IdleRead, UnendedRead, ReadSet
<1>4. ModeOK'
  <2>1. /\ queue = <<>> /\ read["manual"] = NoRead /\ held = <<>>
        /\ read["loop"] = NoRead /\ Held(held)
    BY <1>1, InvFacts DEF ModeOK, Is
  <2>2. read'["manual"] = NoRead /\ read'["loop"] = NoRead
    BY <1>3, <2>1 DEF Readers
  <2>3. Held(held)' /\ Held(queue)'
    BY <1>1, <2>1, EmptySeq DEF Held
  <2> QED BY <1>1, <1>3, <2>1, <2>2, <2>3 DEF ModeOK
<1>5. SavedIsNewest'
  BY <1>1 DEF SavedIsNewest
<1> QED BY <1>1, <1>3, <1>4, <1>5, InvFacts, PageKeeps

-----------------------------------------------------------------------------
LEMMA SessionInitInv ==
  ASSUME SessionInit
  PROVE  SessionInv
<1>1. PICK rows : rows = <<Fresh>>
  OBVIOUS
<1>2. IsSequence(rows) /\ Len(rows) = 1 /\ rows[1] = Fresh
  <2>1. <<Fresh>> \in Seq({Fresh})
    OBVIOUS
  <2> QED BY <1>1, <2>1 DEF IsSequence
<1>3. rowsAt = rows
  BY <1>1 DEF SessionInit
<1>4. \A m : m.at = 0 /\ m.rows = Fresh => Had(rows, m)
  <2> SUFFICES ASSUME NEW m, m.at = 0, m.rows = Fresh
               PROVE  Had(rows, m)
    OBVIOUS
  <2>1. 0 \in 0..(Len(rows) - 1) /\ \A s \in Shots : m.rows[s] = rows[0 + 1][s]
    BY <1>2
  <2> QED BY <2>1 DEF Had
<1>5. Had(rowsAt, page) /\ Had(rowsAt, currentModel)
  <2>1. page.at = 0 /\ page.rows = Fresh /\ currentModel = page
    BY DEF SessionInit
  <2> QED BY <1>3, <1>4, <2>1
<1>6. ServiceOK
  BY <1>2, <1>3, IdleRead DEF SessionInit, ServiceOK, TasksIn, TaskIn, NoTask
<1>7. QueueIn(queue, task, command, rowsAt) /\ QueueIn(held, task, command, rowsAt)
  BY EmptyQueue DEF SessionInit
<1>8. newestRunRevision \in 0..Now
  BY <1>2, <1>3 DEF SessionInit, Now
<1>9. ReadsIn(read, rowsAt, newestRunRevision)
  BY IdleRead, UnendedRead DEF SessionInit, ReadsIn
<1>10. ModeOK
  BY EmptySeq DEF SessionInit, ModeOK, Held, Readers
<1>11. SavedIsNewest /\ NotSavedIn(notSaved, task, command)
  BY DEF SessionInit, SavedIsNewest, NotSavedIn
<1> QED BY <1>5, <1>6, <1>7, <1>8, <1>9, <1>10, <1>11 DEF SessionInv

LEMMA SessionStutters ==
  ASSUME SessionInv, UNCHANGED sessionVars
  PROVE  SessionInv'
<1>1. UNCHANGED <<rowsAt, task, late, command, page, queue, held, status, currentModel,
                  newestRunRevision, undoing, read, notSaved>>
  BY DEF sessionVars, serviceVars, pageVars, loopVars, undoVars
<1>2. ModeOK' /\ SavedIsNewest'
  BY <1>1, InvFacts DEF ModeOK, Is, Held, SavedIsNewest
<1> QED BY <1>1, <1>2, InvFacts, PageKeeps

LEMMA SessionNextKeeps ==
  ASSUME SessionAssumption, SessionInv, [SessionNext]_sessionVars
  PROVE  SessionInv'
<1>1. CASE Service
  BY <1>1, ProcessKeeps, ProcessFailsKeeps, ArrivesLateKeeps, OtherDecidesKeeps,
     ServeUndoKeeps DEF Service
<1>2. CASE Queue
  <2>1. CASE \E i \in DOMAIN queue :
               Post(i) \/ PostFails(i) \/ AdmissionRefused(i) \/ ReadReceipt(i) \/ ReceiptFails(i)
    BY <2>1, PostKeeps, PostFailsKeeps, AdmissionRefusedKeeps, ReadReceiptKeeps,
       ReceiptFailsKeeps
  <2>2. CASE TakeFailed \/ ConfirmFails
    BY <2>2, FailsKeeps DEF TakeFailed, ConfirmFails, Is
  <2> QED BY <1>2, <2>1, <2>2, TakeSavedKeeps, ConfirmReadKeeps, TakeConflictKeeps DEF Queue
<1>3. CASE Reviewer
  BY <1>3, DecideKeeps, ApproveRunKeeps, RetryKeeps, RefreshKeeps, RefreshedKeeps,
     RefreshFailsKeeps, BeginUndoKeeps, UndoAnsweredKeeps, UndoFailsKeeps DEF Reviewer
<1>4. CASE \E k \in Readers : ReadRun(k) \/ ReadRows(k) \/ BeginRead(k) \/ Land(k)
  BY <1>4, ReadRunKeeps, ReadRowsKeeps, BeginReadKeeps, LandKeeps
<1>5. CASE UNCHANGED sessionVars
  BY <1>5, SessionStutters
<1> QED BY <1>1, <1>2, <1>3, <1>4, <1>5 DEF SessionNext

LEMMA SessionInvariant ==
  ASSUME SessionAssumption
  PROVE  SessionSpec => []SessionInv
<1>1. SessionInit => SessionInv
  BY SessionInitInv
<1>2. SessionInv /\ [SessionNext]_sessionVars => SessionInv'
  BY SessionNextKeeps
<1> QED BY <1>1, <1>2, PTL DEF SessionSpec

(* The model of the page is one the run had, whatever answers overtake one *)
(* another (latestReviewModel and the loop of use-review-session.ts).      *)
THEOREM PageStaysReal ==
  SessionSpec => []PageIsReal
<1>1. SessionInv => PageIsReal
  <2> SUFFICES ASSUME SessionInv PROVE PageIsReal
    OBVIOUS
  <2>1. \A r \in page.at..Now : RowsAt(r) = rowsAt[r + 1]
    BY DEF RowsAt
  <2> QED BY <2>1, InvFacts DEF Had, PageIsReal
<1> QED BY <1>1, SessionInvariant, SessionAssumption, PTL

(* A page that says saved is not behind what a receipt named               *)
(* (use-review-session.ts:567-570).                                        *)
THEOREM SavedStaysNewest ==
  SessionSpec => []SavedIsNewest
<1>1. SessionInv => SavedIsNewest
  BY DEF SessionInv
<1> QED BY <1>1, SessionInvariant, SessionAssumption, PTL

(* What the page reported as not saved, with the decisions behind it, is   *)
(* not saved later (use-review-session.ts:638).                            *)
THEOREM UnsavedStays ==
  SessionSpec => []UnsavedStaysSo
<1>1. SessionInv => UnsavedStaysSo
  BY DEF SessionInv, NotSavedIn, UnsavedStaysSo
<1> QED BY <1>1, SessionInvariant, SessionAssumption, PTL


-----------------------------------------------------------------------------
(* What the page shows is not behind its model.                            *)

\* Revisions are numbers, and so are those that a decision expects.
NumberInv ==
  /\ \A i \in 1..Len(rowsAt) : \A s \in Shots : rowsAt[i][s].revision \in Nat
  /\ \A d \in Decisions : command[d] # NoTask =>
       \A s \in command[d].targets : command[d].expected[s] \in Nat

\* Rows that the page can show.
Showable(rows) ==
  \A s \in Shots : rows[s].revision \in Nat /\ rows[s].revision >= page.rows[s].revision

\* The rows after each of the first n decisions that wait.
ShownBy(f, n) ==
  f = [i \in 0..n |-> IF i = 0 THEN page.rows ELSE Overlay(f[i - 1], Pending[i])]

LEMMA LeastIsIn ==
  ASSUME NEW S \in SUBSET Nat, S # {}
  PROVE  \E x \in S : \A y \in S : x <= y
<1>1. PICK x \in S : \A y \in S : <<y, x>> \notin OpToRel(<, Nat)
  BY NatLessThanWellFounded, WFMin
<1>2. \A y \in S : ~(y < x)
  BY <1>1 DEF OpToRel
<1> QED BY <1>2

LEMMA ShownExists ==
  ASSUME NEW n \in Nat
  PROVE  \E f : ShownBy(f, n)
<1> DEFINE S == {m \in Nat : ~ \E f : ShownBy(f, m)}
<1>1. SUFFICES ASSUME S # {} PROVE FALSE
  OBVIOUS
<1>2. PICK m \in S : \A y \in S : m <= y
  BY <1>1, LeastIsIn
<1>3. m \in Nat /\ ~ \E f : ShownBy(f, m)
  OBVIOUS
<1>4. m # 0
  <2> SUFFICES ASSUME m = 0 PROVE \E f : ShownBy(f, m)
    BY <1>3
  <2> DEFINE f == [i \in 0..0 |-> page.rows]
  <2>1. \A i \in 0..0 : i = 0
    OBVIOUS
  <2>2. f = [i \in 0..0 |-> IF i = 0 THEN page.rows ELSE Overlay(f[i - 1], Pending[i])]
    BY <2>1
  <2> QED BY <2>2 DEF ShownBy
<1>5. m - 1 \in Nat /\ ~(m <= m - 1)
  BY <1>3, <1>4
<1>6. PICK f : ShownBy(f, m - 1)
  BY <1>2, <1>5
<1> DEFINE g == [i \in 0..m |-> IF i = m THEN Overlay(f[m - 1], Pending[m]) ELSE f[i]]
<1>7. ASSUME NEW i \in 0..m
      PROVE  g[i] = IF i = 0 THEN page.rows ELSE Overlay(g[i - 1], Pending[i])
  <2>1. \A j \in 0..(m - 1) :
          f[j] = IF j = 0 THEN page.rows ELSE Overlay(f[j - 1], Pending[j])
    BY <1>6, Zenon DEF ShownBy
  <2>2. \A j \in 0..(m - 1) : g[j] = f[j]
    BY <1>5
  <2>3. CASE i = m
    <3>1. g[i] = Overlay(f[m - 1], Pending[m])
      BY <2>3
    <3>2. g[m - 1] = f[m - 1]
      BY <1>5, <2>2
    <3> QED BY <1>4, <2>3, <3>1, <3>2
  <2>4. CASE i # m
    <3>1. i \in 0..(m - 1) /\ g[i] = f[i]
      BY <1>3, <2>2, <2>4
    <3>2. i # 0 => i - 1 \in 0..(m - 1)
      BY <1>3, <3>1
    <3>3. i # 0 => g[i - 1] = f[i - 1]
      BY <2>2, <3>2
    <3> HIDE DEF g
    <3> QED BY <2>1, <3>1, <3>3
  <2> QED BY <2>3, <2>4
<1>8. DOMAIN g = 0..m /\ g = [i \in 0..m |-> g[i]]
  OBVIOUS
<1> HIDE DEF g
<1>9. ShownBy(g, m)
  BY <1>7, <1>8, Zenon DEF ShownBy
<1> QED BY <1>3, <1>9

\* NotYetDecided keeps a decision from a row that was decided since.
LEMMA OverlayShowable ==
  ASSUME NEW rows, Showable(rows), NEW d,
         \A s \in Shots : page.rows[s].revision \in Nat,
         \A s \in command[d].targets : command[d].expected[s] \in Nat
  PROVE  Showable(Overlay(rows, d))
<1> SUFFICES ASSUME NEW s \in Shots
             PROVE  /\ Overlay(rows, d)[s].revision \in Nat
                    /\ Overlay(rows, d)[s].revision >= page.rows[s].revision
  BY DEF Showable
<1>1. rows[s].revision \in Nat /\ rows[s].revision >= page.rows[s].revision
  BY DEF Showable
<1> DEFINE counts == /\ s \in command[d].targets
                     /\ NotYetDecided(page.rows[s], command[d].expected[s])
                     /\ ~KeepsApproval(command[d], rows[s])
<1>2. Overlay(rows, d)[s] =
        IF counts THEN [revision |-> command[d].expected[s] + 1, verdict |-> command[d].verdict]
        ELSE rows[s]
  BY DEF Overlay
<1>3. CASE counts
  <2>1. Overlay(rows, d)[s].revision = command[d].expected[s] + 1
    BY <1>2, <1>3
  <2>2. command[d].expected[s] \in Nat /\ page.rows[s].revision \in Nat
    BY <1>3
  <2>3. page.rows[s].revision <= command[d].expected[s]
    BY <1>3 DEF NotYetDecided
  <2> QED BY <2>1, <2>2, <2>3
<1>4. CASE ~counts
  BY <1>1, <1>2, <1>4
<1> QED BY <1>3, <1>4

LEMMA PendingFacts ==
  ASSUME SessionInv
  PROVE  /\ Len(Pending) \in Nat
         /\ \A i \in 1..Len(Pending) : Pending[i] \in Decisions /\ command[Pending[i]] # NoTask
<1>1. /\ IsSequence(queue) /\ Len(queue) \in Nat /\ DOMAIN queue = 1..Len(queue)
      /\ \A i \in 1..Len(queue) : queue[i].id \in Decisions /\ command[queue[i].id] # NoTask
  BY InvFacts DEF QueueIn, EntryIn
<1>2. CASE status = "saving"
  <2>1. Pending = [i \in 1..Len(queue) |-> queue[i].id]
    BY <1>1, <1>2 DEF Pending
  <2>2. /\ Pending = [i \in 1..Len(queue) |-> Pending[i]]
        /\ \A i \in 1..Len(queue) : Pending[i] = queue[i].id
    BY <2>1
  <2>3. Len(Pending) = Len(queue)
    BY <1>1, <2>2, FunctionIsSequence
  <2> QED BY <1>1, <2>2, <2>3
<1>3. CASE status # "saving"
  <2>1. Pending = <<>>
    BY <1>3 DEF Pending
  <2> QED BY <2>1, EmptySeq
<1> QED BY <1>2, <1>3

LEMMA PageNumbers ==
  ASSUME SessionInv, NumberInv
  PROVE  \A s \in Shots : page.rows[s].revision \in Nat
<1> SUFFICES ASSUME NEW s \in Shots PROVE page.rows[s].revision \in Nat
  OBVIOUS
<1>1. Had(rowsAt, page) /\ Len(rowsAt) \in Nat
  BY InvFacts
<1>2. PICK r \in page.at..(Len(rowsAt) - 1) : page.rows[s] = rowsAt[r + 1][s]
  BY <1>1 DEF Had
<1>3. r + 1 \in 1..Len(rowsAt)
  BY <1>1, <1>2 DEF Had
<1> QED BY <1>2, <1>3 DEF NumberInv

LEMMA ShownIsShowable ==
  ASSUME SessionInv, NumberInv
  PROVE  Showable(Shown)
<1> DEFINE n == Len(Pending)
<1>1. /\ n \in Nat
      /\ \A i \in 1..n : Pending[i] \in Decisions /\ command[Pending[i]] # NoTask
  BY PendingFacts
<1>2. \A s \in Shots : page.rows[s].revision \in Nat
  BY PageNumbers
<1>3. PICK f : ShownBy(f, n) /\ Shown = f[n]
  <2> DEFINE g == CHOOSE f : ShownBy(f, n)
  <2>1. ShownBy(g, n)
    BY <1>1, ShownExists
  <2>2. Shown = g[n]
    BY Zenon DEF Shown, ShownBy
  <2> QED BY <2>1, <2>2
<1>4. \A i \in 0..n : f[i] = IF i = 0 THEN page.rows ELSE Overlay(f[i - 1], Pending[i])
  BY <1>3, Zenon DEF ShownBy
<1> DEFINE S == {i \in 0..n : ~Showable(f[i])}
<1>5. S = {}
  <2> SUFFICES ASSUME S # {} PROVE FALSE
    OBVIOUS
  <2>1. S \in SUBSET Nat
    BY <1>1
  <2>2. PICK i \in S : \A y \in S : i <= y
    BY <2>1, LeastIsIn
  <2>3. i \in 0..n /\ ~Showable(f[i])
    OBVIOUS
  <2>4. Showable(page.rows)
    BY <1>2 DEF Showable
  <2>5. i # 0 /\ i \in 1..n /\ i - 1 \in 0..n /\ ~(i <= i - 1)
    BY <1>1, <1>4, <2>3, <2>4
  <2>6. Showable(f[i - 1])
    BY <2>2, <2>5
  <2>7. f[i] = Overlay(f[i - 1], Pending[i])
    BY <1>4, <2>3, <2>5
  <2>8. \A s \in command[Pending[i]].targets : command[Pending[i]].expected[s] \in Nat
    BY <1>1, <2>5 DEF NumberInv
  <2>9. Showable(f[i])
    BY <1>2, <2>6, <2>7, <2>8, OverlayShowable
  <2> QED BY <2>3, <2>9
<1>6. n \in 0..n
  BY <1>1
<1> QED BY <1>3, <1>5, <1>6

LEMMA RewrittenNumbers ==
  ASSUME SessionInv, NumberInv, NEW shots, NEW verdict, rowsAt' = Rewritten(shots, verdict),
         UNCHANGED command
  PROVE  NumberInv'
<1>1. /\ IsSequence(rowsAt) /\ Len(rowsAt) \in Nat /\ Len(rowsAt) >= 1
      /\ RowsAt(Now) = rowsAt[Len(rowsAt)]
  BY InvFacts DEF RowsAt
<1>2. /\ Extends(rowsAt, rowsAt') /\ Len(rowsAt') = Len(rowsAt) + 1
      /\ \A s \in Shots :
           rowsAt'[Len(rowsAt) + 1][s] =
             IF s \in shots
               THEN [revision |-> RowsAt(Now)[s].revision + 1, verdict |-> verdict[s]]
               ELSE rowsAt[Len(rowsAt)][s]
  BY <1>1, RewrittenFacts
<1>3. \A s \in Shots : rowsAt[Len(rowsAt)][s].revision \in Nat
  BY <1>1 DEF NumberInv
<1>4. ASSUME NEW s \in Shots PROVE rowsAt'[Len(rowsAt) + 1][s].revision \in Nat
  <2>1. RowsAt(Now)[s].revision \in Nat /\ rowsAt[Len(rowsAt)][s].revision \in Nat
    BY <1>1, <1>3
  <2>2. CASE s \in shots
    <3>1. rowsAt'[Len(rowsAt) + 1][s] =
            [revision |-> RowsAt(Now)[s].revision + 1, verdict |-> verdict[s]]
      BY <1>2, <2>2
    <3>2. rowsAt'[Len(rowsAt) + 1][s].revision = RowsAt(Now)[s].revision + 1
      BY <3>1
    <3> QED BY <2>1, <3>2
  <2>3. CASE s \notin shots
    <3>1. rowsAt'[Len(rowsAt) + 1][s] = rowsAt[Len(rowsAt)][s]
      BY <1>2, <2>3
    <3> QED BY <2>1, <3>1
  <2> QED BY <2>2, <2>3
<1>5. \A i \in 1..Len(rowsAt) : rowsAt'[i] = rowsAt[i]
  BY <1>2 DEF Extends
<1>6. \A i \in 1..Len(rowsAt') : i \in 1..Len(rowsAt) \/ i = Len(rowsAt) + 1
  BY <1>1, <1>2
<1> QED BY <1>4, <1>5, <1>6 DEF NumberInv

LEMMA EnterNumbers ==
  ASSUME SessionInv, NumberInv, NEW d \in Decisions, NEW content, Enter(d, content),
         \A s \in content.targets : content.expected[s] \in Nat
  PROVE  NumberInv'
<1>1. /\ UNCHANGED rowsAt /\ command'[d] = content
      /\ \A e \in Decisions : e # d => command'[e] = command[e]
  BY InvFacts DEF Enter, serviceVars
<1> QED BY <1>1 DEF NumberInv

LEMMA NumbersKept ==
  ASSUME SessionAssumption, SessionInv, NumberInv, [SessionNext]_sessionVars
  PROVE  NumberInv'
<1>1. CASE UNCHANGED <<rowsAt, command>>
  BY <1>1 DEF NumberInv
<1>2. ASSUME NEW d \in Decisions, Process(d) \/ ProcessFails(d) PROVE NumberInv'
  <2>1. UNCHANGED command
    BY <1>2 DEF Process, ProcessFails, pageVars
  <2>2. CASE UNCHANGED rowsAt
    BY <1>1, <2>1, <2>2
  <2>3. CASE Store(d)
    BY <2>1, <2>3, RewrittenNumbers DEF Store
  <2> QED BY <1>2, <2>2, <2>3 DEF Process, ProcessFails
<1>3. ASSUME NEW s \in Shots, NEW verdict, OtherDecides(s, verdict) PROVE NumberInv'
  BY <1>3, RewrittenNumbers DEF OtherDecides, pageVars
<1>4. CASE ServeUndo
  <2>1. UNCHANGED command
    BY <1>4 DEF ServeUndo
  <2>2. CASE UNCHANGED rowsAt
    BY <1>1, <2>1, <2>2
  <2> QED BY <1>4, <2>1, <2>2, RewrittenNumbers DEF ServeUndo
<1>5. ASSUME NEW d \in Decisions, Decide(d) PROVE NumberInv'
  <2>1. PICK c \in Contents :
          Enter(d, [kind |-> c.kind, verdict |-> c.verdict, targets |-> c.targets,
                    expected |-> [s \in c.targets |-> Shown[s].revision],
                    previous |-> Predecessor])
    BY <1>5 DEF Decide
  <2>2. c.targets \subseteq Shots
    BY DEF Contents
  <2>3. \A s \in Shots : Shown[s].revision \in Nat
    BY ShownIsShowable DEF Showable
  <2>4. PICK content : content = [kind |-> c.kind, verdict |-> c.verdict, targets |-> c.targets,
                                  expected |-> [s \in c.targets |-> Shown[s].revision],
                                  previous |-> Predecessor]
    OBVIOUS
  <2>5. \A s \in content.targets : content.expected[s] \in Nat
    BY <2>2, <2>3, <2>4
  <2> QED BY <2>1, <2>4, <2>5, EnterNumbers
<1>6. ASSUME NEW d \in Decisions, ApproveRun(d) PROVE NumberInv'
  <2>1. PICK content : content = [kind |-> "run", verdict |-> "approved", targets |-> {},
                                  runRevision |-> page.at,
                                  count |-> Cardinality(OpenShots(page.rows)),
                                  previous |-> NoDecision]
    OBVIOUS
  <2>2. Enter(d, content)
    BY <1>6, <2>1 DEF ApproveRun
  <2>3. content.targets = {}
    BY <2>1
  <2> QED BY <2>2, <2>3, EnterNumbers
<1>7. ASSUME NEW d \in Decisions, ArrivesLate(d) PROVE UNCHANGED <<rowsAt, command>>
  BY <1>7 DEF ArrivesLate, pageVars
<1>8. Queue => UNCHANGED <<rowsAt, command>>
  BY DEF Queue, Post, PostFails, AdmissionRefused, ReadReceipt, ReceiptFails, TakeSaved,
     ConfirmRead, TakeFailed, ConfirmFails, Fails, TakeConflict, serviceVars
<1>9. Retry \/ Refresh \/ Refreshed \/ RefreshFails \/ BeginUndo \/ UndoAnswered \/ UndoFails
        => UNCHANGED <<rowsAt, command>>
  BY DEF Retry, Refresh, Refreshed, RefreshFails, BeginUndo, UndoAnswered, UndoFails, serviceVars
<1>10. ASSUME NEW k \in Readers, ReadRun(k) \/ ReadRows(k) \/ BeginRead(k) \/ Land(k)
       PROVE  UNCHANGED <<rowsAt, command>>
  BY <1>10 DEF ReadRun, ReadRows, BeginRead, Land, serviceVars, pageVars
<1>11. UNCHANGED sessionVars => UNCHANGED <<rowsAt, command>>
  BY DEF sessionVars, serviceVars, pageVars
<1> QED BY <1>1, <1>2, <1>3, <1>4, <1>5, <1>6, <1>7, <1>8, <1>9, <1>10, <1>11
        DEF SessionNext, Service, Reviewer

LEMMA NumbersStart ==
  ASSUME SessionInit
  PROVE  NumberInv
<1>1. Len(rowsAt) = 1 /\ rowsAt[1] = Fresh
  BY DEF SessionInit
<1>2. \A s \in Shots : Fresh[s].revision = 0
  BY DEF Fresh
<1>3. \A d \in Decisions : command[d] = NoTask
  BY DEF SessionInit
<1> QED BY <1>1, <1>2, <1>3 DEF NumberInv

(* The model of the page is real, a page that says saved is not behind a   *)
(* receipt, and a decision that waits never shows over a verdict that is   *)
(* newer (use-review-session.ts:226).                                      *)
THEOREM ShownStaysReal ==
  SessionSpec => []ShownIsReal
<1>1. SessionInit => NumberInv
  BY NumbersStart
<1>2. SessionInv /\ NumberInv /\ [SessionNext]_sessionVars => NumberInv'
  BY NumbersKept, SessionAssumption
<1>3. SessionInv /\ NumberInv => \A s \in Shots : Shown[s].revision >= page.rows[s].revision
  BY ShownIsShowable DEF Showable
<1>4. /\ SessionSpec => []SessionInv
      /\ SessionSpec => []PageIsReal
      /\ SessionSpec => []SavedIsNewest
  BY SessionInvariant, PageStaysReal, SavedStaysNewest, SessionAssumption
<1>5. /\ PageIsReal /\ SavedIsNewest
      /\ (\A s \in Shots : Shown[s].revision >= page.rows[s].revision)
      => ShownIsReal
  BY DEF ShownIsReal
<1> QED BY <1>1, <1>2, <1>3, <1>4, <1>5, PTL DEF SessionSpec


-----------------------------------------------------------------------------
(* A page that is alone.                                                   *)

\* No other reviewer decides, and no request or attempt fails.
Alone == others = 0 /\ faults = 0

\* The rows that a decision changes (Decided), and the rows after it.
Changes(c, rows) ==
  IF c.kind = "run" THEN OpenShots(rows)
  ELSE {s \in c.targets : ~KeepsApproval(c, rows[s])}

After(c, rows) ==
  [s \in Shots |->
    IF s \in Changes(c, rows) THEN [revision |-> rows[s].revision + 1, verdict |-> c.verdict]
    ELSE rows[s]]

\* The decision is of these rows of the revision r of the run (Fits).
Suits(c, r, rows) ==
  /\ Changes(c, rows) # {}
  /\ IF c.kind = "run" THEN c.runRevision = r /\ c.count = Cardinality(Changes(c, rows))
     ELSE \A s \in c.targets : rows[s].revision = c.expected[s]

\* A row goes forward, and has one verdict at each of its revisions.
Ordered(w) ==
  \A i \in 1..Len(w) : \A s \in Shots :
    /\ w[i][s].revision \in Nat
    /\ \A j \in 1..i : /\ w[j][s].revision <= w[i][s].revision
                       /\ w[j][s].revision = w[i][s].revision => w[j][s] = w[i][s]

\* The entry of the decision that writes the revision r of the run; the run
\* has as many revisions as count.
Writes(e, r, w, count, tasks, commands, newest) ==
  /\ Suits(commands[e.id], r - 1, w[r]) /\ w[r + 1] = After(commands[e.id], w[r])
  /\ (tasks[e.id].state = "saved") = (r < count)
  /\ r < count => tasks[e.id].runRevision = r
  /\ e.at \in {"sending", "waiting", "saved", "confirming"}
  /\ e.at = "saved" => e.currentRunRevision >= r
  /\ e.at = "confirming" => r < count /\ newest >= r

\* w are the rows at the revisions of the run, with those that the queue is
\* going to write; b is the revision before the queue.
Course(w, b, rows, tasks, commands, q, newest) ==
  /\ IsSequence(w) /\ Extends(rows, w) /\ Ordered(w)
  /\ b \in 0..(Len(rows) - 1) /\ Len(w) = b + Len(q) + 1
  /\ \A i \in 1..Len(q) : Writes(q[i], b + i, w, Len(rows), tasks, commands, newest)
  /\ \A i \in 2..Len(q) : q[i].at # "confirming"

FollowsSaved(previous, tasks) ==
  previous # NoDecision => previous \in Decisions /\ tasks[previous].state = "saved"

\* Each decision is saved or waits in the queue, once.
AllWait(tasks, commands, q) ==
  /\ \A d \in Decisions :
       /\ ~Ended(tasks[d])
       /\ commands[d] # NoTask =>
            tasks[d].state = "saved" \/ \E i \in 1..Len(q) : q[i].id = d
  /\ \A i, j \in 1..Len(q) : q[i].id = q[j].id => i = j
  /\ Len(q) >= 1 => FollowsSaved(commands[q[1].id].previous, tasks)

\* The model m of the page has what came before the queue; x is the read that
\* follows an Undo.
PageAt(b, m, x) ==
  /\ x.at \notin {"sent", "run", "answered"} => m.at >= b
  /\ x.at = "run" => x.revision >= b
  /\ x.at = "answered" => x.model.at >= b

AloneInv ==
  /\ late = {} /\ status # "error" /\ AllWait(task, command, queue)
  /\ \E w, b : /\ Course(w, b, rowsAt, task, command, queue, newestRunRevision)
               /\ PageAt(b, page, read["undo"])

LEMMA CourseFacts ==
  ASSUME SessionInv, NEW w, NEW b,
         Course(w, b, rowsAt, task, command, queue, newestRunRevision)
  PROVE  /\ IsSequence(w) /\ Len(w) \in Nat /\ Len(w) = b + Len(queue) + 1
         /\ b \in Nat /\ b \in 0..Now /\ b < Len(rowsAt) /\ Len(rowsAt) <= Len(w)
         /\ \A i \in 1..Len(rowsAt) : w[i] = rowsAt[i]
         /\ RowsAt(Now) = w[Len(rowsAt)]
<1>1. IsSequence(w) /\ Len(w) \in Nat /\ Len(w) = b + Len(queue) + 1 /\ Extends(rowsAt, w)
  BY SequenceFacts DEF Course
<1>2. b \in Nat /\ b \in 0..Now /\ b < Len(rowsAt)
  BY InvFacts DEF Course
<1>3. Len(rowsAt) <= Len(w) /\ \A i \in 1..Len(rowsAt) : w[i] = rowsAt[i]
  BY <1>1 DEF Extends
<1>4. RowsAt(Now) = w[Len(rowsAt)]
  BY <1>3, InvFacts DEF RowsAt
<1> QED BY <1>1, <1>2, <1>3, <1>4

\* A course goes on by one revision of some rows.
LEMMA OrderedGrows ==
  ASSUME NEW w, IsSequence(w), Len(w) >= 1, Ordered(w), NEW e,
         \A s \in Shots : e[s] = w[Len(w)][s] \/ e[s].revision = w[Len(w)][s].revision + 1
  PROVE  Ordered(Append(w, e))
<1> DEFINE v == Append(w, e)
           n == Len(w)
<1>1. /\ IsSequence(v) /\ Len(v) = n + 1 /\ v[n + 1] = e /\ n \in Nat
      /\ \A i \in 1..n : v[i] = w[i]
  BY AppendFacts, SequenceFacts
<1> HIDE DEF v
<1>2. ASSUME NEW i \in 1..Len(v), NEW s \in Shots
      PROVE  /\ v[i][s].revision \in Nat
             /\ \A j \in 1..i : /\ v[j][s].revision <= v[i][s].revision
                                /\ v[j][s].revision = v[i][s].revision => v[j][s] = v[i][s]
  <2>1. CASE i \in 1..n
    <3>1. v[i] = w[i] /\ \A j \in 1..i : v[j] = w[j]
      BY <1>1, <2>1
    <3> QED BY <2>1, <3>1 DEF Ordered
  <2>2. CASE i = n + 1
    <3>1. /\ w[n][s].revision \in Nat
          /\ \A j \in 1..n : /\ w[j][s].revision \in Nat /\ w[j][s].revision <= w[n][s].revision
                             /\ w[j][s].revision = w[n][s].revision => w[j][s] = w[n][s]
      BY <1>1 DEF Ordered
    <3>2. e[s] = w[n][s] \/ e[s].revision = w[n][s].revision + 1
      OBVIOUS
    <3>3. v[i] = e /\ e[s].revision \in Nat /\ e[s].revision >= w[n][s].revision
      BY <1>1, <2>2, <3>1, <3>2
    <3>4. ASSUME NEW j \in 1..i
          PROVE  /\ v[j][s].revision <= v[i][s].revision
                 /\ v[j][s].revision = v[i][s].revision => v[j][s] = v[i][s]
      <4>1. CASE j = i
        BY <3>3, <4>1
      <4>2. CASE j # i
        <5>1. j \in 1..n /\ v[j] = w[j]
          BY <1>1, <2>2, <4>2
        <5>2. w[j][s].revision \in Nat /\ w[j][s].revision <= w[n][s].revision
          BY <3>1, <5>1
        <5>3. w[j][s].revision = e[s].revision => w[j][s] = e[s]
          <6>1. CASE e[s] = w[n][s]
            BY <3>1, <5>1, <6>1
          <6>2. CASE e[s].revision = w[n][s].revision + 1
            BY <3>1, <5>2, <6>2
          <6> QED BY <3>2, <6>1, <6>2
        <5>4. w[j][s].revision <= e[s].revision
          BY <3>1, <3>3, <5>2
        <5> QED BY <3>3, <5>1, <5>3, <5>4
      <4> QED BY <4>1, <4>2
    <3> QED BY <3>3, <3>4
  <2> QED BY <1>1, <2>1, <2>2
<1> QED BY <1>2 DEF Ordered, v

LEMMA AfterGrows ==
  ASSUME NEW c, NEW rows
  PROVE  \A s \in Shots :
           /\ s \in Changes(c, rows) =>
                After(c, rows)[s] = [revision |-> rows[s].revision + 1, verdict |-> c.verdict]
           /\ s \notin Changes(c, rows) => After(c, rows)[s] = rows[s]
           /\ After(c, rows)[s] = rows[s]
                \/ After(c, rows)[s].revision = rows[s].revision + 1
BY DEF After

-----------------------------------------------------------------------------
(* Steps that leave the course.                                            *)
LEMMA CourseStays ==
  ASSUME SessionInv, AloneInv,
         UNCHANGED <<rowsAt, task, command, queue, newestRunRevision, late>>, status' # "error",
         \A b \in 0..Now : PageAt(b, page, read["undo"]) => PageAt(b, page', read'["undo"])
  PROVE  AloneInv'
<1>1. PICK w, b : /\ Course(w, b, rowsAt, task, command, queue, newestRunRevision)
                  /\ PageAt(b, page, read["undo"])
  BY DEF AloneInv
<1>2. PageAt(b, page', read'["undo"])
  BY <1>1, CourseFacts
<1>3. Course(w, b, rowsAt', task', command', queue', newestRunRevision')
  BY <1>1
<1>4. \E v, a : /\ Course(v, a, rowsAt', task', command', queue', newestRunRevision')
                /\ PageAt(a, page', read'["undo"])
  BY <1>2, <1>3
<1>5. late' = {} /\ AllWait(task', command', queue')
  BY DEF AloneInv
<1> QED BY <1>4, <1>5 DEF AloneInv

\* The model of the page goes forward.
LEMMA PageForward ==
  ASSUME SessionInv, NEW m, Had(rowsAt, m), page' = Latest(page, m)
  PROVE  /\ page.at \in Nat /\ m.at \in Nat /\ page'.at \in Nat
         /\ page'.at >= page.at /\ page'.at >= m.at
<1>1. Had(rowsAt, page') /\ page'.at >= page.at /\ page'.at >= m.at
  BY InvFacts, LatestHad
<1> QED BY <1>1, InvFacts DEF Had

LEMMA ReadRunAlone ==
  ASSUME SessionInv, AloneInv, NEW k \in Readers, ReadRun(k)
  PROVE  AloneInv'
<1>1. UNCHANGED <<rowsAt, task, command, queue, newestRunRevision, late, status, page>>
  BY DEF ReadRun, serviceVars, pageVars, loopVars
<1>2. status' # "error"
  BY <1>1 DEF AloneInv
<1>3. read' = [read EXCEPT ![k] = [at |-> "run", revision |-> Now]] /\ read[k].at = "sent"
  BY DEF ReadRun
<1>4. ASSUME NEW b \in 0..Now, PageAt(b, page, read["undo"])
      PROVE  PageAt(b, page', read'["undo"])
  <2>1. CASE k = "undo"
    <3>1. read'["undo"].at = "run" /\ read'["undo"].revision = Now
      BY <1>3, <2>1, InvFacts
    <3>2. Now >= b
      BY InvFacts
    <3> QED BY <3>1, <3>2 DEF PageAt
  <2>2. CASE k # "undo"
    BY <1>1, <1>3, <1>4, <2>2, InvFacts DEF Readers
  <2> QED BY <2>1, <2>2
<1> QED BY <1>1, <1>2, <1>4, CourseStays

LEMMA ReadRowsAlone ==
  ASSUME SessionInv, AloneInv, NEW k \in Readers, ReadRows(k)
  PROVE  AloneInv'
<1>1. UNCHANGED <<rowsAt, task, command, queue, newestRunRevision, late, status, page>>
  BY DEF ReadRows, serviceVars, pageVars, loopVars
<1>2. status' # "error"
  BY <1>1 DEF AloneInv
<1>3. PICK m : m = [at |-> read[k].revision, rows |-> RowsAt(Now)]
  OBVIOUS
<1>4. read' = [read EXCEPT ![k] = [at |-> "answered", model |-> m]] /\ read[k].at = "run"
  BY <1>3 DEF ReadRows
<1>5. ASSUME NEW b \in 0..Now, PageAt(b, page, read["undo"])
      PROVE  PageAt(b, page', read'["undo"])
  <2>1. CASE k = "undo"
    <3>1. read'["undo"].at = "answered" /\ read'["undo"].model = m /\ m.at = read["undo"].revision
      BY <1>3, <1>4, <2>1, InvFacts
    <3>2. read["undo"].revision >= b
      BY <1>4, <1>5, <2>1 DEF PageAt
    <3> QED BY <3>1, <3>2 DEF PageAt
  <2>2. CASE k # "undo"
    BY <1>1, <1>4, <1>5, <2>2, InvFacts DEF Readers
  <2> QED BY <2>1, <2>2
<1> QED BY <1>1, <1>2, <1>5, CourseStays

LEMMA BeginReadAlone ==
  ASSUME SessionInv, AloneInv, NEW k \in Readers, BeginRead(k)
  PROVE  AloneInv'
<1>1. UNCHANGED <<rowsAt, task, command, queue, newestRunRevision, late, status, page>>
  BY DEF BeginRead, serviceVars, pageVars, loopVars
<1>2. status' # "error"
  BY <1>1 DEF AloneInv
<1>3. read'["undo"] = read["undo"]
  BY InvFacts DEF BeginRead, Asked, Readers
<1> QED BY <1>1, <1>2, <1>3, CourseStays

LEMMA LandAlone ==
  ASSUME SessionInv, AloneInv, NEW k \in Readers, Land(k)
  PROVE  AloneInv'
<1>1. UNCHANGED <<rowsAt, task, command, queue, newestRunRevision, late, status>>
  BY DEF Land, serviceVars, loopVars
<1>2. status' # "error"
  BY <1>1 DEF AloneInv
<1>3. read'["undo"] = read["undo"]
  BY InvFacts DEF Land, Done, Readers
<1>4. Had(rowsAt, read[k].model)
  BY InvFacts DEF Land, ReadsIn, ReadIn
<1>5. page.at \in Nat /\ page'.at \in Nat /\ page'.at >= page.at
  BY <1>4, PageForward DEF Land
<1>6. \A b \in 0..Now : PageAt(b, page, read["undo"]) => PageAt(b, page', read'["undo"])
  BY <1>3, <1>5, InvFacts DEF PageAt
<1> QED BY <1>1, <1>2, <1>6, CourseStays

LEMMA RefreshAlone ==
  ASSUME SessionInv, AloneInv, Refresh
  PROVE  AloneInv'
<1>1. queue = <<>>
  BY InvFacts DEF Refresh, ModeOK, AloneInv
<1>2. UNCHANGED <<rowsAt, task, command, queue, newestRunRevision, late, page>> /\ status' = "saving"
  BY <1>1 DEF Refresh, serviceVars, loopVars
<1>3. read'["undo"] = read["undo"]
  BY InvFacts DEF Refresh, Asked, Readers
<1> QED BY <1>2, <1>3, CourseStays

LEMMA RefreshedAlone ==
  ASSUME SessionInv, AloneInv, Refreshed
  PROVE  AloneInv'
<1>1. UNCHANGED <<rowsAt, task, command, queue, newestRunRevision, late>> /\ status' = "idle"
  BY DEF Refreshed, serviceVars, loopVars
<1>2. read'["undo"] = read["undo"]
  BY InvFacts DEF Refreshed, Done, Readers
<1>3. Had(rowsAt, read["manual"].model)
  BY InvFacts DEF Refreshed, ReadsIn, ReadIn, Readers
<1>4. page.at \in Nat /\ page'.at \in Nat /\ page'.at >= page.at
  BY <1>3, PageForward DEF Refreshed
<1>5. \A b \in 0..Now : PageAt(b, page, read["undo"]) => PageAt(b, page', read'["undo"])
  BY <1>2, <1>4, InvFacts DEF PageAt
<1> QED BY <1>1, <1>5, CourseStays

LEMMA BeginUndoAlone ==
  ASSUME SessionInv, AloneInv, BeginUndo
  PROVE  AloneInv'
<1>1. UNCHANGED <<rowsAt, task, command, queue, newestRunRevision, late, page>> /\ status' = "saving"
  BY DEF BeginUndo, serviceVars, loopVars
<1>2. read["undo"] = NoRead
  BY InvFacts DEF BeginUndo, ModeOK, Busy
<1>3. read'["undo"].at = "posted"
  BY InvFacts DEF BeginUndo, Done, Readers
<1>4. \A b \in 0..Now : PageAt(b, page, read["undo"]) => PageAt(b, page', read'["undo"])
  BY <1>1, <1>2, <1>3, IdleRead DEF PageAt
<1> QED BY <1>1, <1>4, CourseStays

LEMMA UndoAnsweredAlone ==
  ASSUME SessionInv, AloneInv, UndoAnswered
  PROVE  AloneInv'
<1>1. UNCHANGED <<rowsAt, task, command, queue, newestRunRevision, late>> /\ status' # "error"
  BY DEF UndoAnswered, serviceVars, loopVars
<1>2. read'["undo"] = NoRead
  BY InvFacts DEF UndoAnswered, Done, Readers
<1>3. Had(rowsAt, read["undo"].model)
  BY InvFacts DEF UndoAnswered, ReadsIn, ReadIn, Readers
<1>4. read["undo"].model.at \in Nat /\ page'.at \in Nat /\ page'.at >= read["undo"].model.at
  BY <1>3, PageForward DEF UndoAnswered
<1>5. ASSUME NEW b \in 0..Now, PageAt(b, page, read["undo"])
      PROVE  PageAt(b, page', read'["undo"])
  <2>1. read["undo"].model.at >= b
    BY <1>5 DEF UndoAnswered, PageAt
  <2>2. page'.at >= b
    BY <1>4, <2>1, InvFacts
  <2> QED BY <1>2, <2>2, IdleRead DEF PageAt
<1> QED BY <1>1, <1>5, CourseStays


-----------------------------------------------------------------------------
(* The answers of a page that is alone.                                    *)

LEMMA WritesMoves ==
  ASSUME NEW e, NEW f, f.id = e.id, NEW r \in Nat, NEW count \in Nat, NEW w, NEW commands,
         NEW tasks, NEW next, NEW newest \in Nat, NEW newer \in Nat, newer >= newest,
         Writes(e, r, w, count, tasks, commands, newest),
         (next[e.id].state = "saved") = (tasks[e.id].state = "saved"),
         tasks[e.id].state = "saved" => next[e.id].runRevision = tasks[e.id].runRevision,
         \/ f = e
         \/ /\ f.at \in {"waiting", "saved", "confirming"}
            /\ f.at = "saved" => tasks[e.id].state = "saved" /\ f.currentRunRevision = count - 1
            /\ f.at = "confirming" =>
                 tasks[e.id].state = "saved" /\ newer >= tasks[e.id].runRevision
  PROVE  Writes(f, r, w, count, next, commands, newer)
<1>1. /\ Suits(commands[f.id], r - 1, w[r]) /\ w[r + 1] = After(commands[f.id], w[r])
      /\ (next[f.id].state = "saved") = (r < count)
      /\ r < count => next[f.id].runRevision = r
      /\ r < count => tasks[e.id].runRevision = r
      /\ (tasks[e.id].state = "saved") = (r < count)
  BY DEF Writes
<1>2. /\ f.at \in {"sending", "waiting", "saved", "confirming"}
      /\ f.at = "saved" => f.currentRunRevision >= r
      /\ f.at = "confirming" => r < count /\ newer >= r
  <2>1. CASE f = e
    <3>1. /\ e.at \in {"sending", "waiting", "saved", "confirming"}
          /\ e.at = "saved" => e.currentRunRevision >= r
          /\ e.at = "confirming" => r < count /\ newest >= r
      BY DEF Writes
    <3>2. newest >= r => newer >= r
      OBVIOUS
    <3> QED BY <2>1, <3>1, <3>2
  <2>2. CASE /\ f.at \in {"waiting", "saved", "confirming"}
             /\ f.at = "saved" => tasks[e.id].state = "saved" /\ f.currentRunRevision = count - 1
             /\ f.at = "confirming" =>
                  tasks[e.id].state = "saved" /\ newer >= tasks[e.id].runRevision
    <3>1. f.at = "saved" => f.currentRunRevision >= r
      BY <1>1, <2>2
    <3>2. f.at = "confirming" => r < count /\ newer >= r
      BY <1>1, <2>2
    <3> QED BY <2>2, <3>1, <3>2
  <2> QED BY <2>1, <2>2
<1> QED BY <1>1, <1>2 DEF Writes

\* An entry of the queue changes its place.
LEMMA EntryMoves ==
  ASSUME SessionInv, AloneInv, NEW i \in 1..Len(queue), NEW e, Becomes(i, e),
         e.id = queue[i].id, e.at \in {"waiting", "saved", "confirming"},
         e.at = "saved" => task[e.id].state = "saved" /\ e.currentRunRevision = Now,
         e.at = "confirming" => /\ i = 1 /\ task[e.id].state = "saved"
                                /\ newestRunRevision' >= task[e.id].runRevision,
         newestRunRevision' \in Nat, newestRunRevision' >= newestRunRevision,
         UNCHANGED <<rowsAt, command, late, page, status>>, read'["undo"] = read["undo"],
         \A d \in Decisions :
           \/ task'[d] = task[d]
           \/ task[d].state # "saved" /\ task'[d].state = "queued"
  PROVE  AloneInv'
<1>1. /\ Len(queue') = Len(queue) /\ queue'[i] = e
      /\ \A j \in 1..Len(queue) : j # i => queue'[j] = queue[j]
  <2>1. /\ Len(queue) \in Nat /\ DOMAIN queue = 1..Len(queue)
        /\ queue' = [queue EXCEPT ![i] = e]
    BY InvFacts DEF Becomes
  <2>2. queue'[i] = e /\ \A j \in 1..Len(queue) : j # i => queue'[j] = queue[j]
    BY <2>1
  <2>3. queue' = [j \in 1..Len(queue) |-> queue'[j]]
    BY <2>1
  <2> QED BY <2>1, <2>2, <2>3, FunctionIsSequence
<1>2. PICK w, b : /\ Course(w, b, rowsAt, task, command, queue, newestRunRevision)
                  /\ PageAt(b, page, read["undo"])
  BY DEF AloneInv
<1>3. \A j \in 1..Len(queue) : queue'[j].id = queue[j].id /\ queue[j].id \in Decisions
  BY <1>1, InvFacts DEF QueueIn, EntryIn
<1>4. \A d \in Decisions :
        /\ (task'[d].state = "saved") = (task[d].state = "saved")
        /\ task[d].state = "saved" => task'[d].runRevision = task[d].runRevision
        /\ ~Ended(task[d]) => ~Ended(task'[d])
  BY DEF Ended
<1>5. ASSUME NEW j \in 1..Len(queue)
      PROVE  Writes(queue'[j], b + j, w, Len(rowsAt), task', command, newestRunRevision')
  <2>1. Writes(queue[j], b + j, w, Len(rowsAt), task, command, newestRunRevision)
    BY <1>2 DEF Course
  <2>2. /\ b + j \in Nat /\ Len(rowsAt) \in Nat /\ newestRunRevision \in Nat
        /\ Now = Len(rowsAt) - 1
    BY <1>2, CourseFacts, InvFacts
  <2>3. PICK x, y, next, newer : /\ x = queue[j] /\ y = queue'[j] /\ next = task'
                                 /\ newer = newestRunRevision'
    OBVIOUS
  <2>4. y.id = x.id /\ x.id \in Decisions
    BY <1>3, <2>3
  <2>5. /\ (next[x.id].state = "saved") = (task[x.id].state = "saved")
        /\ task[x.id].state = "saved" => next[x.id].runRevision = task[x.id].runRevision
    BY <1>4, <2>3, <2>4
  <2>6. \/ y = x
        \/ /\ y.at \in {"waiting", "saved", "confirming"}
           /\ y.at = "saved" =>
                task[x.id].state = "saved" /\ y.currentRunRevision = Len(rowsAt) - 1
           /\ y.at = "confirming" =>
                task[x.id].state = "saved" /\ newer >= task[x.id].runRevision
    <3>1. CASE j = i
      <4>1. y = e /\ x.id = e.id
        BY <1>1, <2>3, <3>1
      <4> QED BY <2>2, <2>3, <4>1
    <3>2. CASE j # i
      BY <1>1, <2>3, <3>2
    <3> QED BY <3>1, <3>2
  <2>7. newer \in Nat /\ newer >= newestRunRevision
    BY <2>3
  <2>8. Writes(x, b + j, w, Len(rowsAt), task, command, newestRunRevision)
    BY <2>1, <2>3
  <2>9. Writes(y, b + j, w, Len(rowsAt), next, command, newer)
    BY <2>2, <2>4, <2>5, <2>6, <2>7, <2>8, WritesMoves
  <2> QED BY <2>3, <2>9
<1>6. \A j \in 2..Len(queue) : queue'[j].at # "confirming"
  <2> TAKE j \in 2..Len(queue)
  <2>1. queue[j].at # "confirming" /\ j \in 1..Len(queue) /\ j # 1
    BY <1>2, InvFacts DEF Course
  <2> QED BY <1>1, <2>1
<1>7. Course(w, b, rowsAt', task', command', queue', newestRunRevision')
  BY <1>1, <1>2, <1>5, <1>6 DEF Course
<1>8. AllWait(task', command', queue')
  <2>1. \A d \in Decisions :
          /\ ~Ended(task'[d])
          /\ command[d] # NoTask =>
               task'[d].state = "saved" \/ \E j \in 1..Len(queue) : queue'[j].id = d
    BY <1>3, <1>4 DEF AloneInv, AllWait
  <2>2. \A j, k \in 1..Len(queue) : queue'[j].id = queue'[k].id => j = k
    BY <1>3 DEF AloneInv, AllWait
  <2>3. 1 \in 1..Len(queue) /\ queue'[1].id = queue[1].id /\ Len(queue) >= 1
    BY <1>3, InvFacts
  <2>4. FollowsSaved(command[queue[1].id].previous, task)
    BY <2>3 DEF AloneInv, AllWait
  <2>5. FollowsSaved(command[queue[1].id].previous, task')
    BY <1>4, <2>4 DEF FollowsSaved
  <2> QED BY <1>1, <2>1, <2>2, <2>3, <2>5 DEF AllWait
<1> QED BY <1>2, <1>7, <1>8 DEF AloneInv

\* The service has the decision before each one that is sent.
LEMMA AllAdmissible ==
  ASSUME SessionInv, AloneInv, NEW i \in 1..Len(queue), Sendable(i)
  PROVE  Admissible(queue[i].id)
<1>1. PICK w, b : Course(w, b, rowsAt, task, command, queue, newestRunRevision)
  BY DEF AloneInv
<1>2. CASE i = 1
  <2>1. FollowsSaved(command[queue[1].id].previous, task)
    BY <1>2 DEF AloneInv, AllWait
  <2>2. \A p : task[p].state = "saved" => task[p] # NoTask
    BY DEF NoTask
  <2> QED BY <1>2, <2>1, <2>2 DEF FollowsSaved, Admissible
<1>3. CASE i # 1
  <2>1. i - 1 \in 1..Len(queue) /\ i \in 2..Len(queue) /\ i - 1 \in 1..i - 1
    BY <1>3, InvFacts
  <2>2. command[queue[i].id].previous = queue[i - 1].id
    BY <2>1, InvFacts DEF QueueIn
  <2>3. queue[i - 1].at \notin {"sending", "admission"}
    BY <2>1, InvFacts DEF Sendable, Is
  <2>4. Writes(queue[i - 1], b + (i - 1), w, Len(rowsAt), task, command, newestRunRevision)
    BY <1>1, <2>1 DEF Course
  <2>5. queue[i - 1].at \in {"waiting", "saved", "confirming"}
    BY <2>3, <2>4 DEF Writes
  <2>6. EntryIn(queue[i - 1], task, command, rowsAt)
    BY <2>1, InvFacts DEF QueueIn
  <2>7. task[queue[i - 1].id].state # "none"
    <3>1. queue[i - 1].at = "confirming" => task[queue[i - 1].id].state = "saved"
      BY <2>4 DEF Writes
    <3> QED BY <2>5, <2>6, <3>1 DEF EntryIn
  <2>8. task[queue[i - 1].id] # NoTask
    BY <2>7 DEF NoTask
  <2> QED BY <2>2, <2>8 DEF Admissible
<1> QED BY <1>2, <1>3

LEMMA PostAlone ==
  ASSUME SessionInv, AloneInv, NEW i \in DOMAIN queue, Post(i)
  PROVE  AloneInv'
<1> DEFINE d == queue[i].id
<1>1. i \in 1..Len(queue) /\ Sendable(i)
  BY InvFacts DEF Post
<1>2. d \in Decisions /\ Admissible(d) /\ task[d].state # "dead"
  <2>1. d \in Decisions
    BY <1>1, InvFacts DEF QueueIn, EntryIn
  <2> QED BY <1>1, <2>1, AllAdmissible DEF AloneInv, AllWait, Ended
<1>3. PICK e : e = At(i, "waiting")
  OBVIOUS
<1>4. Becomes(i, e) /\ Enqueue(d) /\ UNCHANGED read
  BY <1>2, <1>3 DEF Post
<1>5. e.id = d /\ e.at = "waiting"
  BY <1>3 DEF At
<1>6. UNCHANGED <<rowsAt, command, late, page, status, newestRunRevision>>
  BY DEF Post, loopVars
<1>7. \A x \in Decisions :
        task'[x] = task[x] \/ (task[x].state # "saved" /\ task'[x].state = "queued")
  <2>1. CASE task[d] # NoTask
    BY <1>4, <2>1 DEF Enqueue
  <2>2. CASE task[d] = NoTask
    <3>1. task' = [task EXCEPT ![d] = [state |-> "queued"]]
      BY <1>4, <2>2 DEF Enqueue
    <3>2. task[d].state = "none"
      BY <2>2 DEF NoTask
    <3> QED BY <1>2, <3>1, <3>2, InvFacts
  <2> QED BY <2>1, <2>2
<1>8. newestRunRevision \in Nat
  BY InvFacts
<1>9. newestRunRevision' \in Nat /\ newestRunRevision' >= newestRunRevision
  BY <1>6, <1>8
<1> HIDE DEF d
<1> QED BY <1>1, <1>4, <1>5, <1>6, <1>7, <1>9, EntryMoves DEF d

LEMMA ReadReceiptAlone ==
  ASSUME SessionInv, AloneInv, NEW i \in DOMAIN queue, ReadReceipt(i)
  PROVE  AloneInv'
<1> DEFINE d == queue[i].id
<1>1. i \in 1..Len(queue) /\ queue[i].at = "waiting" /\ task[d].state # "queued"
  BY InvFacts DEF ReadReceipt, Oldest, Is
<1>2. d \in Decisions /\ task[d].state # "none" /\ ~Ended(task[d])
  BY <1>1, InvFacts DEF QueueIn, EntryIn, AloneInv, AllWait
<1>3. task[d].state = "saved"
  BY <1>1, <1>2 DEF SessionInv, ServiceOK, TasksIn, TaskIn, Ended
<1>4. PICK e : e = [id |-> d, at |-> "saved", currentRunRevision |-> Now]
  OBVIOUS
<1>5. Becomes(i, e)
  BY <1>3, <1>4 DEF ReadReceipt
<1>6. e.id = d /\ e.at = "saved" /\ e.currentRunRevision = Now
  BY <1>4
<1>7. UNCHANGED <<rowsAt, task, command, late, page, status, newestRunRevision, read>>
  BY DEF ReadReceipt, serviceVars, loopVars
<1>8. newestRunRevision \in Nat
  BY InvFacts
<1>9. newestRunRevision' \in Nat /\ newestRunRevision' >= newestRunRevision
  BY <1>7, <1>8
<1>10. \A x \in Decisions :
         task'[x] = task[x] \/ (task[x].state # "saved" /\ task'[x].state = "queued")
  BY <1>7
<1> QED BY <1>1, <1>3, <1>5, <1>6, <1>7, <1>9, <1>10, EntryMoves

\* The receipt of the head of the queue is of the revision after the ones
\* before the queue.
LEMMA HeadSaved ==
  ASSUME SessionInv, NEW w, NEW b,
         Course(w, b, rowsAt, task, command, queue, newestRunRevision),
         Len(queue) >= 1, task[queue[1].id].state = "saved"
  PROVE  task[queue[1].id].runRevision = b + 1 /\ b + 1 \in 0..Now /\ b + 1 \in Nat
<1>1. 1 \in 1..Len(queue)
  BY InvFacts
<1>2. Writes(queue[1], b + 1, w, Len(rowsAt), task, command, newestRunRevision)
  BY <1>1 DEF Course
<1>3. b + 1 < Len(rowsAt) /\ task[queue[1].id].runRevision = b + 1
  BY <1>2 DEF Writes
<1> QED BY <1>3, CourseFacts, InvFacts

LEMMA ConfirmAlone ==
  ASSUME SessionAssumption, SessionInv, AloneInv, NEW model, Confirm(model),
         Had(rowsAt, model), Len(queue) >= 1, task[queue[1].id].state = "saved",
         model.at >= task[queue[1].id].runRevision, UNCHANGED <<rowsAt, task, command, late>>,
         newestRunRevision' \in Nat, newestRunRevision' >= newestRunRevision,
         read'["undo"] = read["undo"]
  PROVE  AloneInv'
<1>1. /\ page' = Latest(page, model) /\ queue' = Tail(queue) /\ status' # "error"
  BY DEF Confirm
<1>2. /\ Len(queue) \in Nat /\ Len(queue') = Len(queue) - 1 /\ IsSequence(queue)
      /\ \A i \in 1..Len(queue) - 1 : queue'[i] = queue[i + 1]
  BY <1>1, InvFacts, TailFacts
<1>3. PICK w, b : /\ Course(w, b, rowsAt, task, command, queue, newestRunRevision)
                  /\ PageAt(b, page, read["undo"])
  BY DEF AloneInv
<1>4. task[queue[1].id].runRevision = b + 1 /\ b + 1 \in 0..Now /\ b + 1 \in Nat /\ b \in Nat
  BY <1>3, HeadSaved, CourseFacts
<1>5. ASSUME NEW i \in 1..Len(queue) - 1
      PROVE  /\ Writes(queue'[i], b + 1 + i, w, Len(rowsAt), task, command, newestRunRevision')
             /\ queue'[i].at # "confirming"
  <2>1. i + 1 \in 1..Len(queue) /\ i + 1 \in 2..Len(queue) /\ b + (i + 1) = b + 1 + i
    BY <1>2, <1>4
  <2>2. /\ Writes(queue[i + 1], b + 1 + i, w, Len(rowsAt), task, command, newestRunRevision)
        /\ queue[i + 1].at # "confirming"
    BY <1>3, <2>1 DEF Course
  <2> QED BY <1>2, <2>2 DEF Writes
<1>6. Course(w, b + 1, rowsAt', task', command', queue', newestRunRevision')
  <2>1. Len(w) = b + 1 + Len(queue') + 1
    BY <1>2, <1>3, <1>4, CourseFacts
  <2>2. b + 1 \in 0..(Len(rowsAt) - 1)
    BY <1>4, InvFacts
  <2>3. \A i \in 2..Len(queue') : i \in 1..Len(queue) - 1
    BY <1>2
  <2> QED BY <1>2, <1>3, <1>5, <2>1, <2>2, <2>3 DEF Course
<1>7. PageAt(b + 1, page', read'["undo"])
  <2>1. read["undo"] = NoRead
    BY InvFacts DEF ModeOK
  <2>2. model.at \in Nat /\ page'.at \in Nat /\ page'.at >= model.at
    BY <1>1, PageForward
  <2>3. page'.at >= b + 1
    BY <1>4, <2>2
  <2> QED BY <2>1, <2>3, IdleRead DEF PageAt
<1>8. AllWait(task', command', queue')
  <2>1. ASSUME NEW d \in Decisions, command[d] # NoTask, task[d].state # "saved"
        PROVE  \E i \in 1..Len(queue') : queue'[i].id = d
    <3>1. PICK i \in 1..Len(queue) : queue[i].id = d
      BY <2>1 DEF AloneInv, AllWait
    <3>2. i # 1
      BY <2>1, <3>1
    <3>3. i - 1 \in 1..Len(queue) - 1 /\ (i - 1) + 1 = i
      BY <1>2, <3>2
    <3> QED BY <1>2, <3>1, <3>3
  <2>2. ASSUME NEW i \in 1..Len(queue'), NEW j \in 1..Len(queue'), queue'[i].id = queue'[j].id
        PROVE  i = j
    <3>1. i + 1 \in 1..Len(queue) /\ j + 1 \in 1..Len(queue)
      BY <1>2
    <3>2. queue[i + 1].id = queue[j + 1].id
      BY <1>2, <2>2
    <3>3. i + 1 = j + 1
      BY <3>1, <3>2 DEF AloneInv, AllWait
    <3> QED BY <3>3
  <2>3. Len(queue') >= 1 => FollowsSaved(command[queue'[1].id].previous, task)
    <3> SUFFICES ASSUME Len(queue') >= 1
                 PROVE  FollowsSaved(command[queue'[1].id].previous, task)
      OBVIOUS
    <3>1. 1 \in 1..Len(queue) - 1 /\ 2 \in 2..Len(queue) /\ 1 \in 1..Len(queue)
      BY <1>2
    <3>2. queue'[1] = queue[2]
      BY <1>2, <3>1
    <3>3. command[queue[2].id].previous = queue[2 - 1].id
      BY <3>1, InvFacts DEF QueueIn
    <3>4. queue[1].id \in Decisions
      BY <3>1, InvFacts DEF QueueIn, EntryIn
    <3> QED BY <3>2, <3>3, <3>4 DEF FollowsSaved
  <2>4. \A d \in Decisions : ~Ended(task[d])
    BY DEF AloneInv, AllWait
  <2> QED BY <2>1, <2>2, <2>3, <2>4 DEF AllWait
<1>9. late' = {}
  BY DEF AloneInv
<1> QED BY <1>1, <1>6, <1>7, <1>8, <1>9 DEF AloneInv

LEMMA TakeSavedAlone ==
  ASSUME SessionAssumption, SessionInv, AloneInv, TakeSaved
  PROVE  AloneInv'
<1> DEFINE d == queue[1].id
           newest == Max({newestRunRevision, queue[1].currentRunRevision})
<1>1. 1 \in 1..Len(queue) /\ Len(queue) >= 1 /\ queue[1].at = "saved"
  BY InvFacts DEF TakeSaved, Is
<1>2. UNCHANGED <<rowsAt, task, late, command>>
  BY DEF TakeSaved, serviceVars
<1>3. d \in Decisions /\ task[d].state = "saved" /\ queue[1].currentRunRevision \in 0..Now
  BY <1>1, InvFacts DEF QueueIn, EntryIn
<1>4. newest \in Nat /\ newest >= newestRunRevision /\ newest >= queue[1].currentRunRevision
  <2>1. newestRunRevision \in Nat /\ queue[1].currentRunRevision \in Nat
    BY <1>3, InvFacts
  <2> QED BY <2>1, MaxOfTwo
<1>5. newestRunRevision' = newest
  BY DEF TakeSaved
<1>6. ReceiptIn(task[d], command[d].verdict, rowsAt)
  BY <1>3 DEF SessionInv, ServiceOK, TasksIn, TaskIn
<1> HIDE DEF newest
<1>7. CASE Applies(currentModel, command[d], task[d]) /\ IsCurrent(newest, task[d])
  <2>1. PICK model : model = Applied(currentModel, command[d], task[d])
    OBVIOUS
  <2>2. Confirm(model) /\ UNCHANGED read
    BY <1>7, <2>1 DEF TakeSaved, newest
  <2>3. Had(rowsAt, model) /\ model.at = task[d].runRevision
    BY <1>6, <1>7, <2>1, InvFacts, AppliedHad DEF Applies, Follows
  <2>4. model.at \in Nat
    BY <2>3, InvFacts DEF Had
  <2>5. model.at >= task[d].runRevision
    BY <2>3, <2>4
  <2> QED BY <1>1, <1>2, <1>3, <1>4, <1>5, <2>2, <2>3, <2>5, ConfirmAlone
<1>8. CASE ~(Applies(currentModel, command[d], task[d]) /\ IsCurrent(newest, task[d]))
  <2>1. PICK e : e = At(1, "confirming")
    OBVIOUS
  <2>2. /\ Becomes(1, e) /\ read' = [read EXCEPT !["loop"] = Sent]
        /\ UNCHANGED <<page, status>>
    BY <1>8, <2>1 DEF TakeSaved, newest, Asked
  <2>3. e.id = d /\ e.at = "confirming"
    BY <2>1 DEF At
  <2>4. read'["undo"] = read["undo"]
    BY <2>2, InvFacts DEF Readers
  <2>5. newest >= task[d].runRevision
    <3>1. PICK w, b : Course(w, b, rowsAt, task, command, queue, newestRunRevision)
      BY DEF AloneInv
    <3>2. Writes(queue[1], b + 1, w, Len(rowsAt), task, command, newestRunRevision)
      BY <1>1, <3>1 DEF Course
    <3>3. queue[1].currentRunRevision >= b + 1
      BY <1>1, <3>2 DEF Writes
    <3>4. task[d].runRevision = b + 1 /\ b + 1 \in Nat
      BY <1>1, <1>3, <3>1, HeadSaved
    <3>5. queue[1].currentRunRevision \in Nat
      BY <1>3, InvFacts
    <3> QED BY <1>4, <3>3, <3>4, <3>5
  <2>6. \A x \in Decisions :
          task'[x] = task[x] \/ (task[x].state # "saved" /\ task'[x].state = "queued")
    BY <1>2
  <2> QED BY <1>1, <1>2, <1>3, <1>4, <1>5, <2>2, <2>3, <2>4, <2>5, <2>6, EntryMoves
<1> QED BY <1>7, <1>8

LEMMA ConfirmReadAlone ==
  ASSUME SessionAssumption, SessionInv, AloneInv, ConfirmRead
  PROVE  AloneInv'
<1>1. 1 \in 1..Len(queue) /\ Len(queue) >= 1 /\ queue[1].at = "confirming"
  BY InvFacts DEF ConfirmRead, Is
<1>2. PICK model : model = read["loop"].model
  OBVIOUS
<1>3. Confirm(model) /\ read' = [read EXCEPT !["loop"] = NoRead] /\ "loop" \in Readers
  BY <1>2 DEF ConfirmRead, Done, Readers
<1>4. UNCHANGED <<rowsAt, task, late, command, newestRunRevision>>
  BY DEF ConfirmRead, serviceVars
<1>5. Had(rowsAt, model) /\ model.at >= newestRunRevision
  BY <1>2, <1>3, InvFacts DEF ConfirmRead, ReadsIn, ReadIn
<1>6. read'["undo"] = read["undo"]
  BY <1>3, InvFacts DEF Readers
<1>7. PICK w, b : Course(w, b, rowsAt, task, command, queue, newestRunRevision)
  BY DEF AloneInv
<1>8. Writes(queue[1], b + 1, w, Len(rowsAt), task, command, newestRunRevision)
  BY <1>1, <1>7 DEF Course
<1>9. task[queue[1].id].state = "saved" /\ newestRunRevision >= b + 1
  BY <1>1, <1>8 DEF Writes
<1>10. task[queue[1].id].runRevision = b + 1 /\ b + 1 \in Nat
  BY <1>1, <1>7, <1>9, HeadSaved
<1>11. model.at \in Nat /\ newestRunRevision \in Nat
  BY <1>5, InvFacts DEF Had
<1>12. /\ model.at >= task[queue[1].id].runRevision
       /\ newestRunRevision' \in Nat /\ newestRunRevision' >= newestRunRevision
  BY <1>4, <1>5, <1>9, <1>10, <1>11
<1> QED BY <1>1, <1>3, <1>4, <1>5, <1>6, <1>9, <1>12, ConfirmAlone


-----------------------------------------------------------------------------
(* The decisions of a page that is alone.                                  *)

\* A shown row: the one of the position q, that the page has, or a later one.
OnCourse(row, w, p, q, s) == row = IF p <= q THEN w[q][s] ELSE w[p][s]

\* What a waiting decision does to a row that is shown is what it is going to
\* do, unless the model of the page has it.
LEMMA OverlayOnCourse ==
  ASSUME NEW w, Len(w) \in Nat, Ordered(w), NEW s \in Shots, NEW p \in 1..Len(w) - 1,
         NEW q \in 1..Len(w), page.rows[s] = w[q][s], NEW rows,
         OnCourse(rows[s], w, p, q, s), NEW d, command[d].kind # "run", NEW r, Suits(command[d], r, w[p]),
         w[p + 1] = After(command[d], w[p])
  PROVE  OnCourse(Overlay(rows, d)[s], w, p + 1, q, s)
<1> DEFINE c == command[d]
           counts == /\ s \in c.targets /\ NotYetDecided(page.rows[s], c.expected[s])
                     /\ ~KeepsApproval(c, rows[s])
<1>1. Overlay(rows, d)[s] =
        IF counts THEN [revision |-> c.expected[s] + 1, verdict |-> c.verdict] ELSE rows[s]
  BY DEF Overlay
<1>2. p \in 1..Len(w) /\ p + 1 \in 1..Len(w) /\ p \in Nat /\ q \in Nat
  OBVIOUS
<1>3. w[p][s].revision \in Nat /\ w[q][s].revision \in Nat /\ w[p + 1][s].revision \in Nat
  BY <1>2 DEF Ordered
<1>4. s \in c.targets => c.expected[s] = w[p][s].revision
  BY DEF Suits
<1>5. Changes(c, w[p]) = {t \in c.targets : ~KeepsApproval(c, w[p][t])}
  BY DEF Changes
<1>6. /\ s \in Changes(c, w[p]) =>
           w[p + 1][s] = [revision |-> w[p][s].revision + 1, verdict |-> c.verdict]
      /\ s \notin Changes(c, w[p]) => w[p + 1][s] = w[p][s]
  BY AfterGrows
<1>7. CASE q <= p
  <2>1. rows[s] = w[p][s]
    BY <1>2, <1>7 DEF OnCourse
  <2>2. w[q][s].revision <= w[p][s].revision
    BY <1>2, <1>7 DEF Ordered
  <2>3. s \in c.targets => NotYetDecided(page.rows[s], c.expected[s])
    BY <1>4, <2>2 DEF NotYetDecided
  <2>4. counts <=> s \in Changes(c, w[p])
    BY <1>5, <2>1, <2>3
  <2>5. Overlay(rows, d)[s] = w[p + 1][s]
    <3>1. CASE counts
      <4>1. /\ w[p + 1][s] = [revision |-> w[p][s].revision + 1, verdict |-> c.verdict]
            /\ c.expected[s] = w[p][s].revision
        BY <1>4, <1>6, <2>4, <3>1
      <4> QED BY <1>1, <3>1, <4>1
    <3>2. CASE ~counts
      BY <1>1, <1>6, <2>1, <2>4, <3>2
    <3> QED BY <3>1, <3>2
  <2>6. ~(p + 1 <= q)
    BY <1>2, <1>7
  <2> QED BY <2>5, <2>6 DEF OnCourse
<1>8. CASE ~(q <= p)
  <2>1. p <= q /\ p + 1 <= q /\ p \in 1..q /\ p + 1 \in 1..q
    BY <1>2, <1>8
  <2>2. rows[s] = w[q][s]
    BY <2>1 DEF OnCourse
  <2>3. ~counts
    <3> SUFFICES ASSUME counts PROVE FALSE
      OBVIOUS
    <3>1. w[q][s].revision <= w[p][s].revision
      BY <1>4 DEF NotYetDecided
    <3>2. w[p][s].revision <= w[q][s].revision /\ w[p + 1][s].revision <= w[q][s].revision
      BY <2>1 DEF Ordered
    <3>3. w[p][s].revision = w[q][s].revision
      BY <1>3, <3>1, <3>2
    <3>4. w[p][s] = w[q][s]
      BY <2>1, <3>3 DEF Ordered
    <3>5. s \in Changes(c, w[p])
      BY <1>5, <2>2, <3>4
    <3>6. w[p + 1][s].revision = w[p][s].revision + 1
      BY <1>6, <3>5
    <3> QED BY <1>3, <3>2, <3>3, <3>6
  <2>4. Overlay(rows, d)[s] = w[q][s]
    BY <1>1, <2>2, <2>3
  <2> QED BY <2>1, <2>4 DEF OnCourse
<1> QED BY <1>7, <1>8

\* What the page shows is what comes of its queue.
LEMMA ShownIsCourse ==
  ASSUME SessionInv, NEW w, NEW b, Deciding, ~ReviewBlocked,
         Course(w, b, rowsAt, task, command, queue, newestRunRevision),
         PageAt(b, page, read["undo"]), NEW s \in Shots
  PROVE  Shown[s] = w[Len(w)][s]
<1> DEFINE n == Len(queue)
<1>1. /\ n \in Nat /\ b \in Nat /\ Len(w) = b + n + 1 /\ Len(w) \in Nat /\ Ordered(w)
      /\ Len(rowsAt) \in Nat /\ Len(rowsAt) <= Len(w) /\ Now = Len(rowsAt) - 1
      /\ \A i \in 1..Len(rowsAt) : w[i] = rowsAt[i]
  BY CourseFacts, InvFacts DEF Course
<1>2. Len(Pending) = n /\ \A i \in 1..n : Pending[i] = queue[i].id
  <2>1. CASE status = "saving"
    <3>1. Pending = [i \in 1..n |-> queue[i].id]
      BY <2>1, InvFacts DEF Pending
    <3>2. /\ Pending = [i \in 1..n |-> Pending[i]]
          /\ \A i \in 1..n : Pending[i] = queue[i].id
      BY <3>1
    <3> QED BY <1>1, <3>2, FunctionIsSequence
  <2>2. CASE status # "saving"
    <3>1. Pending = <<>> /\ n = 0
      BY <2>2, InvFacts DEF Pending, Deciding, ModeOK
    <3> QED BY <3>1, EmptySeq
  <2> QED BY <2>1, <2>2
<1>3. PICK r \in b..Now : page.rows[s] = w[r + 1][s]
  <2>1. read["undo"] = NoRead
    BY InvFacts DEF Deciding, ModeOK
  <2>2. page.at >= b /\ page.at \in Nat
    BY <2>1, IdleRead, InvFacts DEF PageAt, Had
  <2>3. PICK r \in page.at..(Len(rowsAt) - 1) : page.rows[s] = rowsAt[r + 1][s]
    BY InvFacts DEF Had
  <2>4. r \in b..Now /\ r + 1 \in 1..Len(rowsAt)
    BY <1>1, <2>2, <2>3
  <2>5. page.rows[s] = w[r + 1][s]
    BY <1>1, <2>3, <2>4
  <2> QED BY <2>4, <2>5
<1> DEFINE q == r + 1
<1>4. q \in 1..Len(w) /\ q \in Nat /\ page.rows[s] = w[q][s] /\ b + 1 <= q
  BY <1>1, <1>3
<1> HIDE DEF q
<1>5. PICK f : ShownBy(f, n) /\ Shown = f[n]
  <2> DEFINE g == CHOOSE f : ShownBy(f, n)
  <2>1. ShownBy(g, n)
    BY <1>1, ShownExists
  <2>2. Shown = (CHOOSE f : ShownBy(f, Len(Pending)))[Len(Pending)]
    BY Zenon DEF Shown, ShownBy
  <2>3. Shown = g[n]
    BY <1>2, <2>2
  <2> QED BY <2>1, <2>3
<1>6. \A i \in 0..n : f[i] = IF i = 0 THEN page.rows ELSE Overlay(f[i - 1], Pending[i])
  BY <1>5, Zenon DEF ShownBy
<1> DEFINE Follow(i) == OnCourse(f[i][s], w, b + i + 1, q, s)
           S == {i \in 0..n : ~Follow(i)}
<1>7. S = {}
  <2> SUFFICES ASSUME S # {} PROVE FALSE
    OBVIOUS
  <2>1. S \in SUBSET Nat
    BY <1>1
  <2>2. PICK i \in S : \A y \in S : i <= y
    BY <2>1, LeastIsIn
  <2>3. i \in 0..n /\ ~Follow(i)
    OBVIOUS
  <2>4. Follow(0)
    <3>1. f[0] = page.rows
      BY <1>1, <1>6
    <3>2. b + 0 + 1 <= q
      BY <1>1, <1>4
    <3> QED BY <1>4, <3>1, <3>2 DEF OnCourse
  <2>5. i # 0 /\ i \in 1..n /\ i - 1 \in 0..n /\ ~(i <= i - 1)
    BY <1>1, <2>3, <2>4
  <2>6. Follow(i - 1)
    BY <2>2, <2>5
  <2> DEFINE p == b + i
  <2>7. p \in 1..Len(w) - 1 /\ b + (i - 1) + 1 = p /\ b + i + 1 = p + 1
    BY <1>1, <2>5
  <2> HIDE DEF p
  <2>8. PICK rows : rows = f[i - 1]
    OBVIOUS
  <2>9. OnCourse(rows[s], w, p, q, s)
    BY <2>6, <2>7, <2>8
  <2>10. PICK d : d = queue[i].id
    OBVIOUS
  <2>11. f[i] = Overlay(rows, d)
    BY <1>2, <1>6, <2>3, <2>5, <2>8, <2>10
  <2>12. Writes(queue[i], p, w, Len(rowsAt), task, command, newestRunRevision)
    BY <2>5 DEF Course, p
  <2>13. Suits(command[d], p - 1, w[p]) /\ w[p + 1] = After(command[d], w[p])
    BY <2>10, <2>12 DEF Writes
  <2>14. command[d].kind # "run"
    <3>1. i \in DOMAIN queue /\ queue # <<>>
      BY <1>1, <2>5, InvFacts
    <3>2. Busy
      BY <3>1, InvFacts DEF Deciding, ModeOK, Busy
    <3> QED BY <2>10, <3>1, <3>2 DEF ReviewBlocked
  <2>15. OnCourse(Overlay(rows, d)[s], w, p + 1, q, s)
    <3>1. Len(w) \in Nat /\ Ordered(w)
      BY <1>1
    <3>2. q \in 1..Len(w) /\ page.rows[s] = w[q][s]
      BY <1>4
    <3>3. p \in 1..Len(w) - 1
      BY <2>7
    <3>4. PICK before : before = p - 1
      OBVIOUS
    <3>5. Suits(command[d], before, w[p]) /\ w[p + 1] = After(command[d], w[p])
      BY <2>13, <3>4
    <3> HIDE DEF n, S, Follow
    <3> QED BY <2>9, <2>14, <3>1, <3>2, <3>3, <3>5, OverlayOnCourse
  <2>16. Follow(i)
    BY <2>7, <2>11, <2>15
  <2> QED BY <2>3, <2>16
<1>8. Follow(n)
  BY <1>1, <1>7
<1>9. CASE b + n + 1 <= q
  <2>1. q = Len(w)
    BY <1>1, <1>4, <1>9
  <2> QED BY <1>1, <1>5, <1>8, <1>9, <2>1 DEF OnCourse
<1>10. CASE ~(b + n + 1 <= q)
  BY <1>1, <1>5, <1>8, <1>10 DEF OnCourse
<1> QED BY <1>9, <1>10

LEMMA EnterAlone ==
  ASSUME SessionInv, AloneInv, NEW d \in Decisions, NEW content, command[d] = NoTask,
         content # NoTask, Deciding, Enter(d, content),
         queue = <<>> => content.previous = NoDecision, NEW w, NEW b,
         Course(w, b, rowsAt, task, command, queue, newestRunRevision),
         PageAt(b, page, read["undo"]), Suits(content, Len(w) - 1, w[Len(w)])
  PROVE  AloneInv'
<1> DEFINE n == Len(queue)
           x == After(content, w[Len(w)])
           v == Append(w, x)
<1>1. UNCHANGED <<rowsAt, task, late, page>> /\ status' = "saving"
  BY DEF Enter, serviceVars
<1>2. command' = [command EXCEPT ![d] = content] /\ queue' = Append(queue, Waiting(d)) /\ StartLoop
  BY DEF Enter
<1>3. /\ command'[d] = content
      /\ \A y \in Decisions : y # d => command'[y] = command[y]
  BY <1>2, InvFacts
<1>4. /\ n \in Nat /\ b \in Nat /\ Len(w) = b + n + 1 /\ Len(w) \in Nat /\ IsSequence(w)
      /\ Len(rowsAt) \in Nat /\ Len(rowsAt) <= Len(w) /\ Ordered(w)
      /\ \A i \in 1..Len(rowsAt) : w[i] = rowsAt[i]
  BY CourseFacts, InvFacts DEF Course
<1>5. /\ IsSequence(v) /\ Len(v) = Len(w) + 1 /\ v[Len(w) + 1] = x
      /\ \A i \in 1..Len(w) : v[i] = w[i]
  BY <1>4, AppendFacts
<1>6. Ordered(v)
  <2>1. PICK rows : rows = w[Len(w)]
    OBVIOUS
  <2>2. PICK e : e = After(content, rows)
    OBVIOUS
  <2>3. \A s \in Shots : e[s] = rows[s] \/ e[s].revision = rows[s].revision + 1
    BY <2>2 DEF After
  <2>4. \A s \in Shots : e[s] = w[Len(w)][s] \/ e[s].revision = w[Len(w)][s].revision + 1
    BY <2>1, <2>3
  <2>5. v = Append(w, e)
    BY <2>1, <2>2
  <2>6. Len(w) >= 1
    BY <1>4
  <2> HIDE DEF v
  <2> QED BY <1>4, <2>4, <2>5, <2>6, OrderedGrows
<1> HIDE DEF v
<1>7. Extends(rowsAt, v)
  BY <1>4, <1>5 DEF Extends
<1>8. /\ IsSequence(queue') /\ Len(queue') = n + 1 /\ queue'[n + 1] = Waiting(d)
      /\ \A i \in 1..n : queue'[i] = queue[i]
  BY <1>2, InvFacts, AppendFacts
<1>9. \A i \in 1..n : queue[i].id \in Decisions /\ command[queue[i].id] # NoTask
                      /\ command'[queue[i].id] = command[queue[i].id]
  BY <1>3, InvFacts DEF QueueIn, EntryIn
<1>10. n >= 1 => newestRunRevision' = newestRunRevision
  <2>1. n >= 1 => Busy
    BY InvFacts DEF Deciding, ModeOK, Busy
  <2> QED BY <1>2, <2>1 DEF StartLoop, loopVars
<1>11. ASSUME NEW i \in 1..n
       PROVE  Writes(queue'[i], b + i, v, Len(rowsAt), task, command', newestRunRevision')
  <2>1. Writes(queue[i], b + i, w, Len(rowsAt), task, command, newestRunRevision)
    BY DEF Course
  <2>2. /\ queue'[i] = queue[i] /\ command'[queue[i].id] = command[queue[i].id]
        /\ newestRunRevision' = newestRunRevision
    BY <1>4, <1>8, <1>9, <1>10
  <2>3. b + i \in 1..Len(w) /\ b + i + 1 \in 1..Len(w)
    BY <1>4
  <2>4. v[b + i] = w[b + i] /\ v[b + i + 1] = w[b + i + 1]
    BY <1>5, <2>3
  <2> QED BY <2>1, <2>2, <2>4 DEF Writes
<1>12. Writes(queue'[n + 1], b + (n + 1), v, Len(rowsAt), task, command', newestRunRevision')
  <2>1. Waiting(d).id = d /\ Waiting(d).at = "sending"
    BY DEF Waiting
  <2>2. task[d].state # "saved"
    BY DEF SessionInv, ServiceOK, TasksIn, TaskIn, NoTask
  <2>3. b + (n + 1) = Len(w) /\ Len(w) \in 1..Len(w) /\ ~(Len(w) < Len(rowsAt))
    BY <1>4
  <2>4. v[Len(w)] = w[Len(w)] /\ v[Len(w) + 1] = x
    BY <1>5, <2>3
  <2> QED BY <1>3, <1>8, <2>1, <2>2, <2>3, <2>4 DEF Writes
<1>13. ASSUME NEW i \in 2..n + 1 PROVE queue'[i].at # "confirming"
  <2>1. CASE i \in 2..n
    <3>1. i \in 1..n /\ queue[i].at # "confirming"
      BY <2>1 DEF Course
    <3> QED BY <1>8, <3>1
  <2>2. CASE i = n + 1
    BY <1>8, <2>2 DEF Waiting
  <2> QED BY <1>4, <2>1, <2>2
<1>14. Course(v, b, rowsAt', task', command', queue', newestRunRevision')
  <2>1. \A i \in 1..n + 1 : i \in 1..n \/ i = n + 1
    BY <1>4
  <2>2. \A i \in 1..Len(queue') :
          Writes(queue'[i], b + i, v, Len(rowsAt), task, command', newestRunRevision')
    BY <1>8, <1>11, <1>12, <2>1
  <2>3. Len(v) = b + Len(queue') + 1 /\ b \in 0..(Len(rowsAt) - 1)
    BY <1>4, <1>5, <1>8 DEF Course
  <2> QED BY <1>1, <1>5, <1>6, <1>7, <1>8, <1>13, <2>2, <2>3 DEF Course
<1>15. PageAt(b, page', read'["undo"])
  <2>1. read'["undo"] = read["undo"]
    BY <1>1, <1>2, LoopStarts DEF Readers
  <2> QED BY <1>1, <2>1
<1>16. AllWait(task', command', queue')
  <2>1. ASSUME NEW y \in Decisions, command'[y] # NoTask, task[y].state # "saved"
        PROVE  \E i \in 1..n + 1 : queue'[i].id = y
    <3>1. CASE y = d
      <4>1. n + 1 \in 1..n + 1 /\ queue'[n + 1].id = d
        BY <1>4, <1>8 DEF Waiting
      <4> QED BY <3>1, <4>1
    <3>2. CASE y # d
      <4>1. PICK i \in 1..n : queue[i].id = y
        BY <1>3, <2>1, <3>2 DEF AloneInv, AllWait
      <4>2. i \in 1..n + 1
        BY <1>4
      <4> QED BY <1>8, <4>1, <4>2
    <3> QED BY <3>1, <3>2
  <2>2. ASSUME NEW i \in 1..n + 1, NEW j \in 1..n + 1, queue'[i].id = queue'[j].id
        PROVE  i = j
    <3>1. \A k \in 1..n : queue'[k].id # d /\ queue'[k].id = queue[k].id
      BY <1>8, <1>9
    <3>2. queue'[n + 1].id = d
      BY <1>8 DEF Waiting
    <3>3. (i \in 1..n \/ i = n + 1) /\ (j \in 1..n \/ j = n + 1)
      BY <1>4
    <3>4. CASE i \in 1..n /\ j \in 1..n
      BY <2>2, <3>1, <3>4 DEF AloneInv, AllWait
    <3> QED BY <2>2, <3>1, <3>2, <3>3, <3>4
  <2>3. FollowsSaved(command'[queue'[1].id].previous, task)
    <3>1. CASE n = 0
      <4>1. queue'[1].id = d /\ queue = <<>>
        BY <1>8, <3>1, InvFacts DEF Waiting
      <4> QED BY <1>3, <4>1 DEF FollowsSaved
    <3>2. CASE n # 0
      <4>1. 1 \in 1..n /\ n >= 1
        BY <1>4, <3>2
      <4>2. queue'[1] = queue[1] /\ command'[queue[1].id] = command[queue[1].id]
        BY <1>8, <1>9, <4>1
      <4> QED BY <4>1, <4>2 DEF AloneInv, AllWait
    <3> QED BY <3>1, <3>2
  <2>4. \A y \in Decisions : ~Ended(task[y])
    BY DEF AloneInv, AllWait
  <2> QED BY <1>1, <1>8, <2>1, <2>2, <2>3, <2>4 DEF AllWait
<1>17. late' = {} /\ status' # "error"
  BY <1>1 DEF AloneInv
<1> QED BY <1>14, <1>15, <1>16, <1>17 DEF AloneInv

LEMMA DecideAlone ==
  ASSUME SessionAssumption, SessionInv, AloneInv, NEW d \in Decisions, Decide(d)
  PROVE  AloneInv'
<1>1. command[d] = NoTask /\ Deciding /\ ~ReviewBlocked
  BY InvFacts DEF Decide, Deciding, ReviewBlocked, Busy, ModeOK
<1>2. PICK c \in Contents :
        /\ \E s \in c.targets : ~KeepsApproval(c, Shown[s])
        /\ Enter(d, [kind |-> c.kind, verdict |-> c.verdict, targets |-> c.targets,
                     expected |-> [s \in c.targets |-> Shown[s].revision],
                     previous |-> Predecessor])
  BY DEF Decide
<1>3. PICK content : content = [kind |-> c.kind, verdict |-> c.verdict, targets |-> c.targets,
                                expected |-> [s \in c.targets |-> Shown[s].revision],
                                previous |-> Predecessor]
  OBVIOUS
<1>4. /\ content.kind = c.kind /\ content.verdict = c.verdict /\ content.targets = c.targets
      /\ content.previous = Predecessor
      /\ \A s \in c.targets : content.expected[s] = Shown[s].revision
  BY <1>3
<1>5. Enter(d, content)
  BY <1>2, <1>3
<1>6. content # NoTask
  BY <1>3, Commanded
<1>7. queue = <<>> => content.previous = NoDecision
  BY <1>4 DEF Predecessor, LastQueued
<1>8. PICK w, b : /\ Course(w, b, rowsAt, task, command, queue, newestRunRevision)
                  /\ PageAt(b, page, read["undo"])
  BY DEF AloneInv
<1>9. \A s \in Shots : Shown[s] = w[Len(w)][s]
  BY <1>1, <1>8, ShownIsCourse
<1>10. c.targets \subseteq Shots /\ c.kind # "run"
  BY DEF Contents
<1>11. Suits(content, Len(w) - 1, w[Len(w)])
  <2>1. PICK s \in c.targets : ~KeepsApproval(c, Shown[s])
    BY <1>2
  <2>2. ~KeepsApproval(content, w[Len(w)][s]) /\ s \in content.targets
    BY <1>4, <1>9, <1>10, <2>1 DEF KeepsApproval
  <2>3. s \in Changes(content, w[Len(w)])
    BY <1>4, <1>10, <2>2 DEF Changes
  <2>4. \A t \in content.targets : w[Len(w)][t].revision = content.expected[t]
    BY <1>4, <1>9, <1>10
  <2> QED BY <1>4, <1>10, <2>3, <2>4 DEF Suits
<1> QED BY <1>1, <1>5, <1>6, <1>7, <1>8, <1>11, EnterAlone

LEMMA ApproveRunAlone ==
  ASSUME SessionAssumption, SessionInv, AloneInv, NEW d \in Decisions, ApproveRun(d)
  PROVE  AloneInv'
<1>1. command[d] = NoTask /\ Deciding /\ queue = <<>> /\ ~Busy
  BY InvFacts DEF ApproveRun, Deciding, Busy, ModeOK
<1>2. PICK content : content = [kind |-> "run", verdict |-> "approved", targets |-> {},
                                runRevision |-> page.at,
                                count |-> Cardinality(OpenShots(page.rows)),
                                previous |-> NoDecision]
  OBVIOUS
<1>3. Enter(d, content) /\ OpenShots(page.rows) # {}
  BY <1>2 DEF ApproveRun
<1>4. content # NoTask /\ content.previous = NoDecision
  BY <1>2, Commanded
<1>5. PICK w, b : /\ Course(w, b, rowsAt, task, command, queue, newestRunRevision)
                  /\ PageAt(b, page, read["undo"])
  BY DEF AloneInv
<1>6. Len(w) = b + 1 /\ Len(w) = Len(rowsAt) /\ Now = b /\ b \in Nat
  BY <1>1, <1>5, CourseFacts, InvFacts
<1>7. page.at = b
  <2>1. read["undo"] = NoRead
    BY <1>1, InvFacts DEF ModeOK, Busy
  <2>2. page.at >= b /\ page.at \in 0..(Len(rowsAt) - 1)
    BY <1>5, <2>1, IdleRead, InvFacts DEF PageAt, Had
  <2> QED BY <1>6, <2>2
<1>8. \A s \in Shots : page.rows[s] = w[Len(w)][s]
  <2> TAKE s \in Shots
  <2>1. PICK r \in page.at..(Len(rowsAt) - 1) : page.rows[s] = rowsAt[r + 1][s]
    BY InvFacts DEF Had
  <2>2. r + 1 = Len(rowsAt) /\ Len(rowsAt) \in 1..Len(rowsAt)
    BY <1>6, <1>7, <2>1
  <2> QED BY <1>5, <1>6, <2>1, <2>2, CourseFacts
<1>9. OpenShots(page.rows) = OpenShots(w[Len(w)])
  BY <1>8 DEF OpenShots
<1>10. Suits(content, Len(w) - 1, w[Len(w)])
  <2>1. /\ content.kind = "run" /\ content.runRevision = page.at
        /\ content.count = Cardinality(OpenShots(page.rows))
    BY <1>2
  <2>2. Changes(content, w[Len(w)]) = OpenShots(w[Len(w)])
    BY <2>1 DEF Changes
  <2>3. Len(w) - 1 = page.at
    BY <1>6, <1>7
  <2> QED BY <1>3, <1>9, <2>1, <2>2, <2>3 DEF Suits
<1> QED BY <1>1, <1>3, <1>4, <1>5, <1>10, EnterAlone


-----------------------------------------------------------------------------
(* The service of a page that is alone.                                    *)
LEMMA ProcessAlone ==
  ASSUME SessionAssumption, SessionInv, AloneInv, NEW d \in Decisions, Process(d)
  PROVE  AloneInv'
<1>1. PICK w, b : /\ Course(w, b, rowsAt, task, command, queue, newestRunRevision)
                  /\ PageAt(b, page, read["undo"])
  BY DEF AloneInv
<1>2. /\ b \in Nat /\ Len(w) = b + Len(queue) + 1 /\ Len(w) \in Nat /\ Len(queue) \in Nat
      /\ Len(rowsAt) \in Nat /\ Len(rowsAt) >= 1 /\ b < Len(rowsAt) /\ Len(rowsAt) <= Len(w)
      /\ Now = Len(rowsAt) - 1 /\ RowsAt(Now) = w[Len(rowsAt)] /\ IsSequence(rowsAt)
      /\ \A i \in 1..Len(rowsAt) : w[i] = rowsAt[i]
  BY <1>1, CourseFacts, InvFacts
<1>3. /\ task[d].state = "queued" /\ PreviousSettled(d) /\ ~Ended(task[d])
      /\ UNCHANGED <<late, command, queue, newestRunRevision, page, status, read>>
  BY DEF Process, pageVars, loopVars, AloneInv, AllWait
<1>4. command[d] # NoTask
  BY <1>3 DEF SessionInv, ServiceOK, TasksIn, TaskIn, NoTask
<1>5. PICK i \in 1..Len(queue) : queue[i].id = d
  BY <1>3, <1>4 DEF AloneInv, AllWait
<1>6. Writes(queue[i], b + i, w, Len(rowsAt), task, command, newestRunRevision)
  BY <1>1 DEF Course
<1>7. FollowsSaved(command[d].previous, task) /\ b + i = Len(rowsAt)
  <2>1. ~(b + i < Len(rowsAt))
    BY <1>3, <1>5, <1>6 DEF Writes
  <2>2. CASE i = 1
    <3>1. FollowsSaved(command[d].previous, task)
      BY <1>5, <2>2 DEF AloneInv, AllWait
    <3>2. b + 1 <= Len(rowsAt)
      BY <1>2
    <3> QED BY <1>2, <2>1, <2>2, <3>1, <3>2
  <2>3. CASE i # 1
    <3>1. i - 1 \in 1..Len(queue) /\ i \in 2..Len(queue)
      BY <1>2, <2>3
    <3>2. command[d].previous = queue[i - 1].id /\ queue[i - 1].id \in Decisions
      BY <1>5, <3>1, InvFacts DEF QueueIn, EntryIn
    <3>3. command[d].previous # NoDecision
      BY <3>2 DEF SessionAssumption
    <3>4. task[queue[i - 1].id].state = "saved"
      BY <1>3, <3>2, <3>3 DEF PreviousSettled, AloneInv, AllWait, Ended
    <3>5. Writes(queue[i - 1], b + (i - 1), w, Len(rowsAt), task, command, newestRunRevision)
      BY <1>1, <3>1 DEF Course
    <3>6. b + (i - 1) < Len(rowsAt)
      BY <3>4, <3>5 DEF Writes
    <3>7. b + i = Len(rowsAt)
      BY <1>2, <2>1, <3>6
    <3> QED BY <3>2, <3>4, <3>7 DEF FollowsSaved
  <2> QED BY <2>2, <2>3
<1>8. /\ Suits(command[d], Now, w[Len(rowsAt)])
      /\ w[Len(rowsAt) + 1] = After(command[d], w[Len(rowsAt)])
  BY <1>2, <1>5, <1>6, <1>7 DEF Writes
<1>9. Decided(command[d]) = Changes(command[d], w[Len(rowsAt)])
  BY <1>2 DEF Decided, Changes
<1>10. Fits(d)
  <2>1. PreviousSaved(d)
    BY <1>7 DEF PreviousSaved, FollowsSaved
  <2> QED BY <1>2, <1>8, <1>9, <2>1 DEF Fits, Suits
<1>11. PICK t : /\ task' = [task EXCEPT ![d] = t] /\ t.state = "saved"
                /\ t.runRevision = Len(rowsAt)
  <2> DEFINE t == [state |-> "saved", runRevision |-> Now + 1,
                   revisions |-> [s \in Decided(command[d]) |-> RowsAt(Now)[s].revision + 1]]
  <2>1. task' = [task EXCEPT ![d] = t]
    BY <1>10 DEF Process
  <2>2. t.state = "saved" /\ t.runRevision = Len(rowsAt)
    BY <1>2
  <2> QED BY <2>1, <2>2
<1>12. task'[d] = t /\ \A y \in Decisions : y # d => task'[y] = task[y]
  BY <1>11, InvFacts
<1>13. rowsAt' = Append(rowsAt, w[Len(rowsAt) + 1])
  <2>1. Store(d)
    BY <1>10 DEF Process
  <2>2. rowsAt' = Append(rowsAt, [s \in Shots |->
          IF s \in Decided(command[d])
            THEN [revision |-> RowsAt(Now)[s].revision + 1,
                  verdict |-> [x \in Shots |-> command[d].verdict][s]]
            ELSE RowsAt(Now)[s]])
    BY <2>1 DEF Store, Rewritten
  <2>3. [s \in Shots |->
          IF s \in Decided(command[d])
            THEN [revision |-> RowsAt(Now)[s].revision + 1,
                  verdict |-> [x \in Shots |-> command[d].verdict][s]]
            ELSE RowsAt(Now)[s]] = After(command[d], RowsAt(Now))
    BY <1>2, <1>9 DEF After
  <2> QED BY <1>2, <1>8, <2>2, <2>3
<1>14. /\ IsSequence(rowsAt') /\ Len(rowsAt') = Len(rowsAt) + 1
       /\ \A j \in 1..Len(rowsAt') : w[j] = rowsAt'[j]
  <2>1. /\ Len(rowsAt') = Len(rowsAt) + 1 /\ IsSequence(rowsAt')
        /\ rowsAt'[Len(rowsAt) + 1] = w[Len(rowsAt) + 1]
        /\ \A j \in 1..Len(rowsAt) : rowsAt'[j] = rowsAt[j]
    BY <1>2, <1>13, AppendFacts
  <2>2. \A j \in 1..Len(rowsAt') : j \in 1..Len(rowsAt) \/ j = Len(rowsAt) + 1
    BY <1>2, <2>1
  <2> QED BY <1>2, <2>1, <2>2
<1>15. Extends(rowsAt', w)
  <2>1. Len(rowsAt') <= Len(w)
    BY <1>2, <1>7, <1>14
  <2> QED BY <1>14, <2>1 DEF Extends
<1>16. ASSUME NEW j \in 1..Len(queue)
       PROVE  Writes(queue[j], b + j, w, Len(rowsAt'), task', command, newestRunRevision)
  <2>1. Writes(queue[j], b + j, w, Len(rowsAt), task, command, newestRunRevision)
    BY <1>1 DEF Course
  <2>2. CASE j = i
    <3>1. task'[queue[j].id] = t /\ b + j < Len(rowsAt')
      BY <1>2, <1>5, <1>7, <1>12, <1>14, <2>2
    <3>2. b + j = Len(rowsAt)
      BY <1>7, <2>2
    <3>3. ~(b + j < Len(rowsAt))
      BY <1>2, <3>2
    <3> QED BY <1>11, <2>1, <3>1, <3>2, <3>3 DEF Writes
  <2>3. CASE j # i
    <3>1. queue[j].id # d /\ queue[j].id \in Decisions
      BY <1>5, <2>3, InvFacts DEF AloneInv, AllWait, QueueIn, EntryIn
    <3>2. task'[queue[j].id] = task[queue[j].id]
      BY <1>12, <3>1
    <3>3. (b + j < Len(rowsAt')) = (b + j < Len(rowsAt))
      BY <1>2, <1>7, <1>14, <2>3
    <3> QED BY <2>1, <3>2, <3>3 DEF Writes
  <2> QED BY <2>2, <2>3
<1>17. Course(w, b, rowsAt', task', command', queue', newestRunRevision')
  <2>1. b \in 0..(Len(rowsAt') - 1)
    BY <1>2, <1>14
  <2> QED BY <1>1, <1>3, <1>15, <1>16, <2>1 DEF Course
<1>18. PageAt(b, page', read'["undo"])
  BY <1>1, <1>3
<1>19. AllWait(task', command', queue')
  <2>1. \A y \in Decisions : /\ ~Ended(task'[y])
                             /\ task[y].state = "saved" => task'[y].state = "saved"
    BY <1>11, <1>12 DEF AloneInv, AllWait, Ended
  <2>2. Len(queue) >= 1 => FollowsSaved(command[queue[1].id].previous, task')
    BY <2>1 DEF AloneInv, AllWait, FollowsSaved
  <2> QED BY <1>3, <2>1, <2>2 DEF AloneInv, AllWait
<1>20. late' = {} /\ status' # "error"
  BY <1>3 DEF AloneInv
<1> QED BY <1>17, <1>18, <1>19, <1>20 DEF AloneInv

LEMMA ServeUndoAlone ==
  ASSUME SessionInv, AloneInv, ServeUndo
  PROVE  AloneInv'
<1>1. /\ UNCHANGED <<task, late, command, page, queue, status, newestRunRevision>>
      /\ read["undo"] # NoRead
  BY IdleRead DEF ServeUndo, loopVars
<1>2. read'["undo"].at = "sent"
  BY InvFacts, IdleRead DEF ServeUndo, Asked, Readers
<1>3. queue = <<>> /\ Len(queue) = 0
  BY <1>1, InvFacts DEF ModeOK
<1>4. \A b : PageAt(b, page', read'["undo"])
  BY <1>2 DEF PageAt
<1>5. CASE UNCHANGED rowsAt
  <2>1. status' # "error"
    BY <1>1 DEF AloneInv
  <2> QED BY <1>1, <1>4, <1>5, <2>1, CourseStays
<1>6. CASE ~UNCHANGED rowsAt
  <2> DEFINE verdicts == [s \in Shots |-> RowsAt(task[undoing.id].runRevision - 1)[s].verdict]
             shots == DOMAIN task[undoing.id].revisions
  <2>1. rowsAt' = Rewritten(shots, verdicts)
    BY <1>6 DEF ServeUndo
  <2>2. PICK e : /\ rowsAt' = Append(rowsAt, e)
                 /\ \A s \in Shots : \/ e[s] = RowsAt(Now)[s]
                                     \/ e[s].revision = RowsAt(Now)[s].revision + 1
    <3> DEFINE e == [s \in Shots |->
                       IF s \in shots
                         THEN [revision |-> RowsAt(Now)[s].revision + 1, verdict |-> verdicts[s]]
                         ELSE RowsAt(Now)[s]]
    <3>1. rowsAt' = Append(rowsAt, e)
      BY <2>1 DEF Rewritten
    <3> HIDE DEF verdicts, shots
    <3>2. \A s \in Shots : e[s] = RowsAt(Now)[s] \/ e[s].revision = RowsAt(Now)[s].revision + 1
      OBVIOUS
    <3> QED BY <3>1, <3>2
  <2>3. PICK w, b : Course(w, b, rowsAt, task, command, queue, newestRunRevision)
    BY DEF AloneInv
  <2>4. /\ b \in Nat /\ Len(w) = b + 1 /\ Len(w) = Len(rowsAt) /\ IsSequence(w) /\ Ordered(w)
        /\ Len(rowsAt) \in Nat /\ Len(rowsAt) >= 1 /\ IsSequence(rowsAt)
        /\ RowsAt(Now) = w[Len(w)] /\ \A i \in 1..Len(rowsAt) : w[i] = rowsAt[i]
    <3>1. /\ b \in Nat /\ Len(w) = b + Len(queue) + 1 /\ b < Len(rowsAt) /\ Len(rowsAt) <= Len(w)
          /\ IsSequence(w) /\ Len(rowsAt) \in Nat /\ Len(rowsAt) >= 1 /\ IsSequence(rowsAt)
          /\ RowsAt(Now) = w[Len(rowsAt)] /\ \A i \in 1..Len(rowsAt) : w[i] = rowsAt[i]
      BY <2>3, CourseFacts, InvFacts
    <3>2. Len(w) = b + 1 /\ Len(w) = Len(rowsAt)
      BY <1>3, <3>1
    <3> QED BY <2>3, <3>1, <3>2 DEF Course
  <2>5. PICK v : v = Append(w, e)
    OBVIOUS
  <2>6. /\ IsSequence(v) /\ Len(v) = Len(w) + 1 /\ v[Len(w) + 1] = e
        /\ \A i \in 1..Len(w) : v[i] = w[i]
    BY <2>4, <2>5, AppendFacts
  <2>7. /\ IsSequence(rowsAt') /\ Len(rowsAt') = Len(rowsAt) + 1 /\ rowsAt'[Len(rowsAt) + 1] = e
        /\ \A i \in 1..Len(rowsAt) : rowsAt'[i] = rowsAt[i]
    BY <2>2, <2>4, AppendFacts
  <2>8. Ordered(v)
    <3>1. \A s \in Shots : e[s] = w[Len(w)][s] \/ e[s].revision = w[Len(w)][s].revision + 1
      BY <2>2, <2>4
    <3>2. Len(w) >= 1
      BY <2>4
    <3> QED BY <2>4, <2>5, <3>1, <3>2, OrderedGrows
  <2>9. Extends(rowsAt', v)
    <3>1. Len(rowsAt') <= Len(v)
      BY <2>4, <2>6, <2>7
    <3>2. \A i \in 1..Len(rowsAt') : i \in 1..Len(rowsAt) \/ i = Len(rowsAt) + 1
      BY <2>4, <2>7
    <3>3. \A i \in 1..Len(rowsAt') : v[i] = rowsAt'[i]
      BY <2>4, <2>6, <2>7, <3>2
    <3> QED BY <3>1, <3>3 DEF Extends
  <2>10. Course(v, b + 1, rowsAt', task', command', queue', newestRunRevision')
    <3>1. b + 1 \in 0..(Len(rowsAt') - 1) /\ Len(v) = b + 1 + Len(queue') + 1
      BY <1>1, <1>3, <2>4, <2>6, <2>7
    <3>2. 1..Len(queue') = {} /\ 2..Len(queue') = {}
      BY <1>1, <1>3
    <3> QED BY <2>6, <2>8, <2>9, <3>1, <3>2 DEF Course
  <2>11. late' = {} /\ status' # "error" /\ AllWait(task', command', queue')
    BY <1>1 DEF AloneInv
  <2> QED BY <1>4, <2>10, <2>11 DEF AloneInv
<1> QED BY <1>5, <1>6

LEMMA AloneStarts ==
  ASSUME SessionInit
  PROVE  AloneInv /\ others \in Nat /\ faults \in Nat
<1>1. /\ IsSequence(rowsAt) /\ Len(rowsAt) = 1 /\ rowsAt[1] = Fresh
  <2>1. rowsAt = <<Fresh>> /\ <<Fresh>> \in Seq({Fresh}) /\ Len(<<Fresh>>) = 1
    BY DEF SessionInit
  <2> QED BY <2>1 DEF IsSequence
<1>2. /\ queue = <<>> /\ Len(queue) = 0 /\ late = {} /\ status = "idle"
      /\ task = [d \in Decisions |-> NoTask] /\ command = [d \in Decisions |-> NoTask]
      /\ page.at = 0 /\ read["undo"] = NoRead
  BY EmptySeq DEF SessionInit, Readers
<1>3. Ordered(rowsAt)
  <2>1. \A s \in Shots : Fresh[s].revision = 0
    BY DEF Fresh
  <2>2. 1..Len(rowsAt) = {1} /\ 1..1 = {1}
    BY <1>1
  <2> QED BY <1>1, <2>1, <2>2 DEF Ordered
<1>4. Extends(rowsAt, rowsAt)
  BY <1>1 DEF Extends
<1>5. Course(rowsAt, 0, rowsAt, task, command, queue, newestRunRevision)
  <2>1. 0 \in 0..(Len(rowsAt) - 1) /\ Len(rowsAt) = 0 + Len(queue) + 1
    BY <1>1, <1>2
  <2>2. 1..Len(queue) = {} /\ 2..Len(queue) = {}
    BY <1>2
  <2> QED BY <1>1, <1>3, <1>4, <2>1, <2>2 DEF Course
<1>6. PageAt(0, page, read["undo"])
  BY <1>2, IdleRead DEF PageAt
<1>7. AllWait(task, command, queue)
  <2>1. 1..Len(queue) = {} /\ ~(Len(queue) >= 1)
    BY <1>2
  <2> QED BY <1>2, <2>1 DEF AllWait, Ended, NoTask
<1>8. others \in Nat /\ faults \in Nat
  BY DEF SessionInit
<1> QED BY <1>2, <1>5, <1>6, <1>7, <1>8 DEF AloneInv

\* No step takes back what others did, or a fault.
LEMMA CountsRise ==
  ASSUME [SessionNext]_sessionVars, others \in Nat, faults \in Nat
  PROVE  /\ others' \in Nat /\ faults' \in Nat
         /\ Alone' => Alone /\ UNCHANGED <<others, faults>>
<1> DEFINE Counts == /\ others' = others \/ others' = others + 1
                     /\ faults' = faults \/ faults' = faults + 1
<1>1. Fault => Counts
  BY DEF Fault
<1>2. UNCHANGED boundVars => Counts
  BY DEF boundVars
<1>3. ASSUME NEW d \in Decisions, Process(d) \/ ProcessFails(d) \/ ArrivesLate(d) PROVE Counts
  BY <1>1, <1>2, <1>3 DEF Process, ProcessFails, ArrivesLate
<1>4. ASSUME NEW s, NEW verdict, OtherDecides(s, verdict) PROVE Counts
  BY <1>4 DEF OtherDecides
<1>5. ServeUndo => Counts
  BY <1>2 DEF ServeUndo
<1>6. ASSUME NEW i, \/ Post(i) \/ PostFails(i) \/ AdmissionRefused(i) \/ ReadReceipt(i)
                    \/ ReceiptFails(i)
      PROVE  Counts
  BY <1>1, <1>2, <1>6 DEF Post, PostFails, AdmissionRefused, ReadReceipt, ReceiptFails
<1>7. TakeSaved \/ ConfirmRead \/ TakeFailed \/ ConfirmFails \/ TakeConflict => Counts
  BY <1>1, <1>2 DEF TakeSaved, ConfirmRead, TakeFailed, ConfirmFails, TakeConflict
<1>8. Retry \/ Refresh \/ Refreshed \/ RefreshFails \/ BeginUndo \/ UndoAnswered \/ UndoFails
        => Counts
  BY <1>1, <1>2 DEF Retry, Refresh, Refreshed, RefreshFails, BeginUndo, UndoAnswered, UndoFails
<1>9. ASSUME NEW d, Decide(d) \/ ApproveRun(d) PROVE Counts
  BY <1>2, <1>9 DEF Decide, ApproveRun, Enter
<1>10. ASSUME NEW k, ReadRun(k) \/ ReadRows(k) \/ BeginRead(k) \/ Land(k) PROVE Counts
  BY <1>2, <1>10 DEF ReadRun, ReadRows, BeginRead, Land
<1>11. UNCHANGED sessionVars => Counts
  BY <1>2 DEF sessionVars
<1>12. Counts
  BY <1>3, <1>4, <1>5, <1>6, <1>7, <1>8, <1>9, <1>10, <1>11
     DEF SessionNext, Service, Queue, Reviewer
<1> QED BY <1>12 DEF Alone

LEMMA AloneKept ==
  ASSUME SessionAssumption, SessionInv, [SessionNext]_sessionVars, Alone => AloneInv,
         others \in Nat, faults \in Nat, Alone'
  PROVE  AloneInv'
<1>1. Alone /\ UNCHANGED <<others, faults>> /\ AloneInv
  BY CountsRise
<1>2. ~Fault
  BY <1>1 DEF Fault
<1>3. CASE Service
  <2>1. ASSUME NEW d \in Decisions, ArrivesLate(d) PROVE FALSE
    BY <1>1, <2>1 DEF ArrivesLate, AloneInv
  <2>2. ASSUME NEW d \in Decisions, ProcessFails(d) PROVE FALSE
    BY <1>2, <2>2 DEF ProcessFails
  <2>3. ASSUME NEW s, NEW verdict, OtherDecides(s, verdict) PROVE FALSE
    BY <1>1, <2>3 DEF OtherDecides
  <2> QED BY <1>1, <1>3, <2>1, <2>2, <2>3, ProcessAlone, ServeUndoAlone DEF Service
<1>4. CASE Queue
  <2>1. \A i \in DOMAIN queue : queue[i].at \in {"sending", "waiting", "saved", "confirming"}
    <3>1. PICK w, b : Course(w, b, rowsAt, task, command, queue, newestRunRevision)
      BY <1>1 DEF AloneInv
    <3> QED BY <3>1, InvFacts DEF Course, Writes
  <2>2. ASSUME NEW i \in DOMAIN queue, PostFails(i) \/ ReceiptFails(i) \/ AdmissionRefused(i)
        PROVE  FALSE
    BY <1>2, <2>1, <2>2 DEF PostFails, ReceiptFails, AdmissionRefused, Is
  <2>3. ~(TakeFailed \/ ConfirmFails \/ TakeConflict)
    BY <1>2, <2>1 DEF TakeFailed, ConfirmFails, TakeConflict, Is
  <2> QED BY <1>1, <1>4, <2>2, <2>3, PostAlone, ReadReceiptAlone, TakeSavedAlone,
             ConfirmReadAlone DEF Queue
<1>5. CASE Reviewer
  <2>1. ~(RefreshFails \/ UndoFails \/ Retry)
    BY <1>1, <1>2 DEF RefreshFails, UndoFails, Retry, AloneInv
  <2> QED BY <1>1, <1>5, <2>1, DecideAlone, ApproveRunAlone, RefreshAlone, RefreshedAlone,
             BeginUndoAlone, UndoAnsweredAlone DEF Reviewer
<1>6. CASE \E k \in Readers : ReadRun(k) \/ ReadRows(k) \/ BeginRead(k) \/ Land(k)
  BY <1>1, <1>6, ReadRunAlone, ReadRowsAlone, BeginReadAlone, LandAlone
<1>7. CASE UNCHANGED sessionVars
  <2>1. UNCHANGED <<rowsAt, task, command, queue, newestRunRevision, late, status, page, read>>
    BY <1>7 DEF sessionVars, serviceVars, pageVars, loopVars
  <2>2. status' # "error"
    BY <1>1, <2>1 DEF AloneInv
  <2> QED BY <1>1, <2>1, <2>2, CourseStays
<1> QED BY <1>3, <1>4, <1>5, <1>6, <1>7 DEF SessionNext

(* A page that is alone is never refused, however fast its decisions       *)
(* follow each other and whatever reads come between: each of them is of   *)
(* the rows that the ones before it are going to leave.                    *)
THEOREM RefusalsAreTrue ==
  SessionSpec => []RefusalIsTrue
<1> DEFINE Undisturbed == others \in Nat /\ faults \in Nat /\ (Alone => AloneInv)
<1>1. SessionInit => Undisturbed
  BY AloneStarts
<1>2. SessionInv /\ Undisturbed /\ [SessionNext]_sessionVars => Undisturbed'
  BY AloneKept, CountsRise, SessionAssumption
<1>3. Undisturbed /\ UnsavedStaysSo => RefusalIsTrue
  BY DEF Alone, AloneInv, AllWait, Ended, RefusalIsTrue
<1>4. SessionSpec => []SessionInv /\ []UnsavedStaysSo
  BY SessionInvariant, UnsavedStays, SessionAssumption
<1> HIDE DEF Undisturbed
<1> QED BY <1>1, <1>2, <1>3, <1>4, PTL DEF SessionSpec

=============================================================================
