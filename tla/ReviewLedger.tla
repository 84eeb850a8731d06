---------------------------- MODULE ReviewLedger ----------------------------
(***************************************************************************)
(* What a review promises its readers: a ledger of commands.  A command    *)
(* is entered once; it becomes the standing decision of its rows, or it    *)
(* gives the rows of an earlier command back what stood before it, while   *)
(* that command still stands on all of them.  A closed ledger is frozen.   *)
(* Revisions, guards, retries and concurrent calls are not here.           *)
(***************************************************************************)
CONSTANTS Rows, Commands, NotSaved

VARIABLES
  standing,  \* per row: the decision in force
  entry,     \* per command: its rows, what stood there, and what undid it
  open

vars == <<standing, entry, open>>

Entered(c) == entry[c] # NotSaved

Init == entry = [c \in Commands |-> NotSaved] /\ open = TRUE

Decide(c, rows) ==
  /\ open /\ ~Entered(c) /\ rows # {}
  /\ standing' = [r \in Rows |-> IF r \in rows THEN c ELSE standing[r]]
  /\ entry' = [entry EXCEPT ![c] =
       [rows |-> rows, before |-> [r \in rows |-> standing[r]],
        undo |-> FALSE, undone |-> FALSE]]
  /\ UNCHANGED open

Undo(c, d) ==
  /\ open /\ ~Entered(c) /\ Entered(d)
  /\ ~entry[d].undo /\ ~entry[d].undone
  /\ \A r \in entry[d].rows : standing[r] = d
  /\ standing' = [r \in Rows |->
       IF r \in entry[d].rows THEN entry[d].before[r] ELSE standing[r]]
  /\ entry' = [entry EXCEPT ![d].undone = TRUE,
       ![c] = [rows |-> entry[d].rows, before |-> [r \in entry[d].rows |-> d],
               undo |-> TRUE, undone |-> FALSE]]
  /\ UNCHANGED open

Close == open' = FALSE /\ UNCHANGED <<standing, entry>>

Next ==
  \/ \E c \in Commands, rows \in SUBSET Rows : Decide(c, rows)
  \/ \E c, d \in Commands : Undo(c, d)
  \/ Close

Spec == Init /\ [][Next]_vars
=============================================================================
