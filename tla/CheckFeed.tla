------------------------------ MODULE CheckFeed ------------------------------
(***************************************************************************)
(* What the required check of a run promises to its readers: results come  *)
(* in the order in which they were decided, none comes before it was       *)
(* decided, some may be skipped, and a check that a rerun superseded never *)
(* changes again.                                                          *)
(***************************************************************************)
EXTENDS Naturals

VARIABLES
  newest,  \* the number of the newest result
  shown,   \* the number of the result on the check, 0 for its creation
  closed   \* a rerun superseded the check

feed == <<newest, shown, closed>>

Init == newest = 1 /\ shown = 0 /\ closed = FALSE

Decide == newest' = newest + 1 /\ UNCHANGED <<shown, closed>>

Publish ==
  /\ ~closed
  /\ shown' \in shown..newest
  /\ UNCHANGED <<newest, closed>>

Close == closed' = TRUE /\ UNCHANGED <<newest, shown>>

Next == Decide \/ Publish \/ Close

Spec == Init /\ [][Next]_feed
=============================================================================
