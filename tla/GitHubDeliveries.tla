-------------------------- MODULE GitHubDeliveries --------------------------
(***************************************************************************)
(* Webhook deliveries of GitHub: how each one is received, processed, and  *)
(* asked for again when it did not arrive.                                 *)
(*                                                                         *)
(* GitHub keeps a log of attempts, which it lists in pages, the newest     *)
(* first, and retries nothing.  A pass of recoverGitHubDeliveries reads    *)
(* the newest page and one page at a stored cursor, settles what arrived   *)
(* and asks for what failed, at growing waits and a bounded number of      *)
(* times.  A received delivery has a receipt; it is processed at once or   *)
(* by reconcileWebhooks, which takes the stored ones in their turn.        *)
(*                                                                         *)
(* Only deliveries that can start work are modelled.  The entries of other *)
(* repositories, a restored database, and the three days after which the   *)
(* log forgets an attempt are left out; a wait ends at any time.           *)
(***************************************************************************)
EXTENDS Integers, Sequences, FiniteSets, FiniteSetsExt, SequencesExt

CONSTANTS
  Guids,         \* deliveries
  Poison,        \* those whose processing always fails
  Scanners,      \* concurrent passes of recoverGitHubDeliveries
  PageSize,      \* the 100 deliveries of a page
  MaxRequests,   \* the maxAttempts of a redelivery
  Limit,         \* the deliveries that a pass of reconcileWebhooks reads
  MaxStops       \* bound: passes that stop

ASSUME DeliveriesAssumption ==
  /\ Poison \subseteq Guids /\ IsFiniteSet(Guids)
  /\ PageSize \in Nat \ {0} /\ MaxRequests \in Nat \ {0}
  /\ Limit \in Nat \ {0} /\ MaxStops \in Nat

VARIABLES
  log,       \* GitHub: the attempts in their order; an entry's place is its id
  flight,    \* GitHub: per delivery, the attempts that are still to be made
  receipt,   \* per delivery: its row of github_webhook_delivery
  fresh,     \* stored deliveries without last_attempt_at, by received_at
  tried,     \* the other stored deliveries, by last_attempt_at
  recovery,  \* per delivery: its row of github_webhook_recovery
  exhausted, \* deliveries with an open alert redelivery-exhausted
  cursor,    \* operations_cursors: the id below which a page starts, 0 for NULL
  asked,     \* ghost: per delivery, the redeliveries that passes asked for
  stops,     \* ghost: passes that stopped
  scan,      \* per pass: its place and locals
  batch      \* the rows that a pass of reconcileWebhooks still has to process

stored == <<receipt, fresh, tried, batch>>
rows == <<recovery, exhausted, cursor>>
deliveryVars == <<log, flight, stored, rows, asked, stops, scan>>

NoRecovery == [listed |-> FALSE, attempts |-> 0, waits |-> FALSE, resolved |-> FALSE]
IdleScan == [at |-> "idle", from |-> 0, seen |-> {}, next |-> 0, todo |-> {}, attempts |-> 0]

Scan(s, me) == scan' = [scan EXCEPT ![s] = me]
ScanTo(s, place) == Scan(s, [scan[s] EXCEPT !.at = place])

DInit ==
  /\ log = <<>> /\ flight = [g \in Guids |-> 1]
  /\ receipt = [g \in Guids |-> "none"] /\ fresh = <<>> /\ tried = <<>> /\ batch = <<>>
  /\ recovery = [g \in Guids |-> NoRecovery] /\ exhausted = {} /\ cursor = 0
  /\ asked = [g \in Guids |-> 0] /\ stops = 0 /\ scan = [s \in Scanners |-> IdleScan]

-----------------------------------------------------------------------------
(* GitHub makes an attempt.                                                *)

\* receiveWebhook: persistWebhook keeps the first receipt of a delivery.
Receive(g) ==
  IF receipt[g] = "none"
    THEN receipt' = [receipt EXCEPT ![g] = "stored"] /\ fresh' = Append(fresh, g)
    ELSE UNCHANGED <<receipt, fresh>>

\* The attempt reaches the service or not, and GitHub gets its answer or not.
Attempt(g) ==
  /\ flight[g] > 0
  /\ flight' = [flight EXCEPT ![g] = @ - 1]
  /\ \E arrives \in BOOLEAN, answered \in BOOLEAN :
       /\ answered => arrives
       /\ log' = Append(log, [guid |-> g, ok |-> answered])
       /\ IF arrives THEN Receive(g) ELSE UNCHANGED <<receipt, fresh>>
  /\ UNCHANGED <<tried, batch, rows, asked, stops, scan>>

-----------------------------------------------------------------------------
(* processWebhook, in the lifetime of the request or from a pass.          *)

Processed(g) ==
  /\ receipt' = [receipt EXCEPT ![g] = "processed"]
  /\ fresh' = RemoveFirst(fresh, g) /\ tried' = RemoveFirst(tried, g)

ProcessAtOnce(g) ==
  /\ receipt[g] = "stored" /\ g \notin Poison
  /\ Processed(g)
  /\ UNCHANGED <<log, flight, batch, rows, asked, stops, scan>>

\* Mutant: the rows in the order in which they were received.
StoredByArrival == SelectSeq(SetToSeq(Guids), LAMBDA g : receipt[g] = "stored")

\* ORDER BY last_attempt_at, received_at
StoredRows == fresh \o tried

ReadStored ==
  /\ batch = <<>> /\ StoredRows # <<>>
  /\ batch' = SubSeq(StoredRows, 1, Min({Limit, Len(StoredRows)}))
  /\ UNCHANGED <<log, flight, receipt, fresh, tried, rows, asked, stops, scan>>

Reprocess ==
  /\ batch # <<>> /\ Head(batch) \notin Poison
  /\ Processed(Head(batch)) /\ batch' = Tail(batch)
  /\ UNCHANGED <<log, flight, rows, asked, stops, scan>>

\* The failed delivery goes behind the others.
ReprocessFails ==
  /\ batch # <<>>
  /\ LET g == Head(batch)
     IN IF receipt[g] = "stored"
          THEN fresh' = RemoveFirst(fresh, g) /\ tried' = Append(RemoveFirst(tried, g), g)
          ELSE UNCHANGED <<fresh, tried>>
  /\ batch' = Tail(batch)
  /\ UNCHANGED <<log, flight, receipt, rows, asked, stops, scan>>

-----------------------------------------------------------------------------
(* A pass of recoverGitHubDeliveries.                                      *)

\* The page of the attempts whose ids are below a place, and its nextCursor.
Page(below) == { id \in 1..Len(log) : below - PageSize <= id /\ id < below }
NextCursor(page) == IF page = {} \/ Min(page) = 1 THEN 0 ELSE Min(page)

\* The stored cursor and the newest page, which is empty before any attempt.
ReadNewest(s) ==
  /\ scan[s].at = "idle" /\ log # <<>>
  /\ LET page == Page(Len(log) + 1)
     IN Scan(s, [IdleScan EXCEPT !.at = IF cursor = 0 THEN "storing" ELSE "older",
                                 !.from = cursor, !.seen = page, !.next = NextCursor(page)])
  /\ UNCHANGED <<log, flight, stored, rows, asked, stops>>

ReadOlder(s) ==
  /\ scan[s].at = "older"
  /\ LET page == Page(scan[s].from)
     IN Scan(s, [scan[s] EXCEPT !.at = "storing", !.seen = @ \cup page,
                                !.next = NextCursor(page)])
  /\ UNCHANGED <<log, flight, stored, rows, asked, stops>>

\* The newest entry of a delivery decides, also across the pages of a pass.
Deciding(ids) ==
  { id \in ids : \A other \in ids : log[other].guid = log[id].guid => other <= id }

\* Mutant: the walk over the older pages does not go on.
NextPlaceNone(s) == 0

NextPlace(s) == scan[s].next

StoreCursor(s) ==
  /\ scan[s].at = "storing"
  /\ cursor' = NextPlace(s)
  /\ Scan(s, [scan[s] EXCEPT !.at = "entry", !.seen = {}, !.todo = Deciding(scan[s].seen)])
  /\ UNCHANGED <<log, flight, stored, recovery, exhausted, asked, stops>>

Entry(s) == Max(scan[s].todo)
Delivery(s) == log[Entry(s)].guid
\* The pass goes to its next entry.
Done(s) == Scan(s, [scan[s] EXCEPT !.at = "entry", !.todo = @ \ {Entry(s)}])

Settle(g) ==
  /\ recovery' = [recovery EXCEPT ![g].resolved = recovery[g].listed]
  /\ exhausted' = exhausted \ {g}

EndScan(s) ==
  /\ scan[s].at = "entry" /\ scan[s].todo = {}
  /\ Scan(s, IdleScan)
  /\ UNCHANGED <<log, flight, stored, rows, asked, stops>>

\* settleDeliveries of a listed success, or of a receipt.
SettleArrived(s) ==
  /\ scan[s].at = "entry" /\ scan[s].todo # {}
  /\ log[Entry(s)].ok \/ receipt[Delivery(s)] # "none"
  /\ Settle(Delivery(s)) /\ Done(s)
  /\ UNCHANGED <<log, flight, stored, cursor, asked, stops>>

SkipResolved(s) ==
  /\ scan[s].at = "entry" /\ scan[s].todo # {}
  /\ ~log[Entry(s)].ok /\ receipt[Delivery(s)] = "none" /\ recovery[Delivery(s)].resolved
  /\ Done(s)
  /\ UNCHANGED <<log, flight, stored, rows, asked, stops>>

\* Neither a receipt nor a settled row: the row is written and read.
ReadRecovery(s) ==
  /\ scan[s].at = "entry" /\ scan[s].todo # {}
  /\ LET g == Delivery(s)
     IN /\ ~log[Entry(s)].ok /\ receipt[g] = "none" /\ ~recovery[g].resolved
        /\ recovery' = [recovery EXCEPT ![g].listed = TRUE]
        /\ \/ /\ recovery[g].attempts >= MaxRequests
              /\ exhausted' = exhausted \cup {g} /\ Done(s)
           \/ /\ recovery[g].attempts < MaxRequests /\ recovery[g].waits
              /\ UNCHANGED exhausted /\ Done(s)
           \/ /\ recovery[g].attempts < MaxRequests /\ ~recovery[g].waits
              /\ UNCHANGED exhausted
              /\ Scan(s, [scan[s] EXCEPT !.at = "claiming", !.attempts = recovery[g].attempts])
  /\ UNCHANGED <<log, flight, stored, cursor, asked, stops>>

\* Mutant: the claim does not test that the row is the one that the pass read.
ClaimableUnread(s) == TRUE

Claimable(s) ==
  /\ recovery[Delivery(s)].attempts = scan[s].attempts
  /\ ~recovery[Delivery(s)].waits

\* The request is charged before it is made.
Charge(s) ==
  /\ scan[s].at = "claiming"
  /\ IF Claimable(s)
       THEN /\ recovery' = [recovery EXCEPT ![Delivery(s)] =
                 [listed |-> TRUE, attempts |-> @.attempts + 1, waits |-> TRUE,
                  resolved |-> FALSE]]
            /\ ScanTo(s, "asking")
       ELSE Done(s) /\ UNCHANGED recovery
  /\ UNCHANGED <<log, flight, stored, exhausted, cursor, asked, stops>>

\* GitHub gets the request or not, and the pass its answer or not.
Ask(s) ==
  /\ scan[s].at = "asking"
  /\ LET g == Delivery(s)
     IN \E arrives \in BOOLEAN, answered \in BOOLEAN :
          /\ answered => arrives
          /\ flight' = [flight EXCEPT ![g] = IF arrives THEN @ + 1 ELSE @]
          /\ asked' = [asked EXCEPT ![g] = IF arrives THEN @ + 1 ELSE @]
          /\ exhausted' = IF ~answered /\ scan[s].attempts + 1 >= MaxRequests
                            THEN exhausted \cup {g} ELSE exhausted
  /\ Done(s)
  /\ UNCHANGED <<log, stored, recovery, cursor, stops>>

(* The pass stops.                                                         *)
StopScan(s) ==
  /\ scan[s].at # "idle" /\ stops < MaxStops
  /\ stops' = stops + 1
  /\ Scan(s, IdleScan)
  /\ UNCHANGED <<log, flight, stored, rows, asked>>

WaitEnds(g) ==
  /\ recovery[g].waits
  /\ recovery' = [recovery EXCEPT ![g].waits = FALSE]
  /\ UNCHANGED <<log, flight, stored, exhausted, cursor, asked, stops, scan>>

ScanStep(s) ==
  \/ ReadNewest(s) \/ ReadOlder(s) \/ StoreCursor(s) \/ EndScan(s)
  \/ SettleArrived(s) \/ SkipResolved(s) \/ ReadRecovery(s) \/ Charge(s) \/ Ask(s)

DNext ==
  \/ \E g \in Guids : Attempt(g) \/ ProcessAtOnce(g) \/ WaitEnds(g)
  \/ ReadStored \/ Reprocess \/ ReprocessFails
  \/ \E s \in Scanners : ScanStep(s) \/ StopScan(s)

DSpec == DInit /\ [][DNext]_deliveryVars

(* GitHub makes its attempts, waits end, some pass goes on, and the        *)
(* processing of a delivery that can be processed does not fail for ever.  *)
(* Nothing is assumed of attempts and requests.                            *)
DFairness ==
  /\ \A g \in Guids : WF_deliveryVars(Attempt(g) \/ WaitEnds(g))
  /\ \A g \in Guids \ Poison : SF_deliveryVars(Reprocess /\ Head(batch) = g)
  /\ WF_deliveryVars(ReadStored \/ ReprocessFails)
  /\ WF_deliveryVars(\E s \in Scanners : ScanStep(s))

FairDSpec == DSpec /\ DFairness

-----------------------------------------------------------------------------
Places == {"idle", "older", "storing", "entry", "claiming", "asking"}

(* Every variable has the type its column, entry or local has.             *)
DTypeOK ==
  /\ \A id \in 1..Len(log) : log[id] \in [guid : Guids, ok : BOOLEAN]
  /\ flight \in [Guids -> 0..MaxRequests + 1]
  /\ receipt \in [Guids -> {"none", "stored", "processed"}]
  /\ ToSet(fresh \o tried) = { g \in Guids : receipt[g] = "stored" }
  /\ \A g \in Guids : recovery[g] \in
       [listed : BOOLEAN, attempts : 0..MaxRequests, waits : BOOLEAN, resolved : BOOLEAN]
  /\ exhausted \subseteq Guids /\ cursor \in 0..Len(log)
  /\ \A s \in Scanners : scan[s].at \in Places /\ scan[s].todo \subseteq 1..Len(log)

(* "GitHub can send a delivery again": each one is asked for a bounded     *)
(* number of times, whatever passes overlap and whatever answers are lost. *)
AskedInBounds == \A g \in Guids : asked[g] <= MaxRequests

(* A delivery that can be processed is processed in the end, or an alert   *)
(* says that it can not be had.                                            *)
DeliverySettles ==
  \A g \in Guids \ Poison : <>[](receipt[g] = "processed" \/ g \in exhausted)

=============================================================================
