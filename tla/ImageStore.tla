----------------------------- MODULE ImageStore -----------------------------
(***************************************************************************)
(* What the store of images promises to the runs and baselines that name   *)
(* images of each other.  A run takes what it needs only from images that  *)
(* are kept, and keeps its own from its admission on; once it gave these   *)
(* up it takes nothing more.  An accepted run offers its images to later   *)
(* ones until it does not need them itself, and then never again.  Images  *)
(* are marked for deletion when nobody needs or offers them, go page by    *)
(* page only then, and do not come back.  Pins, leases, passes and         *)
(* summaries are not here.                                                 *)
(***************************************************************************)
EXTENDS Naturals

CONSTANTS
  Runs,
  Pages  \* of images that a run stores

VARIABLES
  fate,   \* per run: what becomes of its images
  pages,  \* per run: those of its images that are stored
  needs,  \* per run: the runs whose images it needs
  offers  \* per run: those that it offers with its baseline

store == <<fate, pages, needs, offers>>

Kept(r) == fate[r] = "live"
GaveUp(r) == fate[r] # "none" /\ r \notin needs[r]
Wanted(r) == \E q \in Runs : r \in needs[q] \cup offers[q]
Only(r, after, before) == \A q \in Runs \ {r} : after[q] = before[q]

\* The project may begin with baselines.
Init ==
  \E first \in SUBSET Runs :
    /\ fate = [r \in Runs |-> IF r \in first THEN "live" ELSE "none"]
    /\ pages = [r \in Runs |-> IF r \in first THEN Pages ELSE 0]
    /\ needs = [r \in Runs |-> IF r \in first THEN {r} ELSE {}]
    /\ offers = needs

Store(r) ==
  /\ fate[r] = "none"
  /\ fate' = [fate EXCEPT ![r] = "live"] /\ pages' = [pages EXCEPT ![r] = Pages]
  /\ needs' = [needs EXCEPT ![r] = @ \cup {r}]
  /\ UNCHANGED offers

Take(r) ==
  /\ ~GaveUp(r) /\ Only(r, needs', needs)
  /\ needs[r] \subseteq needs'[r] /\ \A q \in needs'[r] : Kept(q)
  /\ UNCHANGED <<fate, pages, offers>>

GiveUp(r) ==
  /\ Only(r, needs', needs) /\ needs'[r] \subseteq needs[r]
  /\ UNCHANGED <<fate, pages, offers>>

\* The accepted run takes the place of another one, which needs less now.
Offer(r) ==
  /\ r \in needs[r] /\ Only(r, offers', offers)
  /\ r \in offers'[r] /\ offers'[r] \subseteq needs'[r]
  /\ \A q \in Runs : needs'[q] \subseteq needs[q]
  /\ UNCHANGED <<fate, pages>>

Withdraw(r) ==
  /\ r \notin needs[r] /\ offers' = [offers EXCEPT ![r] = {}]
  /\ UNCHANGED <<fate, pages, needs>>

Mark(r) ==
  /\ Kept(r) /\ ~Wanted(r)
  /\ fate' = [fate EXCEPT ![r] = "deleting"]
  /\ UNCHANGED <<pages, needs, offers>>

Erase(r) ==
  /\ fate[r] = "deleting" /\ pages[r] > 0
  /\ pages' = [pages EXCEPT ![r] = @ - 1]
  /\ UNCHANGED <<fate, needs, offers>>

Forget(r) ==
  /\ fate[r] = "deleting" /\ pages[r] = 0
  /\ fate' = [fate EXCEPT ![r] = "deleted"]
  /\ UNCHANGED <<pages, needs, offers>>

Next ==
  \E r \in Runs :
    \/ Store(r) \/ Take(r) \/ GiveUp(r) \/ Offer(r) \/ Withdraw(r)
    \/ Mark(r) \/ Erase(r) \/ Forget(r)

Spec == Init /\ [][Next]_store
=============================================================================
