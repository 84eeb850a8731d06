------------------------- MODULE PreRunCheckCreation -------------------------
(***************************************************************************)
(* The creation of the GitHub check of a candidate, before its run exists. *)
(*                                                                         *)
(* The signed requests of a workflow attempt (ensureSignedAttemptCheck)    *)
(* and the deliveries that bind an attempt (bindWorkflowCheck) may call    *)
(* ensureStoredCheck for the same row of pre_run_checks, at once and       *)
(* again; nothing in the service calls it by the clock.  A call claims     *)
(* the row for two minutes, looks for the check on GitHub, marks the row   *)
(* and sends one POST; a POST without an answer makes the row ambiguous,   *)
(* and a later call, if one comes, adopts the check that it finds.  The    *)
(* claim stores no token: a statement knows only the state of the row.     *)
(*                                                                         *)
(* The states docs_complete and failed, which end the row from other       *)
(* handlers, are left out.                                                 *)
(*                                                                         *)
(* Times are ticks, relative to now; a lease is cut off at 0.              *)
(***************************************************************************)
EXTENDS Integers, FiniteSets

CONSTANTS
  Workers,   \* concurrent calls of ensureStoredCheck
  Lease,     \* the 120 seconds of a claim
  CallTime,  \* a call reaches its mark, or ends, within this time
  PostTime,  \* a POST creates the check within this time of its mark
  MaxPosts   \* bound: POST requests

ASSUME CreationAssumption ==
  /\ Lease \in Nat \ {0} /\ CallTime \in Nat /\ PostTime \in Nat /\ MaxPosts \in Nat

VARIABLES
  state,           \* the row: pending, creating, ambiguous or active
  requestStarted,  \* request_started
  leaseLeft,       \* lease_until - now while the row is creating
  checkId,         \* check_id, 0 for NULL
  checks,          \* GitHub: the checks with this external identity
  posts,           \* POST requests that can still create a check
  started,         \* ghost: POST requests so far; their checks are 1..started
  worker,          \* per call: its place and locals
  current,         \* stillCurrent: the row is that of the current candidate
  outage           \* requests may fail and Workers may stop

row == <<state, requestStarted, leaseLeft, checkId>>
world == <<current, outage>>
vars == <<row, checks, posts, started, worker, world>>

States == {"pending", "creating", "ambiguous", "active"}
Before == {"read", "reread", "decide", "looking", "adopting", "adopted", "claiming",
           "searching", "marking"}
After == {"posting", "storing", "stored", "verifying", "activating", "failing"}
Locals == [at : {"idle"} \cup Before \cup After, state : States, lease : 0..Lease,
           check : 0..MaxPosts, found : 0..MaxPosts, age : 0..CallTime, inTry : BOOLEAN]
Idle == [at |-> "idle", state |-> "pending", lease |-> 0, check |-> 0, found |-> 0,
         age |-> 0, inTry |-> FALSE]

Become(w, me) == worker' = [worker EXCEPT ![w] = me]
Goto(w, place) == Become(w, [worker[w] EXCEPT !.at = place])
GoIdle(w) == Become(w, Idle)
\* An error inside the try block reaches the catch, one before it ends the call.
Throw(w) == IF worker[w].inTry THEN Goto(w, "failing") ELSE GoIdle(w)

\* A row that storedCheck or storedExternalId returned.
Read(me, place) ==
  [me EXCEPT !.at = place, !.state = state, !.check = checkId, !.lease = leaseLeft]

\* Mutant: the lease counts the age of the call twice.
LeaseFromLate(me) == Lease + me.age

LeaseFrom(me) == IF me.age < Lease THEN Lease - me.age ELSE 0
\* Mutant: an undone claim forgets that its POST started.
UnclaimedUnmarked == "pending"

Unclaimed == IF requestStarted THEN "ambiguous" ELSE "pending"

Init ==
  /\ state = "pending" /\ requestStarted = FALSE /\ leaseLeft = 0 /\ checkId = 0
  /\ checks = {} /\ posts = {} /\ started = 0
  /\ worker = [w \in Workers |-> Idle] /\ current = TRUE /\ outage = TRUE

-----------------------------------------------------------------------------
(* A call begins with the row that its caller read.  A call for a row that *)
(* is active returns at once.                                              *)
ReadRow(w) ==
  /\ worker[w].at = "idle" /\ state # "active"
  /\ Become(w, Read(Idle, "read"))
  /\ UNCHANGED <<row, checks, posts, started, world>>

\* Mutant: the claim of a stopped call is never undone.
BeginKeepsClaim(w) ==
  /\ worker[w].at = "read"
  /\ Become(w, [worker[w] EXCEPT !.at = "decide", !.age = 0])
  /\ UNCHANGED <<row, checks, posts, started, world>>

(* now = Date.now(): an expired claim is undone first.                     *)
Begin(w) ==
  /\ worker[w].at = "read"
  /\ LET me == worker[w]
         expired == me.state = "creating" /\ me.lease <= me.age
     IN /\ Become(w, [me EXCEPT !.at = IF expired THEN "reread" ELSE "decide", !.age = 0])
        /\ IF expired /\ state = "creating" /\ leaseLeft = 0
             THEN state' = Unclaimed
             ELSE UNCHANGED state
  /\ UNCHANGED <<requestStarted, leaseLeft, checkId, checks, posts, started, world>>

Reread(w) ==
  /\ worker[w].at = "reread"
  /\ Become(w, Read(worker[w], "decide"))
  /\ UNCHANGED <<row, checks, posts, started, world>>

\* What a call does with a row that is not, or no longer, ambiguous.
Proceed(w, me) ==
  IF me.state = "creating"
    THEN IF me.lease > 0 /\ me.check # 0
           THEN Become(w, [me EXCEPT !.at = "verifying"])
           ELSE GoIdle(w)
    ELSE Become(w, [me EXCEPT !.at = "claiming"])

Decide(w) ==
  /\ worker[w].at = "decide"
  /\ IF worker[w].state = "ambiguous" THEN Goto(w, "looking") ELSE Proceed(w, worker[w])
  /\ UNCHANGED <<row, checks, posts, started, world>>

(* findGitHubCheck of an ambiguous row: absence proves nothing, and two    *)
(* checks of one identity are an error.                                    *)
Look(w) ==
  /\ worker[w].at = "looking"
  /\ IF Cardinality(checks) = 1
       THEN \E check \in checks :
              Become(w, [worker[w] EXCEPT !.at = "adopting", !.found = check])
       ELSE GoIdle(w)
  /\ UNCHANGED <<row, checks, posts, started, world>>

Adopt(w) ==
  /\ worker[w].at = "adopting"
  /\ IF state = "ambiguous"
       THEN /\ state' = "creating" /\ checkId' = worker[w].found
            /\ leaseLeft' = LeaseFrom(worker[w])
       ELSE UNCHANGED <<state, checkId, leaseLeft>>
  /\ Goto(w, "adopted")
  /\ UNCHANGED <<requestStarted, checks, posts, started, world>>

Adopted(w) ==
  /\ worker[w].at = "adopted"
  /\ Proceed(w, Read(worker[w], "adopted"))
  /\ UNCHANGED <<row, checks, posts, started, world>>

Claim(w) ==
  /\ worker[w].at = "claiming"
  /\ IF state = "pending"
       THEN /\ state' = "creating" /\ leaseLeft' = LeaseFrom(worker[w])
            /\ Become(w, [worker[w] EXCEPT !.at = "searching", !.inTry = TRUE])
       ELSE GoIdle(w) /\ UNCHANGED <<state, leaseLeft>>
  /\ UNCHANGED <<requestStarted, checkId, checks, posts, started, world>>

-----------------------------------------------------------------------------
(* The try block of the claim.                                             *)

Search(w) ==
  /\ worker[w].at = "searching"
  /\ \/ Cardinality(checks) = 0 /\ Goto(w, "marking")
     \/ /\ Cardinality(checks) = 1
        /\ \E check \in checks :
             Become(w, [worker[w] EXCEPT !.at = "storing", !.found = check, !.age = 0])
     \/ Cardinality(checks) > 1 /\ Throw(w)
  /\ UNCHANGED <<row, checks, posts, started, world>>

(* The mark tests that some claim is live, and the POST starts.            *)
MarkAndPost(w) ==
  /\ worker[w].at = "marking"
  /\ IF state = "creating" /\ leaseLeft > 0
       THEN /\ started < MaxPosts
            /\ requestStarted' = TRUE
            /\ started' = started + 1
            /\ posts' = posts \cup {[check |-> started', left |-> PostTime]}
            /\ Become(w, [worker[w] EXCEPT !.at = "posting", !.found = started', !.age = 0])
       ELSE GoIdle(w) /\ UNCHANGED <<requestStarted, started, posts>>
  /\ UNCHANGED <<state, leaseLeft, checkId, checks, world>>

Answered(w) ==
  /\ worker[w].at = "posting" /\ worker[w].found \in checks
  /\ Goto(w, "storing")
  /\ UNCHANGED <<row, checks, posts, started, world>>

Store(w) ==
  /\ worker[w].at = "storing"
  /\ checkId' = IF state = "creating" THEN worker[w].found ELSE checkId
  /\ Goto(w, "stored")
  /\ UNCHANGED <<state, requestStarted, leaseLeft, checks, posts, started, world>>

Stored(w) ==
  /\ worker[w].at = "stored"
  /\ IF state = "creating" THEN Become(w, Read(worker[w], "verifying")) ELSE GoIdle(w)
  /\ UNCHANGED <<row, checks, posts, started, world>>

(* finishCreation: the check is read, and the candidate must be current.   *)
Verify(w) ==
  /\ worker[w].at = "verifying"
  /\ \/ worker[w].check \in checks /\ current /\ Goto(w, "activating")
     \/ ~(worker[w].check \in checks /\ current) /\ Throw(w)
  /\ UNCHANGED <<row, checks, posts, started, world>>

Activate(w) ==
  /\ worker[w].at = "activating"
  /\ state' = IF state = "creating" /\ checkId = worker[w].check THEN "active" ELSE state
  /\ leaseLeft' = IF state' = "active" THEN 0 ELSE leaseLeft
  /\ GoIdle(w)
  /\ UNCHANGED <<requestStarted, checkId, checks, posts, started, world>>

\* The POST of a call did not reach GitHub.
Lost(w) ==
  /\ worker[w].at = "posting" /\ worker[w].found \notin checks
  /\ \A post \in posts : post.check # worker[w].found

(* A request without an answer.                                            *)
Fails(w) ==
  /\ outage \/ Lost(w)
  /\ worker[w].at \in {"looking", "searching", "posting", "verifying"}
  /\ Throw(w)
  /\ UNCHANGED <<row, checks, posts, started, world>>

Catch(w) ==
  /\ worker[w].at = "failing"
  /\ IF state = "creating"
       THEN state' = Unclaimed /\ leaseLeft' = 0
       ELSE UNCHANGED <<state, leaseLeft>>
  /\ GoIdle(w)
  /\ UNCHANGED <<requestStarted, checkId, checks, posts, started, world>>

(* The Worker stops; its POST can still be on the way.                     *)
Crash(w) ==
  /\ outage
  /\ worker[w].at # "idle"
  /\ GoIdle(w)
  /\ UNCHANGED <<row, checks, posts, started, world>>

-----------------------------------------------------------------------------
(* GitHub, the network and the clock.                                      *)

PostLands(post) ==
  /\ checks' = checks \cup {post.check}
  /\ posts' = posts \ {post}
  /\ UNCHANGED <<row, started, worker, world>>

PostLost(post) ==
  /\ posts' = posts \ {post}
  /\ UNCHANGED <<row, checks, started, worker, world>>

(* main or the pull request moves on, and does not come back.              *)
CandidateChanges ==
  /\ current /\ current' = FALSE
  /\ UNCHANGED <<row, checks, posts, started, worker, outage>>

(* GitHub and the Workers are well from here on.                           *)
OutageEnds ==
  /\ outage /\ outage' = FALSE
  /\ UNCHANGED <<row, checks, posts, started, worker, current>>

\* CallTime is for the way to the mark; once the outage is over, for a call.
Timed(w) ==
  /\ worker[w].at # "idle"
  /\ ~outage \/ worker[w].at \in Before \cup {"failing"}

Tick ==
  /\ \A post \in posts : post.left > 0
  /\ \A w \in Workers : Timed(w) => worker[w].age < CallTime
  /\ leaseLeft' = IF leaseLeft > 0 THEN leaseLeft - 1 ELSE 0
  /\ posts' = {[post EXCEPT !.left = @ - 1] : post \in posts}
  /\ worker' = [w \in Workers |->
       IF Timed(w) THEN [worker[w] EXCEPT !.age = @ + 1] ELSE worker[w]]
  /\ UNCHANGED <<state, requestStarted, checkId, checks, started, world>>

\* The next step of a call that began.
Call(w) ==
  \/ Begin(w) \/ Reread(w) \/ Decide(w) \/ Look(w) \/ Adopt(w)
  \/ Adopted(w) \/ Claim(w) \/ Search(w) \/ MarkAndPost(w) \/ Answered(w) \/ Store(w)
  \/ Stored(w) \/ Verify(w) \/ Activate(w) \/ Fails(w) \/ Catch(w)

Next ==
  \/ \E w \in Workers : ReadRow(w) \/ Call(w) \/ Crash(w)
  \/ \E post \in posts : PostLands(post) \/ PostLost(post)
  \/ Tick \/ CandidateChanges \/ OutageEnds

Spec == Init /\ [][Next]_vars

(* A call that began goes on, time passes, and an outage of GitHub or of   *)
(* the Worker ends.  Nothing makes a call begin.                           *)
Fairness ==
  WF_vars(OutageEnds) /\ SF_vars(Tick) /\ \A w \in Workers : WF_vars(Call(w))

FairSpec == Spec /\ Fairness

-----------------------------------------------------------------------------
(* Every variable has the type its column, request or local has.           *)
TypeOK ==
  /\ state \in States /\ requestStarted \in BOOLEAN /\ leaseLeft \in 0..Lease
  /\ checkId \in 0..MaxPosts /\ checks \subseteq 1..MaxPosts
  /\ posts \subseteq [check : 1..MaxPosts, left : 0..PostTime]
  /\ started \in 0..MaxPosts
  /\ worker \in [Workers -> Locals] /\ current \in BOOLEAN /\ outage \in BOOLEAN

(* pre-run-checks.ts:183: "A failed POST is ambiguous. Never make a second *)
(* POST after it has started."  And an active row names the only check     *)
(* with its identity: findPreRunCheck gives it to the run.                 *)
OneCheckOfCandidate == started <= 1 /\ (state = "active" => checks = {checkId})

(* The row and the checks of a candidate are those of one identity, and a  *)
(* row that is active keeps its check: what a run takes over               *)
(* (findPreRunCheck) can not be replaced by a call that comes late.        *)
CandidateCheck == INSTANCE CheckIdentity
  WITH requests <- started, made <- checks,
       named <- IF state = "active" THEN {checkId} ELSE {}

CandidateKeepsOneCheck == CandidateCheck!Spec

\* A call is at its start.
Called == \E w \in Workers : worker[w].at = "read"

(* A check that was created, though its POST had no answer, is adopted     *)
(* while the candidate is current, as long as calls come again: no claim   *)
(* of a call that stopped and no lost answer keeps them all out.  When the *)
(* calls end, or the candidate changes first, the row stays as it is.      *)
CreatedIsAdopted == []<>Called => (checks # {} ~> state = "active" \/ ~current)

=============================================================================
