---------------------------- MODULE CheckCreation ----------------------------
(***************************************************************************)
(* The first check of a run that has no check from before it existed.      *)
(*                                                                         *)
(* Each pass of deliverGitHubStatuses starts with createChecks.  It makes  *)
(* a row for the run, claims it with a token, looks for the check, marks   *)
(* the row with its token and sends one POST.  A row whose POST started    *)
(* and has no answer is ambiguous: later passes only look for the check.   *)
(*                                                                         *)
(* The lease may end at any time, also under a running pass, and a POST    *)
(* may create its check at any time after its mark.                        *)
(***************************************************************************)
EXTENDS Integers, FiniteSets

CONSTANTS
  Creators,           \* concurrent passes
  MaxClaims           \* the maxAttempts of a creation

ASSUME CheckCreationAssumption == MaxClaims \in Nat \ {0}

VARIABLES
  eligible,   \* statusRunEligibleSql: the run still has a status
  creation,   \* its row of operations_check_creations
  appChecks,  \* GitHub: the checks with the external identity of the run
  sends,      \* POST requests that can still create a check
  sent,       \* ghost: POST requests so far; their checks are 1..sent
  creator,    \* per pass: its place and locals
  trouble     \* requests may fail and passes may stop

creationVars == <<eligible, creation, appChecks, sends, sent, creator, trouble>>

NoCreation == [state |-> "none", started |-> FALSE, attempts |-> 0, token |-> 0,
               live |-> FALSE, check |-> 0]
CreatorIdle == [at |-> "idle", token |-> 0, found |-> 0]
CreatorPlaces == {"idle", "listing", "find", "adopt", "claim", "search", "mark", "waiting",
           "complete", "failed"}
CreationStates == {"none", "pending", "creating", "ambiguous", "complete", "dead"}

CGoto(p, me) == creator' = [creator EXCEPT ![p] = me]
Leave(p) == CGoto(p, CreatorIdle)

CInit ==
  /\ eligible = TRUE /\ creation = NoCreation
  /\ appChecks = {} /\ sends = {} /\ sent = 0
  /\ creator = [p \in Creators |-> CreatorIdle] /\ trouble = TRUE

\* Mutant: a row that lost its claim forgets that its POST started.
GivenUpUnmarked(c) ==
  [c EXCEPT !.state = IF c.attempts >= MaxClaims THEN "dead" ELSE "pending",
            !.token = 0, !.live = FALSE]

\* The row of a claim that failed or ended.
GivenUp(c) ==
  [c EXCEPT !.state = IF c.started THEN "ambiguous"
                      ELSE IF c.attempts >= MaxClaims THEN "dead" ELSE "pending",
            !.token = 0, !.live = FALSE]

Completed(c, check) ==
  [c EXCEPT !.state = "complete", !.check = check, !.token = 0, !.live = FALSE]

-----------------------------------------------------------------------------
(* The first statements of createChecks: a row, and the claims that ended. *)
Prepare(p) ==
  /\ creator[p].at = "idle" /\ eligible
  /\ creation' =
       IF creation.state = "none" THEN [NoCreation EXCEPT !.state = "pending"]
       ELSE IF creation.state = "creating" /\ ~creation.live THEN GivenUp(creation)
       ELSE creation
  /\ CGoto(p, [CreatorIdle EXCEPT !.at = "listing"])
  /\ UNCHANGED <<eligible, appChecks, sends, sent, trouble>>

(* The lists of candidates and of attention.                               *)
ListCreation(p) ==
  /\ creator[p].at = "listing"
  /\ \/ /\ eligible /\ creation.state = "pending"
        /\ CGoto(p, [creator[p] EXCEPT !.at = "claim"])
     \/ /\ eligible /\ creation.state = "ambiguous"
        /\ CGoto(p, [creator[p] EXCEPT !.at = "find"])
     \/ /\ ~eligible \/ creation.state \notin {"pending", "ambiguous"}
        /\ Leave(p)
  /\ UNCHANGED <<eligible, creation, appChecks, sends, sent, trouble>>

(* findGitHubCheck of an ambiguous row; absence proves nothing.            *)
FindCreated(p) ==
  /\ creator[p].at = "find"
  /\ \/ \E check \in appChecks :
          appChecks = {check} /\ CGoto(p, [creator[p] EXCEPT !.at = "adopt", !.found = check])
     \/ Cardinality(appChecks) # 1 /\ Leave(p)
  /\ UNCHANGED <<eligible, creation, appChecks, sends, sent, trouble>>

AdoptCreated(p) ==
  /\ creator[p].at = "adopt"
  /\ creation' = IF creation.state = "ambiguous" THEN Completed(creation, creator[p].found)
                 ELSE creation
  /\ Leave(p)
  /\ UNCHANGED <<eligible, appChecks, sends, sent, trouble>>

(* The claim; its count stands for its token.                              *)
ClaimCreation(p) ==
  /\ creator[p].at = "claim"
  /\ IF creation.state = "pending" /\ creation.attempts < MaxClaims
       THEN /\ creation' = [creation EXCEPT !.state = "creating", !.live = TRUE,
                                            !.attempts = @ + 1, !.token = creation.attempts + 1]
            /\ CGoto(p, [creator[p] EXCEPT !.at = "search", !.token = creation.attempts + 1])
       ELSE Leave(p) /\ UNCHANGED creation
  /\ UNCHANGED <<eligible, appChecks, sends, sent, trouble>>

-----------------------------------------------------------------------------
(* ensureGitHubCheck under the claim.                                      *)

\* Two checks with one identity are an error.
SearchCheck(p) ==
  /\ creator[p].at = "search"
  /\ CGoto(p, [creator[p] EXCEPT
       !.at = CASE Cardinality(appChecks) = 0 -> "mark"
                [] Cardinality(appChecks) = 1 -> "complete"
                [] OTHER -> "failed",
       !.found = IF Cardinality(appChecks) = 1 THEN CHOOSE c \in appChecks : TRUE ELSE 0])
  /\ UNCHANGED <<eligible, creation, appChecks, sends, sent, trouble>>

\* Mutant: the mark tests no claim.
HoldsAny(p) == creation.state # "none"

Holds(p) == creation.state = "creating" /\ creation.token = creator[p].token

(* request_started is set under a live claim, and the POST starts.         *)
MarkAndSendPost(p) ==
  /\ creator[p].at = "mark"
  /\ IF Holds(p) /\ creation.live /\ eligible
       THEN /\ creation' = [creation EXCEPT !.started = TRUE]
            /\ sent' = sent + 1 /\ sends' = sends \cup {sent'}
            /\ CGoto(p, [creator[p] EXCEPT !.at = "waiting", !.found = sent'])
       ELSE /\ CGoto(p, [creator[p] EXCEPT !.at = "failed"])
            /\ UNCHANGED <<creation, sent, sends>>
  /\ UNCHANGED <<eligible, appChecks, trouble>>

PostAnswered(p) ==
  /\ creator[p].at = "waiting" /\ creator[p].found \in appChecks
  /\ CGoto(p, [creator[p] EXCEPT !.at = "complete"])
  /\ UNCHANGED <<eligible, creation, appChecks, sends, sent, trouble>>

\* The POST of a pass did not reach GitHub.
PostGone(p) ==
  creator[p].at = "waiting" /\ creator[p].found \notin appChecks \cup sends

\* A request fails or is not answered; its check can still come.
RequestFails(p) ==
  /\ trouble \/ PostGone(p)
  /\ creator[p].at \in {"search", "waiting"}
  /\ CGoto(p, [creator[p] EXCEPT !.at = "failed"])
  /\ UNCHANGED <<eligible, creation, appChecks, sends, sent, trouble>>

HasToken(p) == creation.token = creator[p].token

StoreCheck(p) ==
  /\ creator[p].at = "complete"
  /\ creation' = IF HasToken(p) THEN Completed(creation, creator[p].found) ELSE creation
  /\ Leave(p)
  /\ UNCHANGED <<eligible, appChecks, sends, sent, trouble>>

StoreFailure(p) ==
  /\ creator[p].at = "failed"
  /\ creation' = IF HasToken(p) THEN GivenUp(creation) ELSE creation
  /\ Leave(p)
  /\ UNCHANGED <<eligible, appChecks, sends, sent, trouble>>

StopCreator(p) ==
  /\ trouble /\ creator[p].at # "idle"
  /\ Leave(p)
  /\ UNCHANGED <<eligible, creation, appChecks, sends, sent, trouble>>

-----------------------------------------------------------------------------
(* Time, the network, and the end of the run.                              *)
CreationLeaseEnds ==
  /\ creation.live
  /\ creation' = [creation EXCEPT !.live = FALSE]
  /\ UNCHANGED <<eligible, appChecks, sends, sent, creator, trouble>>

PostCreates(check) ==
  /\ appChecks' = appChecks \cup {check} /\ sends' = sends \ {check}
  /\ UNCHANGED <<eligible, creation, sent, creator, trouble>>

PostIsLost(check) ==
  /\ sends' = sends \ {check}
  /\ UNCHANGED <<eligible, creation, appChecks, sent, creator, trouble>>

(* GitHub and the Workers are well from here on.                           *)
TroubleEnds ==
  /\ trouble /\ trouble' = FALSE
  /\ UNCHANGED <<eligible, creation, appChecks, sends, sent, creator>>

RunEnds ==
  /\ eligible /\ eligible' = FALSE
  /\ UNCHANGED <<creation, appChecks, sends, sent, creator, trouble>>

CreatorStep(p) ==
  \/ Prepare(p) \/ ListCreation(p) \/ FindCreated(p) \/ AdoptCreated(p)
  \/ ClaimCreation(p) \/ SearchCheck(p) \/ MarkAndSendPost(p) \/ PostAnswered(p)
  \/ RequestFails(p) \/ StoreCheck(p) \/ StoreFailure(p)

CNext ==
  \/ \E p \in Creators : CreatorStep(p) \/ StopCreator(p)
  \/ \E check \in sends : PostCreates(check) \/ PostIsLost(check)
  \/ CreationLeaseEnds \/ RunEnds \/ TroubleEnds

CSpec == CInit /\ [][CNext]_creationVars

(* Passes come every five minutes, leases end, and so does the trouble of  *)
(* GitHub or of the Worker.                                                *)
CFairness ==
  /\ WF_creationVars(CreationLeaseEnds) /\ WF_creationVars(TroubleEnds)
  /\ \A p \in Creators : WF_creationVars(CreatorStep(p))

-----------------------------------------------------------------------------
CreationRows ==
  [state : CreationStates, started : BOOLEAN, attempts : 0..MaxClaims,
   token : 0..MaxClaims, live : BOOLEAN, check : 0..sent]

CreatorRows == [at : CreatorPlaces, token : 0..MaxClaims, found : 0..sent]

(* Every variable has the type its column, request or local has.           *)
CTypeOK ==
  /\ eligible \in BOOLEAN /\ trouble \in BOOLEAN /\ sent \in Nat
  /\ creation \in CreationRows
  /\ appChecks \subseteq 1..sent /\ sends \subseteq 1..sent
  /\ creator \in [Creators -> CreatorRows]

(* A run gets one check, and a complete row names it: the POST is never    *)
(* made again once it was marked, whichever lease ended under it.          *)
OneCheckOfRun ==
  /\ sent <= 1
  /\ creation.state = "complete" => appChecks = {creation.check}

(* "Each run has one check" (docs/review-guide.md:7): no pass, late or     *)
(* not, asks GitHub again, and the row names that check for good.          *)
RunCheck == INSTANCE CheckIdentity
  WITH requests <- sent, made <- appChecks,
       named <- IF creation.state = "complete" THEN {creation.check} ELSE {}

RunKeepsOneCheck == RunCheck!Spec

(* A check that was created is found, though its POST had no answer.       *)
CreatedIsComplete == appChecks # {} ~> creation.state = "complete" \/ ~eligible
=============================================================================
