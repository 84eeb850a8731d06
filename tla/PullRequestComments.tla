------------------------ MODULE PullRequestComments ------------------------
(***************************************************************************)
(* The one comment that the service keeps on a pull request.               *)
(*                                                                         *)
(* A pass of deliverPullRequestComments lists the pull requests whose      *)
(* comment does not show the newest delivered status, claims the row of    *)
(* each in turn, and edits the comment, or finds it, or creates it.  The   *)
(* statuses of the newest open run are numbered in their order; Changes    *)
(* are those with a reviewed change, without which no comment is made.     *)
(*                                                                         *)
(* The lease of twelve minutes outlasts a call: a search reads at most     *)
(* twenty pages, and each request stops after fifteen seconds.  So a lease *)
(* ends only under a pass that stopped, and a request has changed GitHub,  *)
(* or never will, when its sender goes on.                                 *)
(***************************************************************************)
EXTENDS Integers, FiniteSets

CONSTANTS
  Senders,     \* concurrent passes
  MaxStatus,   \* bound: statuses of the run
  Changes,     \* the statuses with a change
  MaxFaults    \* bound: requests without an answer, and passes that stop

ASSUME CommentsAssumption ==
  MaxStatus \in Nat /\ MaxFaults \in Nat /\ Changes \subseteq 1..MaxStatus

VARIABLES
  delivered,  \* the newest status that the check shows
  open,       \* the pull request has an open run
  comment,    \* its row of operations_pull_request_comments
  posted,     \* GitHub: the comments that the App made, 1..posted
  shows,      \* GitHub: per comment, the status in its body, 0 if it was deleted
  sender,     \* per pass: its place and locals
  faults      \* ghost: faults so far

commentVars == <<delivered, open, comment, posted, shows, sender, faults>>
onGitHub == <<posted, shows>>

NoComment == [id |-> 0, deleted |-> FALSE, status |-> 0, leased |-> FALSE, holder |-> "none"]
SenderIdle == [at |-> "idle", status |-> 0, id |-> 0, gone |-> FALSE]
Claimed(p) == sender[p].at \notin {"idle", "listed"}

SGoto(p, me) == sender' = [sender EXCEPT ![p] = me]
STo(p, place) == SGoto(p, [sender[p] EXCEPT !.at = place])

SInit ==
  /\ delivered = 0 /\ open = TRUE /\ comment = NoComment
  /\ posted = 0 /\ shows = [c \in {} |-> 0]
  /\ sender = [p \in Senders |-> SenderIdle] /\ faults = 0

Fault == faults < MaxFaults /\ faults' = faults + 1

-----------------------------------------------------------------------------
(* The check gets a status, the pull request closes, a person deletes.     *)
Deliver ==
  /\ open /\ delivered < MaxStatus
  /\ delivered' = delivered + 1
  /\ UNCHANGED <<open, comment, onGitHub, sender, faults>>

ClosePull ==
  /\ open /\ open' = FALSE
  /\ UNCHANGED <<delivered, comment, onGitHub, sender, faults>>

DeleteComment(c) ==
  /\ shows[c] # 0
  /\ shows' = [shows EXCEPT ![c] = 0]
  /\ UNCHANGED <<delivered, open, comment, posted, sender, faults>>

-----------------------------------------------------------------------------
(* A pass.                                                                 *)

\* Mutant: a new status of a comment that exists is no reason to send.
CandidateNew ==
  /\ open /\ delivered # 0 /\ ~comment.deleted /\ ~comment.leased
  /\ comment.id = 0 /\ delivered \in Changes

\* candidatesSql
Candidate ==
  /\ open /\ delivered # 0 /\ ~comment.deleted /\ ~comment.leased
  /\ comment.id # 0 \/ delivered \in Changes
  /\ comment.status # delivered

ListCandidate(p) ==
  /\ sender[p].at = "idle" /\ Candidate
  /\ SGoto(p, [SenderIdle EXCEPT !.at = "listed", !.status = delivered])
  /\ UNCHANGED <<delivered, open, comment, onGitHub, faults>>

\* Mutant: the claim does not test the lease.
ClaimableLeased == ~comment.deleted

ClaimableComment == ~comment.deleted /\ ~comment.leased

(* The claim tests the lease, not the status that the pass listed.         *)
ClaimComment(p) ==
  /\ sender[p].at = "listed"
  /\ IF ClaimableComment
       THEN /\ comment' = [comment EXCEPT !.leased = TRUE, !.holder = p]
            /\ SGoto(p, [sender[p] EXCEPT !.at = IF comment.id = 0 THEN "finding" ELSE "editing",
                                          !.id = comment.id])
       ELSE SGoto(p, SenderIdle) /\ UNCHANGED comment
  /\ UNCHANGED <<delivered, open, onGitHub, faults>>

Marked == { c \in 1..posted : shows[c] # 0 }

(* findPullRequestComment: the oldest marked comment.                      *)
FindComment(p) ==
  /\ sender[p].at = "finding"
  /\ \/ /\ Marked = {} /\ STo(p, "posting")
     \/ \E c \in Marked :
          /\ \A other \in Marked : c <= other
          /\ SGoto(p, [sender[p] EXCEPT !.at = "editing", !.id = c])
  /\ UNCHANGED <<delivered, open, comment, onGitHub, faults>>

\* A write that changed GitHub is answered, or its answer is lost.
Answer(p, me) ==
  \/ SGoto(p, [me EXCEPT !.at = "storing"]) /\ UNCHANGED faults
  \/ SGoto(p, [me EXCEPT !.at = "failing"]) /\ Fault

\* A status of 404 says that a person deleted the comment.
EditComment(p) ==
  /\ sender[p].at = "editing"
  /\ LET c == sender[p].id
     IN IF shows[c] = 0
          THEN /\ SGoto(p, [sender[p] EXCEPT !.at = "storing", !.gone = TRUE])
               /\ UNCHANGED <<shows, faults>>
          ELSE /\ shows' = [shows EXCEPT ![c] = sender[p].status]
               /\ Answer(p, sender[p])
  /\ UNCHANGED <<delivered, open, comment, posted>>

PostComment(p) ==
  /\ sender[p].at = "posting"
  /\ posted' = posted + 1
  /\ shows' = [c \in 1..posted' |-> IF c = posted' THEN sender[p].status ELSE shows[c]]
  /\ Answer(p, [sender[p] EXCEPT !.id = posted'])
  /\ UNCHANGED <<delivered, open, comment>>

CommentRequestFails(p) ==
  /\ sender[p].at \in {"finding", "editing", "posting"}
  /\ Fault /\ STo(p, "failing")
  /\ UNCHANGED <<delivered, open, comment, onGitHub>>

Free(row) == [row EXCEPT !.leased = FALSE, !.holder = "none"]

(* The row names the comment and the status that it shows.                 *)
StoreComment(p) ==
  /\ sender[p].at = "storing"
  /\ comment' = IF comment.holder # p THEN comment
                ELSE Free([comment EXCEPT
                       !.id = IF sender[p].gone THEN @ ELSE sender[p].id,
                       !.deleted = sender[p].gone, !.status = sender[p].status])
  /\ SGoto(p, SenderIdle)
  /\ UNCHANGED <<delivered, open, onGitHub, faults>>

FailComment(p) ==
  /\ sender[p].at = "failing"
  /\ comment' = IF comment.holder # p THEN comment ELSE Free(comment)
  /\ SGoto(p, SenderIdle)
  /\ UNCHANGED <<delivered, open, onGitHub, faults>>

(* A stop after an edit is a stop at "storing".                            *)
StopSender(p) ==
  /\ sender[p].at # "idle" /\ Fault
  /\ SGoto(p, SenderIdle)
  /\ UNCHANGED <<delivered, open, comment, onGitHub>>

CommentLeaseEnds ==
  /\ comment.leased /\ \A p \in Senders : comment.holder = p => ~Claimed(p)
  /\ comment' = Free(comment)
  /\ UNCHANGED <<delivered, open, onGitHub, sender, faults>>

SenderStep(p) ==
  \/ ListCandidate(p) \/ ClaimComment(p) \/ FindComment(p) \/ EditComment(p)
  \/ PostComment(p) \/ StoreComment(p) \/ FailComment(p)

SNext ==
  \/ Deliver \/ ClosePull \/ CommentLeaseEnds
  \/ \E c \in DOMAIN shows : DeleteComment(c)
  \/ \E p \in Senders : SenderStep(p) \/ CommentRequestFails(p) \/ StopSender(p)

SSpec == SInit /\ [][SNext]_commentVars

(* Passes come every five minutes and leases end.                          *)
SFairness ==
  WF_commentVars(CommentLeaseEnds) /\ \A p \in Senders : WF_commentVars(SenderStep(p))

-----------------------------------------------------------------------------
(* Every variable has the type its column, comment or local has.           *)
STypeOK ==
  /\ delivered \in 0..MaxStatus /\ open \in BOOLEAN
  /\ comment \in [id : 0..posted, deleted : BOOLEAN, status : 0..MaxStatus,
                   leased : BOOLEAN, holder : Senders \cup {"none"}]
  /\ shows \in [1..posted -> 0..MaxStatus] /\ faults \in 0..MaxFaults
  /\ \A p \in Senders : sender[p].status \in 0..MaxStatus /\ sender[p].id \in 0..posted

(* "The service keeps one comment on each pull request whose run has a     *)
(* change": passes that overlap, stop or lose the answer of a POST never   *)
(* leave two of them.                                                      *)
OneComment == Cardinality(Marked) <= 1

\* A person who deletes the comment does not want another one.
ShowsNewest ==
  \/ \E c \in Marked : shows[c] = delivered
  \/ Marked = {} /\ delivered \notin Changes
  \/ ~open \/ Marked # 1..posted

(* Without a lost answer or a stop, the comment ends on the newest status, *)
(* although a pass may send a status that it listed before another pass    *)
(* sent a newer one.                                                       *)
NewestWithoutFault == <>[](faults > 0 \/ ShowsNewest)

(* "Each newer status of the check edits the same comment."                *)
NewestIsShown == <>[]ShowsNewest
=============================================================================
