-------------------------- MODULE ProtocolProofs --------------------------
(***************************************************************************)
(* The four components that speak with GitHub, for every number of passes, *)
(* calls and deliveries: the comment of a pull request, the check of a     *)
(* candidate, the deliveries that are asked for again, and the check of a  *)
(* run.  They share no state; each has its own invariant and its own       *)
(* theorems, and the last theorem is about them together.                  *)
(*                                                                         *)
(* All four turn on who holds a claim.  A pass with the claim of a comment *)
(* is the only one that can post it, and posts when none is marked.  A     *)
(* call with the claim of a candidate that is not marked holds it until    *)
(* its lease and its age together make a whole lease, so that it is the    *)
(* only one when it marks.  A request for a delivery is charged under a    *)
(* number that no other request has, so that the requests that were made   *)
(* and those on their way are never more than the charges.  The tokens of  *)
(* passes that hold the claim of the check of a run, or held it, are all   *)
(* different, because each claim counts; and its row leaves the states in  *)
(* which it can be claimed once its POST was marked, so that a pass on its *)
(* way to a mark works for an unmarked row or finds its token gone.        *)
(***************************************************************************)
EXTENDS Protocols, FiniteSetTheorems, SequenceTheorems, WellFoundedInduction, TLAPS

-----------------------------------------------------------------------------
(* The comment of a pull request.                                          *)
SenderPlaces == {"idle", "listed", "finding", "editing", "posting", "storing", "failing"}
SenderLocals == [at : SenderPlaces, status : 0..MaxStatus, id : Nat, gone : BOOLEAN]
CommentRows == [id : Nat, deleted : BOOLEAN, status : 0..MaxStatus, leased : BOOLEAN,
                holder : Senders \cup {"none"}]

CommentTypes ==
  /\ delivered \in 0..MaxStatus /\ open \in BOOLEAN /\ posted \in Nat
  /\ comment \in CommentRows /\ comment.id <= posted
  /\ shows \in [1..posted -> 0..MaxStatus] /\ faults \in 0..MaxFaults
  /\ sender \in [Senders -> SenderLocals]
  /\ \A p \in Senders : /\ sender[p].id <= posted
                        /\ sender[p].at = "editing" => sender[p].id # 0

\* One pass has the claim, and it posts only when no comment is marked.
CommentInv ==
  /\ CommentTypes
  /\ \A p \in Senders : Claimed(p) => comment.leased /\ comment.holder = p
  /\ \A p \in Senders : sender[p].at = "posting" => Marked = {}
  /\ \A c, d \in Marked : c = d

LEMMA SenderWritten ==
  ASSUME NEW me \in SenderLocals
  PROVE  /\ \A x \in SenderPlaces : LET u == [me EXCEPT !.at = x] IN
              u \in SenderLocals /\ u.at = x /\ u.id = me.id
         /\ \A x \in 0..MaxStatus : LET u == [me EXCEPT !.status = x] IN
              u \in SenderLocals /\ u.at = me.at /\ u.id = me.id
         /\ \A x \in Nat : LET u == [me EXCEPT !.id = x] IN
              u \in SenderLocals /\ u.at = me.at /\ u.id = x
         /\ \A x \in BOOLEAN : LET u == [me EXCEPT !.gone = x] IN
              u \in SenderLocals /\ u.at = me.at /\ u.id = me.id
  BY DEF SenderLocals

LEMMA RowWritten ==
  ASSUME NEW c \in CommentRows
  PROVE  /\ \A x \in Nat : LET u == [c EXCEPT !.id = x] IN
              u \in CommentRows /\ u.id = x /\ u.leased = c.leased /\ u.holder = c.holder
         /\ \A x \in BOOLEAN : LET u == [c EXCEPT !.deleted = x] IN
              u \in CommentRows /\ u.id = c.id /\ u.leased = c.leased /\ u.holder = c.holder
         /\ \A x \in 0..MaxStatus : LET u == [c EXCEPT !.status = x] IN
              u \in CommentRows /\ u.id = c.id /\ u.leased = c.leased /\ u.holder = c.holder
         /\ \A x \in BOOLEAN : LET u == [c EXCEPT !.leased = x] IN
              u \in CommentRows /\ u.id = c.id /\ u.leased = x /\ u.holder = c.holder
         /\ \A x \in Senders \cup {"none"} : LET u == [c EXCEPT !.holder = x] IN
              u \in CommentRows /\ u.id = c.id /\ u.leased = c.leased /\ u.holder = x
  BY DEF CommentRows

LEMMA FreedRow ==
  ASSUME NEW c \in CommentRows
  PROVE  Free(c) \in CommentRows /\ Free(c).id = c.id /\ ~Free(c).leased
<1> DEFINE u == [c EXCEPT !.leased = FALSE]
<1>1. u \in CommentRows /\ u.id = c.id /\ ~u.leased
  BY RowWritten
<1>2. Free(c) = [u EXCEPT !.holder = "none"]
  BY Zenon DEF Free
<1> HIDE DEF u
<1>3. "none" \in Senders \cup {"none"}
  OBVIOUS
<1> QED BY <1>1, <1>2, <1>3, RowWritten

\* A step of one pass that leaves GitHub alone.
LEMMA SenderGoes ==
  ASSUME CommentInv, NEW p \in Senders, NEW me \in SenderLocals, SGoto(p, me),
         UNCHANGED <<delivered, open, onGitHub>>, faults' \in 0..MaxFaults,
         comment' \in CommentRows, comment'.id <= posted,
         me.id <= posted, me.at = "editing" => me.id # 0,
         me.at = "posting" => Marked = {},
         \/ /\ UNCHANGED comment
            /\ me.at \in {"idle", "listed"} \/ Claimed(p)
         \/ /\ \A q \in Senders \ {p} : ~Claimed(q)
            /\ me.at = "idle" \/ (comment'.leased /\ comment'.holder = p)
  PROVE  CommentInv'
<1>1. /\ sender' \in [Senders -> SenderLocals] /\ sender'[p] = me
      /\ \A q \in Senders : q # p => sender'[q] = sender[q]
  BY DEF SGoto, CommentInv, CommentTypes
<1>2. Marked' = Marked
  BY DEF Marked, onGitHub
<1>3. CommentTypes'
  BY <1>1 DEF CommentInv, CommentTypes, onGitHub
<1>4. \A q \in Senders : Claimed(q)' => comment'.leased /\ comment'.holder = q
  BY <1>1 DEF CommentInv, Claimed
<1>5. \A q \in Senders : sender'[q].at = "posting" => Marked' = {}
  BY <1>1, <1>2 DEF CommentInv
<1> QED BY <1>2, <1>3, <1>4, <1>5 DEF CommentInv

LEMMA IdleSender == SenderIdle \in SenderLocals /\ SenderIdle.at = "idle" /\ SenderIdle.id = 0
  BY CommentsAssumption DEF SenderIdle, SenderLocals, SenderPlaces

\* A pass that frees its row, or finds it taken.
LEMMA SenderEnds ==
  ASSUME CommentInv, NEW p \in Senders, SGoto(p, SenderIdle), Claimed(p) \/ UNCHANGED comment,
         UNCHANGED <<delivered, open, onGitHub>>, faults' \in 0..MaxFaults,
         comment' \in CommentRows, comment'.id <= posted
  PROVE  CommentInv'
<1>1. SenderIdle.id <= posted
  BY IdleSender DEF CommentInv, CommentTypes
<1>2. Claimed(p) => \A q \in Senders \ {p} : ~Claimed(q)
  BY DEF CommentInv
<1> QED BY <1>1, <1>2, IdleSender, SenderGoes

LEMMA ListCommentStep ==
  ASSUME CommentInv, NEW p \in Senders, ListCandidate(p)
  PROVE  CommentInv'
<1> DEFINE m1 == [SenderIdle EXCEPT !.at = "listed"]
           me == [m1 EXCEPT !.status = delivered]
<1>1. SGoto(p, me) /\ UNCHANGED <<delivered, open, comment, onGitHub, faults>>
  BY Zenon DEF ListCandidate
<1>2. "listed" \in SenderPlaces /\ delivered \in 0..MaxStatus
  BY DEF SenderPlaces, CommentInv, CommentTypes
<1>3. m1 \in SenderLocals /\ m1.at = "listed" /\ m1.id = 0
  BY <1>2, IdleSender, SenderWritten
<1> HIDE DEF m1
<1>4. me \in SenderLocals /\ me.at = "listed" /\ me.id = 0
  BY <1>2, <1>3, SenderWritten
<1> HIDE DEF me
<1>5. faults' \in 0..MaxFaults /\ comment' \in CommentRows /\ comment'.id <= posted /\ 0 <= posted
  BY <1>1 DEF CommentInv, CommentTypes
<1> QED BY <1>1, <1>4, <1>5, SenderGoes

LEMMA ClaimCommentStep ==
  ASSUME CommentInv, NEW p \in Senders, ClaimComment(p)
  PROVE  CommentInv'
<1>1. UNCHANGED <<delivered, open, onGitHub, faults>> /\ faults' \in 0..MaxFaults
  BY DEF ClaimComment, CommentInv, CommentTypes
<1>2. comment \in CommentRows /\ comment.id <= posted /\ comment.id \in Nat
  BY DEF CommentInv, CommentTypes, CommentRows
<1>3. CASE SGoto(p, SenderIdle) /\ UNCHANGED comment
  BY <1>1, <1>2, <1>3, SenderEnds
<1>4. CASE ClaimableComment
  <2> DEFINE place == IF comment.id = 0 THEN "finding" ELSE "editing"
             m1 == [sender[p] EXCEPT !.at = place]
             me == [m1 EXCEPT !.id = comment.id]
             c1 == [comment EXCEPT !.leased = TRUE]
             c2 == [c1 EXCEPT !.holder = p]
  <2>1. SGoto(p, me) /\ comment' = c2
    BY <1>4, Zenon DEF ClaimComment
  <2>2. sender[p] \in SenderLocals /\ place \in SenderPlaces
    BY DEF CommentInv, CommentTypes, SenderPlaces
  <2>3. m1 \in SenderLocals /\ m1.at = place
    BY <2>2, SenderWritten
  <2> HIDE DEF m1
  <2>4. me \in SenderLocals /\ me.at = place /\ me.id = comment.id
    BY <1>2, <2>3, SenderWritten
  <2> HIDE DEF me
  <2>5. c1 \in CommentRows /\ c1.id = comment.id /\ c1.leased
    BY <1>2, RowWritten
  <2> HIDE DEF c1
  <2>6. c2 \in CommentRows /\ c2.id = comment.id /\ c2.leased /\ c2.holder = p
    <3>1. p \in Senders \cup {"none"}
      OBVIOUS
    <3> QED BY <2>5, <3>1, RowWritten
  <2> HIDE DEF c2
  <2>7. \A q \in Senders : ~Claimed(q)
    BY <1>4 DEF CommentInv, ClaimableComment
  <2>8. place # "posting" /\ (place = "editing" => comment.id # 0)
    OBVIOUS
  <2> HIDE DEF place
  <2> QED BY <1>1, <1>2, <2>1, <2>4, <2>6, <2>7, <2>8, SenderGoes
<1> QED BY <1>3, <1>4 DEF ClaimComment

\* A step of the pass with the claim that may write a comment.
LEMMA SenderWrites ==
  ASSUME CommentInv, NEW p \in Senders, NEW me \in SenderLocals, SGoto(p, me), Claimed(p),
         UNCHANGED <<delivered, open, comment>>, faults' \in 0..MaxFaults,
         posted' \in Nat, posted <= posted', shows' \in [1..posted' -> 0..MaxStatus],
         me.id <= posted', me.at = "storing" \/ me.at = "failing",
         Marked' \subseteq Marked \/ (Marked = {} /\ \A c, d \in Marked' : c = d)
  PROVE  CommentInv'
<1>1. /\ sender' \in [Senders -> SenderLocals] /\ sender'[p] = me
      /\ \A q \in Senders : q # p => sender'[q] = sender[q]
  BY DEF SGoto, CommentInv, CommentTypes
<1>2. \A q \in Senders : q # p => ~Claimed(q)
  BY DEF CommentInv
<1>3. CommentTypes'
  <2>1. comment'.id <= posted' /\ comment' \in CommentRows
    BY DEF CommentInv, CommentTypes, CommentRows
  <2>2. \A q \in Senders : sender'[q].id <= posted' /\ (sender'[q].at = "editing" => sender'[q].id # 0)
    <3> SUFFICES ASSUME NEW q \in Senders, q # p
                 PROVE  sender[q].id <= posted' /\ (sender[q].at = "editing" => sender[q].id # 0)
      BY <1>1
    <3> QED BY DEF CommentInv, CommentTypes, SenderLocals
  <2> QED BY <1>1, <2>1, <2>2 DEF CommentInv, CommentTypes
<1>4. \A q \in Senders : Claimed(q)' => comment'.leased /\ comment'.holder = q
  BY <1>1, <1>2 DEF CommentInv, Claimed
<1>5. \A q \in Senders : sender'[q].at # "posting"
  BY <1>1, <1>2 DEF Claimed
<1>6. \A c, d \in Marked' : c = d
  BY DEF CommentInv
<1> QED BY <1>3, <1>4, <1>5, <1>6 DEF CommentInv

LEMMA FaultCounts ==
  ASSUME CommentInv, Fault \/ UNCHANGED faults
  PROVE  faults' \in 0..MaxFaults
  BY CommentsAssumption DEF CommentInv, CommentTypes, Fault

\* The place of a pass that keeps its claim.
LEMMA SenderMoves ==
  ASSUME CommentInv, NEW p \in Senders, Claimed(p), NEW place \in SenderPlaces, STo(p, place),
         UNCHANGED <<delivered, open, comment, onGitHub>>, faults' \in 0..MaxFaults,
         place = "posting" => Marked = {}, place # "editing"
  PROVE  CommentInv'
<1> DEFINE me == [sender[p] EXCEPT !.at = place]
<1>1. sender[p] \in SenderLocals /\ sender[p].id <= posted
  BY DEF CommentInv, CommentTypes
<1>2. me \in SenderLocals /\ me.at = place /\ me.id = sender[p].id
  BY <1>1, SenderWritten
<1>3. SGoto(p, me)
  BY DEF STo
<1> HIDE DEF me
<1>4. comment' \in CommentRows /\ comment'.id <= posted
  BY DEF CommentInv, CommentTypes
<1> QED BY <1>1, <1>2, <1>3, <1>4, SenderGoes

LEMMA FindCommentStep ==
  ASSUME CommentInv, NEW p \in Senders, FindComment(p)
  PROVE  CommentInv'
<1>1. UNCHANGED <<delivered, open, comment, onGitHub>> /\ faults' \in 0..MaxFaults /\ Claimed(p)
  BY DEF FindComment, CommentInv, CommentTypes, Claimed
<1>2. CASE Marked = {} /\ STo(p, "posting")
  <2>1. PICK place \in SenderPlaces : place = "posting"
    BY DEF SenderPlaces
  <2> QED BY <1>1, <1>2, <2>1, SenderMoves
<1>3. CASE \E c \in Marked : SGoto(p, [sender[p] EXCEPT !.at = "editing", !.id = c])
  <2>1. PICK c \in Marked : SGoto(p, [sender[p] EXCEPT !.at = "editing", !.id = c])
    BY <1>3
  <2>2. c \in Nat /\ c # 0 /\ c <= posted
    BY DEF Marked, CommentInv, CommentTypes
  <2> DEFINE m1 == [sender[p] EXCEPT !.at = "editing"]
             me == [m1 EXCEPT !.id = c]
  <2>3. SGoto(p, me)
    BY <2>1, Zenon
  <2>4. sender[p] \in SenderLocals /\ "editing" \in SenderPlaces
    BY DEF CommentInv, CommentTypes, SenderPlaces
  <2>5. m1 \in SenderLocals /\ m1.at = "editing"
    BY <2>4, SenderWritten
  <2> HIDE DEF m1
  <2>6. me \in SenderLocals /\ me.at = "editing" /\ me.id = c
    BY <2>2, <2>5, SenderWritten
  <2> HIDE DEF me
  <2>7. comment' \in CommentRows /\ comment'.id <= posted
    BY <1>1 DEF CommentInv, CommentTypes
  <2> QED BY <1>1, <2>2, <2>3, <2>6, <2>7, SenderGoes
<1> QED BY <1>2, <1>3 DEF FindComment

\* The place after a write, answered or not.
LEMMA AnswerGiven ==
  ASSUME CommentInv, NEW p \in Senders, NEW me \in SenderLocals, Answer(p, me)
  PROVE  /\ faults' \in 0..MaxFaults
         /\ \E u \in SenderLocals : /\ SGoto(p, u) /\ u.id = me.id
                                    /\ u.at = "storing" \/ u.at = "failing"
<1>1. faults' \in 0..MaxFaults
  BY FaultCounts DEF Answer
<1>2. PICK place \in SenderPlaces : /\ place = "storing" \/ place = "failing"
                                    /\ SGoto(p, [me EXCEPT !.at = place])
  BY DEF Answer, SenderPlaces
<1> DEFINE u == [me EXCEPT !.at = place]
<1>3. u \in SenderLocals /\ u.at = place /\ u.id = me.id
  BY SenderWritten
<1> QED BY <1>1, <1>2, <1>3

LEMMA EditCommentStep ==
  ASSUME CommentInv, NEW p \in Senders, EditComment(p)
  PROVE  CommentInv'
<1> DEFINE c == sender[p].id
<1>1. UNCHANGED <<delivered, open, comment, posted>> /\ Claimed(p)
  BY DEF EditComment, Claimed
<1>2. sender[p] \in SenderLocals /\ c \in 1..posted /\ posted \in Nat
  BY DEF EditComment, CommentInv, CommentTypes, SenderLocals
<1>3. CASE shows[c] = 0
  <2> DEFINE m1 == [sender[p] EXCEPT !.at = "storing"]
             me == [m1 EXCEPT !.gone = TRUE]
  <2>1. SGoto(p, me) /\ UNCHANGED <<shows, faults>>
    BY <1>3, Zenon DEF EditComment
  <2>2. "storing" \in SenderPlaces
    BY DEF SenderPlaces
  <2>3. m1 \in SenderLocals /\ m1.at = "storing" /\ m1.id = c
    BY <1>2, <2>2, SenderWritten
  <2> HIDE DEF m1
  <2>4. me \in SenderLocals /\ me.at = "storing" /\ me.id = c
    BY <2>3, SenderWritten
  <2> HIDE DEF me
  <2>5. /\ faults' \in 0..MaxFaults /\ posted' \in Nat /\ posted <= posted' /\ me.id <= posted'
        /\ shows' \in [1..posted' -> 0..MaxStatus]
    BY <1>1, <1>2, <2>1, <2>4 DEF CommentInv, CommentTypes
  <2>6. Marked' \subseteq Marked
    BY <1>1, <2>1 DEF Marked
  <2> QED BY <1>1, <2>1, <2>4, <2>5, <2>6, SenderWrites
<1>4. CASE shows[c] # 0
  <2>1. shows' = [shows EXCEPT ![c] = sender[p].status] /\ Answer(p, sender[p])
    BY <1>4 DEF EditComment
  <2>2. PICK u \in SenderLocals : /\ SGoto(p, u) /\ u.id = sender[p].id
                                  /\ u.at = "storing" \/ u.at = "failing"
    BY <1>2, <2>1, AnswerGiven
  <2>3. faults' \in 0..MaxFaults
    BY <1>2, <2>1, AnswerGiven
  <2>4. /\ posted' \in Nat /\ posted <= posted' /\ u.id <= posted'
        /\ shows' \in [1..posted' -> 0..MaxStatus]
    BY <1>1, <1>2, <2>1, <2>2 DEF CommentInv, CommentTypes, SenderLocals
  <2>5. Marked' \subseteq Marked
    BY <1>1, <1>2, <1>4, <2>1 DEF Marked, CommentInv, CommentTypes
  <2> QED BY <1>1, <2>2, <2>3, <2>4, <2>5, SenderWrites
<1> QED BY <1>3, <1>4

LEMMA PostCommentStep ==
  ASSUME CommentInv, NEW p \in Senders, PostComment(p)
  PROVE  CommentInv'
<1> DEFINE me == [sender[p] EXCEPT !.id = posted']
<1>1. UNCHANGED <<delivered, open, comment>> /\ Claimed(p) /\ Answer(p, me)
  BY DEF PostComment, Claimed
<1>2. sender[p] \in SenderLocals /\ posted \in Nat /\ posted' = posted + 1 /\ Marked = {}
  BY DEF PostComment, CommentInv, CommentTypes
<1>3. me \in SenderLocals /\ me.id = posted'
  <2>1. PICK n \in Nat : n = posted'
    BY <1>2
  <2> QED BY <1>2, <2>1, SenderWritten
<1> HIDE DEF me
<1>4. PICK u \in SenderLocals : /\ SGoto(p, u) /\ u.id = me.id
                                /\ u.at = "storing" \/ u.at = "failing"
  BY <1>1, <1>3, AnswerGiven
<1>5. faults' \in 0..MaxFaults
  BY <1>1, <1>3, AnswerGiven
<1>6. shows' = [c \in 1..posted' |-> IF c = posted' THEN sender[p].status ELSE shows[c]]
  BY DEF PostComment
<1>7. /\ posted' \in Nat /\ posted <= posted' /\ u.id <= posted'
      /\ shows' \in [1..posted' -> 0..MaxStatus]
  <2>1. sender[p].status \in 0..MaxStatus /\ shows \in [1..posted -> 0..MaxStatus]
    BY <1>2 DEF SenderLocals, CommentInv, CommentTypes
  <2>2. \A c \in 1..posted' : c # posted' => c \in 1..posted
    BY <1>2
  <2> QED BY <1>2, <1>3, <1>4, <1>6, <2>1, <2>2
<1>8. \A c \in Marked' : c = posted'
  BY <1>2, <1>6 DEF Marked
<1> QED BY <1>1, <1>2, <1>4, <1>5, <1>7, <1>8, SenderWrites

LEMMA RequestFailsStep ==
  ASSUME CommentInv, NEW p \in Senders, CommentRequestFails(p)
  PROVE  CommentInv'
<1>1. PICK place \in SenderPlaces : place = "failing"
  BY DEF SenderPlaces
<1>2. /\ Claimed(p) /\ STo(p, place) /\ faults' \in 0..MaxFaults
      /\ UNCHANGED <<delivered, open, comment, onGitHub>>
  BY <1>1, FaultCounts DEF CommentRequestFails, Claimed
<1> QED BY <1>1, <1>2, SenderMoves

LEMMA StoreCommentStep ==
  ASSUME CommentInv, NEW p \in Senders, StoreComment(p)
  PROVE  CommentInv'
<1> DEFINE me == sender[p]
<1>1. /\ Claimed(p) /\ SGoto(p, SenderIdle) /\ UNCHANGED <<delivered, open, onGitHub>>
      /\ faults' \in 0..MaxFaults
  BY DEF StoreComment, Claimed, CommentInv, CommentTypes
<1>2. me \in SenderLocals /\ me.id <= posted /\ comment \in CommentRows /\ comment.id <= posted
  BY DEF CommentInv, CommentTypes
<1>3. /\ me.id \in Nat /\ me.gone \in BOOLEAN /\ me.status \in 0..MaxStatus /\ comment.id \in Nat
  BY <1>2 DEF SenderLocals, CommentRows
<1> DEFINE x == IF me.gone THEN comment.id ELSE me.id
           c1 == [comment EXCEPT !.id = x]
           c2 == [c1 EXCEPT !.deleted = me.gone]
           c3 == [c2 EXCEPT !.status = me.status]
<1>4. comment' = IF comment.holder # p THEN comment ELSE Free(c3)
  <2>1. c3 = [comment EXCEPT !.id = IF me.gone THEN @ ELSE me.id,
                             !.deleted = me.gone, !.status = me.status]
    BY Zenon
  <2> QED BY <2>1, Zenon DEF StoreComment
<1>5. x \in Nat /\ x <= posted
  BY <1>2, <1>3
<1> HIDE DEF x
<1>6. c1 \in CommentRows /\ c1.id = x
  BY <1>2, <1>5, RowWritten
<1> HIDE DEF c1
<1>7. c2 \in CommentRows /\ c2.id = x
  BY <1>3, <1>6, RowWritten
<1> HIDE DEF c2
<1>8. c3 \in CommentRows /\ c3.id = x
  BY <1>3, <1>7, RowWritten
<1> HIDE DEF c3
<1>9. comment' \in CommentRows /\ comment'.id <= posted
  BY <1>2, <1>4, <1>5, <1>8, FreedRow
<1> QED BY <1>1, <1>9, SenderEnds

LEMMA FailCommentStep ==
  ASSUME CommentInv, NEW p \in Senders, FailComment(p)
  PROVE  CommentInv'
<1>1. /\ Claimed(p) /\ SGoto(p, SenderIdle) /\ UNCHANGED <<delivered, open, onGitHub>>
      /\ faults' \in 0..MaxFaults
  BY DEF FailComment, Claimed, CommentInv, CommentTypes
<1>2. comment \in CommentRows /\ comment.id <= posted
  BY DEF CommentInv, CommentTypes
<1>3. comment' \in CommentRows /\ comment'.id <= posted
  BY <1>2, FreedRow DEF FailComment
<1> QED BY <1>1, <1>3, SenderEnds

LEMMA StopSenderStep ==
  ASSUME CommentInv, NEW p \in Senders, StopSender(p)
  PROVE  CommentInv'
<1>1. /\ SGoto(p, SenderIdle) /\ UNCHANGED <<delivered, open, comment, onGitHub>>
      /\ faults' \in 0..MaxFaults
  BY FaultCounts DEF StopSender
<1>2. comment' \in CommentRows /\ comment'.id <= posted
  BY <1>1 DEF CommentInv, CommentTypes
<1> QED BY <1>1, <1>2, SenderEnds

\* The steps of the pull request and of the clock.
LEMMA CommentWorldStep ==
  ASSUME CommentInv,
         Deliver \/ ClosePull \/ CommentLeaseEnds \/ (\E c \in DOMAIN shows : DeleteComment(c))
  PROVE  CommentInv'
<1>1. CASE Deliver \/ ClosePull
  <2>1. delivered' \in 0..MaxStatus /\ open' \in BOOLEAN
    <3>1. delivered \in 0..MaxStatus /\ open \in BOOLEAN
      BY DEF CommentInv, CommentTypes
    <3>2. CASE Deliver
      BY <3>1, <3>2, CommentsAssumption DEF Deliver
    <3>3. CASE ClosePull
      BY <3>1, <3>3 DEF ClosePull
    <3> QED BY <1>1, <3>2, <3>3
  <2>2. UNCHANGED <<comment, posted, shows, sender, faults>>
    BY <1>1 DEF Deliver, ClosePull, onGitHub
  <2> QED BY <2>1, <2>2 DEF CommentInv, CommentTypes, Claimed, Marked
<1>2. CASE CommentLeaseEnds
  <2>1. UNCHANGED <<delivered, open, posted, shows, sender, faults>> /\ comment' = Free(comment)
    BY <1>2 DEF CommentLeaseEnds, onGitHub
  <2>2. \A p \in Senders : ~Claimed(p)
    BY <1>2 DEF CommentLeaseEnds, CommentInv
  <2>3. comment' \in CommentRows /\ comment'.id <= posted
    BY <2>1, FreedRow DEF CommentInv, CommentTypes
  <2> QED BY <2>1, <2>2, <2>3 DEF CommentInv, CommentTypes, Claimed, Marked
<1>3. CASE \E c \in DOMAIN shows : DeleteComment(c)
  <2>1. PICK c \in DOMAIN shows : DeleteComment(c)
    BY <1>3
  <2>2. UNCHANGED <<delivered, open, comment, posted, sender, faults>> /\ shows' = [shows EXCEPT ![c] = 0]
    BY <2>1 DEF DeleteComment
  <2>3. shows' \in [1..posted -> 0..MaxStatus] /\ Marked' \subseteq Marked
    BY <2>1, <2>2, CommentsAssumption DEF Marked, CommentInv, CommentTypes
  <2> QED BY <2>2, <2>3 DEF CommentInv, CommentTypes, Claimed
<1> QED BY <1>1, <1>2, <1>3

LEMMA CommentInvStep == CommentInv /\ [SNext]_commentVars => CommentInv'
<1> SUFFICES ASSUME CommentInv, [SNext]_commentVars PROVE CommentInv'
  OBVIOUS
<1>1. CASE UNCHANGED commentVars
  BY <1>1 DEF commentVars, CommentInv, CommentTypes, Claimed, Marked
<1>2. ASSUME NEW p \in Senders, SenderStep(p) PROVE CommentInv'
  BY <1>2, ListCommentStep, ClaimCommentStep, FindCommentStep, EditCommentStep, PostCommentStep,
     StoreCommentStep, FailCommentStep DEF SenderStep
<1>3. ASSUME NEW p \in Senders, CommentRequestFails(p) \/ StopSender(p) PROVE CommentInv'
  BY <1>3, RequestFailsStep, StopSenderStep
<1> QED BY <1>1, <1>2, <1>3, CommentWorldStep DEF SNext

LEMMA CommentInvInit == SInit => CommentInv
<1> SUFFICES ASSUME SInit PROVE CommentInv
  OBVIOUS
<1>1. shows \in [1..posted -> 0..MaxStatus] /\ Marked = {}
  BY DEF SInit, Marked
<1>2. comment \in CommentRows /\ comment.id = 0
  BY CommentsAssumption DEF SInit, CommentRows, NoComment
<1>3. \A p \in Senders : sender[p] = SenderIdle
  BY DEF SInit
<1>4. sender \in [Senders -> SenderLocals]
  BY <1>3, IdleSender DEF SInit
<1> QED BY <1>1, <1>2, <1>3, <1>4, IdleSender, CommentsAssumption
       DEF SInit, CommentInv, CommentTypes, Claimed

(* The claim of the row is of the one pass that acts on it, and a comment  *)
(* is posted only when GitHub has none that is marked.                     *)
THEOREM CommentClaims == SSpec => []CommentInv
  BY CommentInvInit, CommentInvStep, PTL DEF SSpec

(* "The service keeps one comment on each pull request whose run has a     *)
(* change": passes that overlap, stop or lose the answer of a POST never   *)
(* leave two of them.                                                      *)
THEOREM OneCommentStays == SSpec => []OneComment
<1>1. CommentInv => OneComment
  <2> SUFFICES ASSUME CommentInv PROVE OneComment
    OBVIOUS
  <2>1. CASE Marked = {}
    BY <2>1, FS_EmptySet DEF OneComment
  <2>2. ASSUME NEW c \in Marked PROVE OneComment
    <3>1. Marked = {c}
      BY <2>2 DEF CommentInv
    <3>2. Cardinality({c}) = 1
      BY FS_Singleton
    <3> QED BY <3>1, <3>2 DEF OneComment
  <2> QED BY <2>1, <2>2
<1> QED BY <1>1, CommentClaims, PTL

-----------------------------------------------------------------------------
(* The check of a candidate.                                               *)
CallPlaces == {"idle"} \cup Before \cup After
\* Where a call with the claim of an unmarked row is.
HoldingPlaces == {"searching", "marking", "failing"}
UnmarkedPlaces == {"idle", "read", "reread", "decide", "claiming"} \cup HoldingPlaces

RequestFits ==
  /\ started = IF requestStarted THEN 1 ELSE 0
  /\ checks \subseteq 1..started /\ \A post \in posts : post.check \in 1..started

RowFits ==
  /\ state = "active" => checkId \in checks
  /\ requestStarted => state # "pending"
  /\ ~requestStarted => state \in {"pending", "creating"} /\ checkId = 0

LocalFits(me) ==
  /\ me.at = "activating" => me.check \in checks
  /\ requestStarted => me.at \notin {"searching", "marking"}
  /\ ~requestStarted => /\ me.at \in UnmarkedPlaces /\ me.check = 0
                        /\ me.state \in {"pending", "creating"}

Holding(w) == ~requestStarted /\ worker[w].at \in HoldingPlaces

\* A claim that is not marked is of one call, whose lease still runs.
PreRunInv ==
  /\ TypeOK /\ RequestFits /\ RowFits
  /\ \A w \in Workers : LocalFits(worker[w])
  /\ \A w \in Workers : Holding(w) => state = "creating" /\ leaseLeft + worker[w].age = Lease
  /\ \A v, w \in Workers : Holding(v) /\ Holding(w) => v = w

LEMMA LocalWritten ==
  ASSUME NEW me \in Locals
  PROVE  /\ \A x \in CallPlaces : LET u == [me EXCEPT !.at = x] IN
              u \in Locals /\ u.at = x /\ u.state = me.state /\ u.check = me.check /\ u.age = me.age
         /\ \A x \in States : LET u == [me EXCEPT !.state = x] IN
              u \in Locals /\ u.at = me.at /\ u.state = x /\ u.check = me.check /\ u.age = me.age
         /\ \A x \in 0..MaxPosts : LET u == [me EXCEPT !.check = x] IN
              u \in Locals /\ u.at = me.at /\ u.state = me.state /\ u.check = x /\ u.age = me.age
         /\ \A x \in 0..Lease : LET u == [me EXCEPT !.lease = x] IN
              u \in Locals /\ u.at = me.at /\ u.state = me.state /\ u.check = me.check /\ u.age = me.age
         /\ \A x \in 0..MaxPosts : LET u == [me EXCEPT !.found = x] IN
              u \in Locals /\ u.at = me.at /\ u.state = me.state /\ u.check = me.check /\ u.age = me.age
         /\ \A x \in 0..CallTime : LET u == [me EXCEPT !.age = x] IN
              u \in Locals /\ u.at = me.at /\ u.state = me.state /\ u.check = me.check /\ u.age = x
         /\ \A x \in BOOLEAN : LET u == [me EXCEPT !.inTry = x] IN
              u \in Locals /\ u.at = me.at /\ u.state = me.state /\ u.check = me.check /\ u.age = me.age
<1>1. CallPlaces = {"idle"} \cup Before \cup After
  BY DEF CallPlaces
<1> QED BY <1>1 DEF Locals

LEMMA IdleCall ==
  /\ Idle \in Locals /\ Idle.at = "idle" /\ Idle.state = "pending" /\ Idle.check = 0
  /\ LocalFits(Idle)
<1>1. Idle \in Locals /\ Idle.at = "idle" /\ Idle.state = "pending" /\ Idle.check = 0
  BY CreationAssumption DEF Idle, Locals, States
<1> QED BY <1>1 DEF LocalFits, UnmarkedPlaces

\* A row that a call reads.
LEMMA RowRead ==
  ASSUME PreRunInv, NEW me \in Locals, NEW place \in CallPlaces
  PROVE  LET u == Read(me, place) IN
         u \in Locals /\ u.at = place /\ u.state = state /\ u.check = checkId /\ u.age = me.age
<1> DEFINE u1 == [me EXCEPT !.at = place]
           u2 == [u1 EXCEPT !.state = state]
           u3 == [u2 EXCEPT !.check = checkId]
           u4 == [u3 EXCEPT !.lease = leaseLeft]
<1>1. u1 \in Locals /\ u1.at = place /\ u1.age = me.age
  BY LocalWritten
<1>2. Read(me, place) = u4
  BY Zenon DEF Read
<1>3. state \in States /\ checkId \in 0..MaxPosts /\ leaseLeft \in 0..Lease
  BY DEF PreRunInv, TypeOK
<1> HIDE DEF u1
<1>4. u2 \in Locals /\ u2.at = place /\ u2.age = me.age /\ u2.state = state
  BY <1>1, <1>3, LocalWritten
<1> HIDE DEF u2
<1>5. u3 \in Locals /\ u3.at = place /\ u3.age = me.age /\ u3.state = state /\ u3.check = checkId
  BY <1>3, <1>4, LocalWritten
<1> HIDE DEF u3
<1>6. u4 \in Locals /\ u4.at = place /\ u4.age = me.age /\ u4.state = state /\ u4.check = checkId
  BY <1>3, <1>5, LocalWritten
<1> HIDE DEF u4
<1> QED BY <1>2, <1>6

\* A step of one call that leaves GitHub alone.
LEMMA CallWrites ==
  ASSUME PreRunInv, NEW w \in Workers, NEW me \in Locals, Become(w, me), LocalFits(me),
         UNCHANGED <<requestStarted, checks, posts, started, world>>,
         state' \in States, leaseLeft' \in 0..Lease, checkId' \in 0..MaxPosts, RowFits',
         UNCHANGED <<state, leaseLeft>> \/ \A v \in Workers \ {w} : ~Holding(v),
         ~requestStarted /\ me.at \in HoldingPlaces
           => /\ state' = "creating" /\ leaseLeft' + me.age = Lease
              /\ \A v \in Workers \ {w} : ~Holding(v)
  PROVE  PreRunInv'
<1>1. /\ worker' \in [Workers -> Locals] /\ worker'[w] = me
      /\ \A v \in Workers : v # w => worker'[v] = worker[v]
  BY DEF Become, PreRunInv, TypeOK
<1>2. TypeOK'
  BY <1>1 DEF PreRunInv, TypeOK, world
<1>3. RequestFits'
  BY DEF PreRunInv, RequestFits
<1>4. \A v \in Workers : LocalFits(worker[v])'
  <2>1. LocalFits(worker[w])'
    BY <1>1 DEF LocalFits
  <2>2. ASSUME NEW v \in Workers, v # w PROVE LocalFits(worker[v])'
    <3>1. LocalFits(worker[v]) /\ worker'[v] = worker[v]
      BY <1>1, <2>2 DEF PreRunInv
    <3> QED BY <3>1 DEF LocalFits
  <2> QED BY <2>1, <2>2
<1>5. \A v \in Workers : Holding(v)' => \/ v = w /\ ~requestStarted /\ me.at \in HoldingPlaces
                                        \/ v # w /\ Holding(v)
  BY <1>1 DEF Holding
<1>6. \A v \in Workers : Holding(v)' => state' = "creating" /\ leaseLeft' + worker'[v].age = Lease
  BY <1>1, <1>5 DEF PreRunInv
<1>7. \A u, v \in Workers : Holding(u)' /\ Holding(v)' => u = v
  BY <1>5 DEF PreRunInv
<1> QED BY <1>2, <1>3, <1>4, <1>6, <1>7 DEF PreRunInv

LEMMA CallGoes ==
  ASSUME PreRunInv, NEW w \in Workers, NEW me \in Locals, Become(w, me), LocalFits(me),
         UNCHANGED <<row, checks, posts, started, world>>,
         ~requestStarted /\ me.at \in HoldingPlaces => Holding(w) /\ me.age = worker[w].age
  PROVE  PreRunInv'
<1>1. /\ state' \in States /\ leaseLeft' \in 0..Lease /\ checkId' \in 0..MaxPosts /\ RowFits'
      /\ UNCHANGED <<requestStarted, checks, posts, started, world>> /\ UNCHANGED <<state, leaseLeft>>
  BY DEF PreRunInv, TypeOK, RowFits, row
<1>2. ~requestStarted /\ me.at \in HoldingPlaces
        => /\ state' = "creating" /\ leaseLeft' + me.age = Lease
           /\ \A v \in Workers \ {w} : ~Holding(v)
  BY <1>1 DEF PreRunInv
<1> QED BY <1>1, <1>2, CallWrites

\* A call that ends.
LEMMA CallEnds ==
  ASSUME PreRunInv, NEW w \in Workers, GoIdle(w), UNCHANGED <<row, checks, posts, started, world>>
  PROVE  PreRunInv'
<1>1. Become(w, Idle) /\ Idle.at \notin HoldingPlaces
  BY IdleCall DEF GoIdle, HoldingPlaces
<1> QED BY <1>1, IdleCall, CallGoes

LEMMA MyCall ==
  ASSUME PreRunInv, NEW w \in Workers
  PROVE  /\ worker[w] \in Locals /\ LocalFits(worker[w]) /\ worker[w].age \in 0..CallTime
         /\ worker[w].at \notin UnmarkedPlaces => requestStarted
         /\ worker[w].at \in {"searching", "marking"} => Holding(w)
         /\ worker[w].found \in 0..MaxPosts /\ worker[w].check \in 0..MaxPosts
<1>1. worker[w] \in Locals /\ LocalFits(worker[w]) /\ requestStarted \in BOOLEAN
  BY DEF PreRunInv, TypeOK
<1>2. /\ worker[w].age \in 0..CallTime /\ worker[w].found \in 0..MaxPosts
      /\ worker[w].check \in 0..MaxPosts
  BY <1>1 DEF Locals
<1>3. worker[w].at \in {"searching", "marking"} => Holding(w)
  BY <1>1 DEF LocalFits, Holding, HoldingPlaces
<1>4. worker[w].at \notin UnmarkedPlaces => requestStarted
  BY <1>1 DEF LocalFits
<1> QED BY <1>1, <1>2, <1>3, <1>4

\* A call that goes to another place.
LEMMA GotoStep ==
  ASSUME PreRunInv, NEW w \in Workers, NEW place \in CallPlaces, Goto(w, place),
         UNCHANGED <<row, checks, posts, started, world>>,
         place = "activating" => worker[w].check \in checks,
         place \in {"searching", "marking"} => ~requestStarted,
         ~requestStarted => place \in UnmarkedPlaces,
         ~requestStarted /\ place \in HoldingPlaces => Holding(w)
  PROVE  PreRunInv'
<1> DEFINE u == [worker[w] EXCEPT !.at = place]
<1>1. worker[w] \in Locals /\ LocalFits(worker[w])
  BY MyCall
<1>2. /\ u \in Locals /\ u.at = place /\ u.state = worker[w].state /\ u.check = worker[w].check
      /\ u.age = worker[w].age
  BY <1>1, LocalWritten
<1>3. Become(w, u)
  BY DEF Goto
<1> HIDE DEF u
<1>4. LocalFits(u)
  BY <1>1, <1>2 DEF LocalFits
<1> QED BY <1>2, <1>3, <1>4, CallGoes

LEMMA ThrowStep ==
  ASSUME PreRunInv, NEW w \in Workers, Throw(w), UNCHANGED <<row, checks, posts, started, world>>,
         worker[w].at \in HoldingPlaces \/ requestStarted
  PROVE  PreRunInv'
<1>1. CASE GoIdle(w)
  BY <1>1, CallEnds
<1>2. CASE Goto(w, "failing")
  <2>1. PICK place \in CallPlaces : place = "failing"
    BY DEF CallPlaces, After
  <2>2. ~requestStarted => place \in UnmarkedPlaces /\ Holding(w)
    BY <2>1 DEF UnmarkedPlaces, HoldingPlaces, Holding
  <2> QED BY <1>2, <2>1, <2>2, GotoStep
<1> QED BY <1>1, <1>2 DEF Throw

LEMMA ProceedStep ==
  ASSUME PreRunInv, NEW w \in Workers, NEW me \in Locals, Proceed(w, me),
         UNCHANGED <<row, checks, posts, started, world>>,
         ~requestStarted => me.check = 0 /\ me.state \in {"pending", "creating"}
  PROVE  PreRunInv'
<1>1. CASE GoIdle(w)
  BY <1>1, CallEnds
<1>2. ASSUME NEW place \in {"verifying", "claiming"}, Become(w, [me EXCEPT !.at = place]),
             place = "verifying" => requestStarted
      PROVE  PreRunInv'
  <2> DEFINE u == [me EXCEPT !.at = place]
  <2>1. place \in CallPlaces
    BY DEF CallPlaces, Before, After
  <2>2. u \in Locals /\ u.at = place /\ u.state = me.state /\ u.check = me.check
    BY <2>1, LocalWritten
  <2>3. Become(w, u)
    BY <1>2
  <2> HIDE DEF u
  <2>4. LocalFits(u) /\ u.at \notin HoldingPlaces
    BY <1>2, <2>2 DEF LocalFits, UnmarkedPlaces, HoldingPlaces
  <2> QED BY <2>2, <2>3, <2>4, CallGoes
<1> QED BY <1>1, <1>2 DEF Proceed

LEMMA ReadFits ==
  ASSUME PreRunInv, NEW me \in Locals, NEW place \in CallPlaces,
         place \in {"read", "decide"} \/ (requestStarted /\ place \in {"adopted", "verifying"})
  PROVE  LocalFits(Read(me, place)) /\ Read(me, place).at \notin HoldingPlaces
<1>1. /\ Read(me, place).at = place /\ Read(me, place).state = state
      /\ Read(me, place).check = checkId
  BY RowRead
<1>2. ~requestStarted => state \in {"pending", "creating"} /\ checkId = 0
  BY DEF PreRunInv, RowFits
<1> QED BY <1>1, <1>2 DEF LocalFits, UnmarkedPlaces, HoldingPlaces

\* The steps of a call that read the row.
LEMMA ReadingStep ==
  ASSUME PreRunInv, NEW w \in Workers, ReadRow(w) \/ Reread(w) \/ Decide(w) \/ Adopted(w) \/ Stored(w)
  PROVE  PreRunInv'
<1>1. UNCHANGED <<row, checks, posts, started, world>>
  BY DEF ReadRow, Reread, Decide, Adopted, Stored
<1>2. worker[w] \in Locals /\ LocalFits(worker[w]) /\ Idle \in Locals
  BY MyCall, IdleCall
<1>3. ASSUME NEW me \in Locals, NEW place \in CallPlaces, Become(w, Read(me, place)),
             place \in {"read", "decide"} \/ (requestStarted /\ place \in {"adopted", "verifying"})
      PROVE  PreRunInv'
  <2>1. Read(me, place) \in Locals
    BY RowRead
  <2>2. LocalFits(Read(me, place)) /\ Read(me, place).at \notin HoldingPlaces
    BY <1>3, ReadFits
  <2> QED BY <1>1, <1>3, <2>1, <2>2, CallGoes
<1>4. /\ "read" \in CallPlaces /\ "decide" \in CallPlaces /\ "adopted" \in CallPlaces
      /\ "verifying" \in CallPlaces /\ "looking" \in CallPlaces
  BY DEF CallPlaces, Before, After
<1>5. CASE ReadRow(w)
  BY <1>2, <1>3, <1>4, <1>5 DEF ReadRow
<1>6. CASE Reread(w)
  BY <1>2, <1>3, <1>4, <1>6 DEF Reread
<1>7. CASE Decide(w)
  <2>1. CASE worker[w].state = "ambiguous"
    <3>1. Goto(w, "looking") /\ requestStarted
      BY <1>2, <1>7, <2>1 DEF Decide, LocalFits, PreRunInv, TypeOK
    <3>2. PICK place \in CallPlaces : place = "looking"
      BY <1>4
    <3> QED BY <1>1, <3>1, <3>2, GotoStep
  <2>2. CASE worker[w].state # "ambiguous"
    <3>1. Proceed(w, worker[w])
      BY <1>7, <2>2 DEF Decide
    <3> QED BY <1>1, <1>2, <3>1, ProceedStep DEF LocalFits
  <2> QED BY <2>1, <2>2
<1>8. CASE Adopted(w)
  <2>1. requestStarted
    BY <1>8, MyCall DEF Adopted, UnmarkedPlaces, HoldingPlaces
  <2>2. Read(worker[w], "adopted") \in Locals
    BY <1>2, <1>4, RowRead
  <2> QED BY <1>1, <1>8, <2>1, <2>2, ProceedStep DEF Adopted
<1>9. CASE Stored(w)
  <2>1. requestStarted
    BY <1>9, MyCall DEF Stored, UnmarkedPlaces, HoldingPlaces
  <2>2. CASE GoIdle(w)
    BY <1>1, <2>2, CallEnds
  <2>3. CASE Become(w, Read(worker[w], "verifying"))
    BY <1>2, <1>3, <1>4, <2>1, <2>3
  <2> QED BY <1>9, <2>2, <2>3 DEF Stored
<1> QED BY <1>5, <1>6, <1>7, <1>8, <1>9

\* The steps of a call that end it, or only move it.
LEMMA MovingStep ==
  ASSUME PreRunInv, NEW w \in Workers, Answered(w) \/ Verify(w) \/ Fails(w) \/ Crash(w)
  PROVE  PreRunInv'
<1>1. UNCHANGED <<row, checks, posts, started, world>>
  BY DEF Answered, Verify, Fails, Crash
<1>2. CASE Answered(w)
  <2>1. PICK place \in CallPlaces : place = "storing"
    BY DEF CallPlaces, After
  <2>2. requestStarted /\ Goto(w, place)
    BY <1>2, <2>1, MyCall DEF Answered, UnmarkedPlaces, HoldingPlaces
  <2> QED BY <1>1, <2>1, <2>2, GotoStep
<1>3. CASE Verify(w)
  <2>1. PICK place \in CallPlaces : place = "activating"
    BY DEF CallPlaces, After
  <2>2. requestStarted
    BY <1>3, MyCall DEF Verify, UnmarkedPlaces, HoldingPlaces
  <2>3. CASE Goto(w, "activating") /\ worker[w].check \in checks
    <3>1. Goto(w, place)
      BY <2>1, <2>3
    <3> QED BY <1>1, <2>1, <2>2, <2>3, <3>1, GotoStep
  <2>4. CASE Throw(w)
    BY <1>1, <2>2, <2>4, ThrowStep
  <2> QED BY <1>3, <2>3, <2>4 DEF Verify
<1>4. CASE Fails(w)
  <2>1. Throw(w) /\ worker[w].at \in {"looking", "searching", "posting", "verifying"}
    BY <1>4 DEF Fails
  <2>2. worker[w].at \in HoldingPlaces \/ requestStarted
    BY <2>1, MyCall DEF UnmarkedPlaces, HoldingPlaces
  <2> QED BY <1>1, <2>1, <2>2, ThrowStep
<1>5. CASE Crash(w)
  BY <1>1, <1>5, CallEnds DEF Crash
<1> QED BY <1>2, <1>3, <1>4, <1>5

LEMMA LookStep ==
  ASSUME PreRunInv, NEW w \in Workers, Look(w)
  PROVE  PreRunInv'
<1>1. UNCHANGED <<row, checks, posts, started, world>> /\ requestStarted
  BY MyCall DEF Look, UnmarkedPlaces, HoldingPlaces
<1>2. CASE GoIdle(w)
  BY <1>1, <1>2, CallEnds
<1>3. ASSUME NEW check \in checks, Become(w, [worker[w] EXCEPT !.at = "adopting", !.found = check])
      PROVE  PreRunInv'
  <2> DEFINE u1 == [worker[w] EXCEPT !.at = "adopting"]
             u2 == [u1 EXCEPT !.found = check]
  <2>1. worker[w] \in Locals /\ "adopting" \in CallPlaces /\ check \in 0..MaxPosts
    BY MyCall DEF CallPlaces, Before, PreRunInv, TypeOK
  <2>2. Become(w, u2)
    BY <1>3, Zenon
  <2>3. u1 \in Locals /\ u1.at = "adopting"
    BY <2>1, LocalWritten
  <2> HIDE DEF u1
  <2>4. u2 \in Locals /\ u2.at = "adopting"
    BY <2>1, <2>3, LocalWritten
  <2> HIDE DEF u2
  <2>5. LocalFits(u2)
    BY <1>1, <2>4 DEF LocalFits
  <2> QED BY <1>1, <2>2, <2>4, <2>5, CallGoes
<1> QED BY <1>2, <1>3 DEF Look

LEMMA SearchStep ==
  ASSUME PreRunInv, NEW w \in Workers, Search(w)
  PROVE  PreRunInv'
<1>1. UNCHANGED <<row, checks, posts, started, world>> /\ Holding(w)
  BY MyCall DEF Search
<1>2. checks = {}
  BY <1>1 DEF Holding, PreRunInv, RequestFits
<1>3. Cardinality(checks) = 0
  BY <1>2, FS_EmptySet
<1>4. Goto(w, "marking")
  BY <1>3 DEF Search
<1>5. PICK place \in CallPlaces : place = "marking"
  BY DEF CallPlaces, Before
<1>6. ~requestStarted /\ place \in UnmarkedPlaces
  BY <1>1, <1>5 DEF Holding, UnmarkedPlaces, HoldingPlaces
<1> QED BY <1>1, <1>4, <1>5, <1>6, GotoStep

\* A claim is not over under a call that holds it.
LEMMA HeldIsRunning ==
  ASSUME PreRunInv, CallTime < Lease, NEW w \in Workers, Holding(w)
  PROVE  state = "creating" /\ leaseLeft > 0
<1>1. worker[w].age \in 0..CallTime /\ state = "creating" /\ leaseLeft + worker[w].age = Lease
  BY MyCall DEF PreRunInv
<1>2. leaseLeft \in Nat
  BY CreationAssumption DEF PreRunInv, TypeOK
<1> QED BY <1>1, <1>2, CreationAssumption

LEMMA BeginStep ==
  ASSUME PreRunInv, CallTime < Lease, NEW w \in Workers, Begin(w)
  PROVE  PreRunInv'
<1>1. PICK place \in {"reread", "decide"} :
        Become(w, [worker[w] EXCEPT !.at = place, !.age = 0])
  BY DEF Begin
<1> DEFINE u1 == [worker[w] EXCEPT !.at = place]
           u2 == [u1 EXCEPT !.age = 0]
<1>2. worker[w] \in Locals /\ LocalFits(worker[w]) /\ place \in CallPlaces /\ 0 \in 0..CallTime
  BY MyCall, CreationAssumption DEF CallPlaces, Before
<1>3. Become(w, u2)
  BY <1>1, Zenon
<1>4. /\ u1 \in Locals /\ u1.at = place /\ u1.state = worker[w].state
      /\ u1.check = worker[w].check
  BY <1>2, LocalWritten
<1> HIDE DEF u1
<1>5. /\ u2 \in Locals /\ u2.at = place /\ u2.state = worker[w].state
      /\ u2.check = worker[w].check
  BY <1>2, <1>4, LocalWritten
<1> HIDE DEF u2
<1>6. LocalFits(u2) /\ u2.at \notin HoldingPlaces
  BY <1>2, <1>5 DEF LocalFits, UnmarkedPlaces, HoldingPlaces
<1>7. UNCHANGED <<requestStarted, leaseLeft, checkId, checks, posts, started, world>>
  BY DEF Begin
<1>8. CASE UNCHANGED state
  BY <1>3, <1>5, <1>6, <1>7, <1>8, CallGoes DEF row
<1>9. CASE state = "creating" /\ leaseLeft = 0 /\ state' = Unclaimed
  <2>1. \A v \in Workers : ~Holding(v)
    BY <1>9, HeldIsRunning
  <2>2. /\ state' \in States /\ leaseLeft' \in 0..Lease /\ checkId' \in 0..MaxPosts /\ RowFits'
    BY <1>7, <1>9 DEF Unclaimed, States, PreRunInv, TypeOK, RowFits
  <2> QED BY <1>3, <1>5, <1>6, <1>7, <2>1, <2>2, CallWrites
<1> QED BY <1>8, <1>9 DEF Begin

LEMMA LeaseGiven ==
  ASSUME NEW me \in Locals
  PROVE  LeaseFrom(me) \in 0..Lease /\ (CallTime < Lease => LeaseFrom(me) + me.age = Lease)
<1>1. me.age \in 0..CallTime
  BY DEF Locals
<1> QED BY <1>1, CreationAssumption DEF LeaseFrom

LEMMA AdoptStep ==
  ASSUME PreRunInv, NEW w \in Workers, Adopt(w)
  PROVE  PreRunInv'
<1> DEFINE u == [worker[w] EXCEPT !.at = "adopted"]
<1>1. requestStarted
  BY MyCall DEF Adopt, UnmarkedPlaces, HoldingPlaces
<1>2. /\ worker[w] \in Locals /\ LocalFits(worker[w]) /\ "adopted" \in CallPlaces
      /\ worker[w].found \in 0..MaxPosts
  BY MyCall DEF CallPlaces, Before
<1>3. u \in Locals /\ u.at = "adopted"
  BY <1>2, LocalWritten
<1>4. Become(w, u) /\ UNCHANGED <<requestStarted, checks, posts, started, world>>
  BY DEF Adopt, Goto
<1> HIDE DEF u
<1>5. LocalFits(u)
  BY <1>1, <1>3 DEF LocalFits
<1>6. LeaseFrom(worker[w]) \in 0..Lease
  BY <1>2, LeaseGiven
<1>7. state' \in States /\ leaseLeft' \in 0..Lease /\ checkId' \in 0..MaxPosts /\ RowFits'
  BY <1>1, <1>2, <1>4, <1>6 DEF Adopt, States, RowFits, PreRunInv, TypeOK
<1>8. \A v \in Workers : ~Holding(v)
  BY <1>1 DEF Holding
<1> QED BY <1>1, <1>3, <1>4, <1>5, <1>7, <1>8, CallWrites

LEMMA ClaimStep ==
  ASSUME PreRunInv, CallTime < Lease, NEW w \in Workers, Claim(w)
  PROVE  PreRunInv'
<1>1. UNCHANGED <<requestStarted, checkId, checks, posts, started, world>>
  BY DEF Claim
<1>2. CASE GoIdle(w) /\ UNCHANGED <<state, leaseLeft>>
  BY <1>1, <1>2, CallEnds DEF row
<1>3. CASE state = "pending"
  <2> DEFINE u1 == [worker[w] EXCEPT !.at = "searching"]
             u2 == [u1 EXCEPT !.inTry = TRUE]
  <2>1. ~requestStarted /\ \A v \in Workers : ~Holding(v)
    BY <1>3 DEF PreRunInv, RowFits
  <2>2. state' = "creating" /\ leaseLeft' = LeaseFrom(worker[w]) /\ Become(w, u2)
    BY <1>3, Zenon DEF Claim
  <2>3. worker[w] \in Locals /\ LocalFits(worker[w]) /\ "searching" \in CallPlaces
    BY MyCall DEF CallPlaces, Before
  <2>4. /\ u1 \in Locals /\ u1.at = "searching" /\ u1.state = worker[w].state
        /\ u1.check = worker[w].check /\ u1.age = worker[w].age
    BY <2>3, LocalWritten
  <2> HIDE DEF u1
  <2>5. /\ u2 \in Locals /\ u2.at = "searching" /\ u2.state = worker[w].state
        /\ u2.check = worker[w].check /\ u2.age = worker[w].age
    BY <2>4, LocalWritten
  <2> HIDE DEF u2
  <2>6. LocalFits(u2)
    BY <2>1, <2>3, <2>5 DEF LocalFits, UnmarkedPlaces, HoldingPlaces
  <2>7. leaseLeft' \in 0..Lease /\ leaseLeft' + u2.age = Lease
    BY <2>2, <2>3, <2>5, LeaseGiven
  <2>8. state' \in States /\ checkId' \in 0..MaxPosts /\ RowFits'
    BY <1>1, <2>1, <2>2 DEF States, PreRunInv, TypeOK, RowFits
  <2> QED BY <1>1, <2>1, <2>2, <2>5, <2>6, <2>7, <2>8, CallWrites
<1> QED BY <1>2, <1>3 DEF Claim

LEMMA StoreStep ==
  ASSUME PreRunInv, NEW w \in Workers, Store(w)
  PROVE  PreRunInv'
<1> DEFINE u == [worker[w] EXCEPT !.at = "stored"]
<1>1. requestStarted
  BY MyCall DEF Store, UnmarkedPlaces, HoldingPlaces
<1>2. worker[w] \in Locals /\ "stored" \in CallPlaces /\ worker[w].found \in 0..MaxPosts
  BY MyCall DEF CallPlaces, After
<1>3. u \in Locals /\ u.at = "stored"
  BY <1>2, LocalWritten
<1>4. /\ Become(w, u)
      /\ UNCHANGED <<state, requestStarted, leaseLeft, checks, posts, started, world>>
  BY DEF Store, Goto
<1> HIDE DEF u
<1>5. LocalFits(u)
  BY <1>1, <1>3 DEF LocalFits
<1>6. state' \in States /\ leaseLeft' \in 0..Lease /\ checkId' \in 0..MaxPosts /\ RowFits'
  BY <1>1, <1>2, <1>4 DEF Store, RowFits, PreRunInv, TypeOK
<1> QED BY <1>1, <1>3, <1>4, <1>5, <1>6, CallWrites

LEMMA ActivateStep ==
  ASSUME PreRunInv, NEW w \in Workers, Activate(w)
  PROVE  PreRunInv'
<1>1. requestStarted /\ worker[w].check \in checks
  BY MyCall DEF Activate, UnmarkedPlaces, HoldingPlaces, LocalFits
<1>2. /\ Become(w, Idle) /\ Idle.at \notin HoldingPlaces
      /\ UNCHANGED <<requestStarted, checkId, checks, posts, started, world>>
  BY IdleCall DEF Activate, GoIdle, HoldingPlaces
<1>3. state' \in States /\ leaseLeft' \in 0..Lease /\ checkId' \in 0..MaxPosts
  BY <1>2, CreationAssumption DEF Activate, States, PreRunInv, TypeOK
<1>4. RowFits'
  BY <1>1, <1>2 DEF Activate, RowFits, PreRunInv
<1>5. \A v \in Workers : ~Holding(v)
  BY <1>1 DEF Holding
<1> QED BY <1>2, <1>3, <1>4, <1>5, IdleCall, CallWrites

LEMMA CatchStep ==
  ASSUME PreRunInv, NEW w \in Workers, Catch(w)
  PROVE  PreRunInv'
<1>1. /\ Become(w, Idle) /\ Idle.at \notin HoldingPlaces
      /\ UNCHANGED <<requestStarted, checkId, checks, posts, started, world>>
  BY IdleCall DEF Catch, GoIdle, HoldingPlaces
<1>2. \A v \in Workers \ {w} : ~Holding(v)
  BY DEF Catch, Holding, HoldingPlaces, PreRunInv
<1>3. state' \in States /\ leaseLeft' \in 0..Lease /\ checkId' \in 0..MaxPosts
  BY <1>1, CreationAssumption DEF Catch, Unclaimed, States, PreRunInv, TypeOK
<1>4. RowFits'
  BY <1>1 DEF Catch, Unclaimed, RowFits, PreRunInv
<1> QED BY <1>1, <1>2, <1>3, <1>4, IdleCall, CallWrites

LEMMA MarkStep ==
  ASSUME PreRunInv, NEW w \in Workers, MarkAndPost(w)
  PROVE  PreRunInv'
<1>1. CASE GoIdle(w) /\ UNCHANGED <<requestStarted, started, posts>>
  BY <1>1, CallEnds DEF MarkAndPost, row
<1>2. CASE ~(GoIdle(w) /\ UNCHANGED <<requestStarted, started, posts>>)
  <2> DEFINE u1 == [worker[w] EXCEPT !.at = "posting"]
             u2 == [u1 EXCEPT !.found = started']
             u3 == [u2 EXCEPT !.age = 0]
             post == [check |-> started', left |-> PostTime]
  <2>1. /\ state = "creating" /\ started < MaxPosts /\ requestStarted' = TRUE
        /\ started' = started + 1 /\ posts' = posts \cup {post} /\ Become(w, u3)
        /\ UNCHANGED <<state, leaseLeft, checkId, checks, world>>
    BY <1>2, Zenon DEF MarkAndPost
  <2>2. Holding(w) /\ worker[w] \in Locals /\ "posting" \in CallPlaces
    BY MyCall DEF MarkAndPost, CallPlaces, After
  <2>3. started = 0 /\ started' = 1 /\ checks = {} /\ posts = {} /\ MaxPosts \in Nat
    BY <2>1, <2>2, CreationAssumption DEF Holding, PreRunInv, RequestFits
  <2>4. 1 \in 0..MaxPosts /\ 1 \in 1..MaxPosts /\ 0 \in 0..CallTime
    BY <2>1, <2>3, CreationAssumption
  <2>5. u1 \in Locals /\ u1.at = "posting"
    BY <2>2, LocalWritten
  <2> HIDE DEF u1
  <2>6. u2 \in Locals /\ u2.at = "posting"
    <3>1. PICK n \in 0..MaxPosts : n = started'
      BY <2>3, <2>4
    <3> QED BY <2>5, <3>1, LocalWritten
  <2> HIDE DEF u2
  <2>7. u3 \in Locals /\ u3.at = "posting"
    BY <2>4, <2>6, LocalWritten
  <2> HIDE DEF u3
  <2>8. /\ worker' \in [Workers -> Locals] /\ worker'[w] = u3
        /\ \A v \in Workers : v # w => worker'[v] = worker[v]
    BY <2>1, <2>7 DEF Become, PreRunInv, TypeOK
  <2>9. TypeOK'
    <3>1. post \in [check : 1..MaxPosts, left : 0..PostTime]
      BY <2>3, <2>4, CreationAssumption
    <3> HIDE DEF post
    <3> QED BY <2>1, <2>3, <2>4, <2>8, <3>1 DEF PreRunInv, TypeOK, world
  <2>10. RequestFits'
    BY <2>1, <2>3 DEF RequestFits
  <2>11. RowFits' /\ \A v \in Workers : ~Holding(v)'
    BY <2>1 DEF RowFits, Holding
  <2>12. \A v \in Workers : LocalFits(worker[v])'
    <3>1. LocalFits(worker[w])'
      BY <2>1, <2>7, <2>8 DEF LocalFits
    <3>2. ASSUME NEW v \in Workers, v # w PROVE LocalFits(worker[v])'
      <4>1. worker'[v] = worker[v] /\ LocalFits(worker[v]) /\ ~Holding(v) /\ ~requestStarted
        BY <2>2, <2>8, <3>2 DEF PreRunInv, Holding
      <4> QED BY <2>1, <4>1 DEF LocalFits, Holding, UnmarkedPlaces, HoldingPlaces
    <3> QED BY <3>1, <3>2
  <2> QED BY <2>9, <2>10, <2>11, <2>12 DEF PreRunInv
<1> QED BY <1>1, <1>2

LEMMA PostStep ==
  ASSUME PreRunInv, NEW post \in posts, PostLands(post) \/ PostLost(post)
  PROVE  PreRunInv'
<1>1. UNCHANGED <<state, requestStarted, leaseLeft, checkId, started, worker, world>>
  BY DEF PostLands, PostLost, row
<1>2. /\ post.check \in 1..started /\ post.check \in 1..MaxPosts /\ posts' \subseteq posts
      /\ checks \subseteq checks' /\ checks' \subseteq checks \cup {post.check}
  BY DEF PostLands, PostLost, PreRunInv, TypeOK, RequestFits
<1>3. TypeOK' /\ RequestFits'
  BY <1>1, <1>2 DEF PreRunInv, TypeOK, world, RequestFits
<1>4. RowFits' /\ \A w \in Workers : LocalFits(worker[w])'
  BY <1>1, <1>2 DEF PreRunInv, RowFits, LocalFits
<1> QED BY <1>1, <1>3, <1>4 DEF PreRunInv, Holding

LEMMA TickStep ==
  ASSUME PreRunInv, CallTime < Lease, Tick
  PROVE  PreRunInv'
<1>1. UNCHANGED <<state, requestStarted, checkId, checks, started, world>>
  BY DEF Tick
<1>2. leaseLeft \in 0..Lease /\ leaseLeft' \in 0..Lease
  BY CreationAssumption DEF Tick, PreRunInv, TypeOK
<1>3. \A post \in posts : /\ [post EXCEPT !.left = post.left - 1] \in [check : 1..MaxPosts, left : 0..PostTime]
                          /\ [post EXCEPT !.left = post.left - 1].check = post.check
  <2> TAKE post \in posts
  <2>1. post \in [check : 1..MaxPosts, left : 0..PostTime] /\ post.left > 0
    BY DEF PreRunInv, TypeOK, Tick
  <2>2. post.left - 1 \in 0..PostTime
    BY <2>1, CreationAssumption
  <2> QED BY <2>1, <2>2
<1>4. posts' = {[post EXCEPT !.left = post.left - 1] : post \in posts}
  BY Zenon DEF Tick
<1>5. /\ posts' \subseteq [check : 1..MaxPosts, left : 0..PostTime]
      /\ \A q \in posts' : \E post \in posts : q.check = post.check
  BY <1>3, <1>4
<1>6. ASSUME NEW w \in Workers
      PROVE  /\ worker'[w] \in Locals /\ worker'[w].at = worker[w].at
             /\ worker'[w].state = worker[w].state /\ worker'[w].check = worker[w].check
             /\ worker'[w].age = IF Timed(w) THEN worker[w].age + 1 ELSE worker[w].age
  <2> DEFINE u == [worker[w] EXCEPT !.age = worker[w].age + 1]
  <2>1. worker'[w] = IF Timed(w) THEN u ELSE worker[w]
    BY Zenon DEF Tick
  <2>2. worker[w] \in Locals /\ worker[w].age \in 0..CallTime
    BY MyCall
  <2>3. CASE Timed(w)
    <3>1. worker[w].age + 1 \in 0..CallTime
      BY <2>2, <2>3, CreationAssumption DEF Tick
    <3>2. /\ u \in Locals /\ u.at = worker[w].at /\ u.state = worker[w].state
          /\ u.check = worker[w].check /\ u.age = worker[w].age + 1
      BY <2>2, <3>1, LocalWritten
    <3> QED BY <2>1, <2>3, <3>2
  <2> QED BY <2>1, <2>2, <2>3
<1>7. worker' \in [Workers -> Locals]
  <2>1. worker' = [w \in Workers |-> worker'[w]]
    BY Zenon DEF Tick
  <2> QED BY <1>6, <2>1
<1>8. TypeOK'
  BY <1>1, <1>2, <1>5, <1>7 DEF PreRunInv, TypeOK, world
<1>9. RequestFits' /\ RowFits'
  BY <1>1, <1>5 DEF PreRunInv, RequestFits, RowFits
<1>10. \A w \in Workers : LocalFits(worker[w])' /\ (Holding(w)' <=> Holding(w))
  BY <1>1, <1>6 DEF PreRunInv, LocalFits, Holding
<1>11. ASSUME NEW w \in Workers, Holding(w)
       PROVE  state' = "creating" /\ leaseLeft' + worker'[w].age = Lease
  <2>1. Timed(w) /\ leaseLeft > 0 /\ state = "creating" /\ leaseLeft + worker[w].age = Lease
    BY <1>11, HeldIsRunning DEF Timed, Holding, HoldingPlaces, Before, PreRunInv
  <2>2. worker[w].age \in 0..CallTime /\ leaseLeft' = leaseLeft - 1 /\ worker'[w].age = worker[w].age + 1
    BY <1>6, <2>1, MyCall DEF Tick
  <2> QED BY <1>1, <1>2, <2>1, <2>2, CreationAssumption
<1> QED BY <1>8, <1>9, <1>10, <1>11 DEF PreRunInv

LEMMA PreRunInvStep ==
  ASSUME CallTime < Lease
  PROVE  PreRunInv /\ [Next]_vars => PreRunInv'
<1> SUFFICES ASSUME PreRunInv, [Next]_vars PROVE PreRunInv'
  OBVIOUS
<1>1. CASE UNCHANGED vars
  BY <1>1 DEF vars, row, world, PreRunInv, TypeOK, RequestFits, RowFits, LocalFits, Holding
<1>2. CASE OutageEnds \/ CandidateChanges
  <2>1. /\ UNCHANGED <<row, checks, posts, started, worker>>
        /\ current' \in BOOLEAN /\ outage' \in BOOLEAN
    BY <1>2 DEF OutageEnds, CandidateChanges, PreRunInv, TypeOK
  <2> QED BY <2>1 DEF row, PreRunInv, TypeOK, RequestFits, RowFits, LocalFits, Holding
<1>3. ASSUME NEW w \in Workers, ReadRow(w) \/ Call(w) \/ Crash(w) PROVE PreRunInv'
  BY <1>3, ReadingStep, MovingStep, LookStep, SearchStep, BeginStep, AdoptStep, ClaimStep, StoreStep,
     ActivateStep, CatchStep, MarkStep DEF Call
<1> QED BY <1>1, <1>2, <1>3, PostStep, TickStep DEF Next

LEMMA PreRunInvInit == Init => PreRunInv
<1> SUFFICES ASSUME Init PROVE PreRunInv
  OBVIOUS
<1>1. \A w \in Workers : worker[w] = Idle
  BY DEF Init
<1>2. TypeOK
  <2>1. worker \in [Workers -> Locals]
    BY IdleCall DEF Init
  <2>2. state \in States /\ requestStarted \in BOOLEAN /\ current \in BOOLEAN /\ outage \in BOOLEAN
    BY DEF Init, States
  <2>3. leaseLeft \in 0..Lease /\ checkId \in 0..MaxPosts /\ started \in 0..MaxPosts
    BY CreationAssumption DEF Init
  <2>4. checks \subseteq 1..MaxPosts /\ posts \subseteq [check : 1..MaxPosts, left : 0..PostTime]
    BY Zenon DEF Init
  <2> QED BY <2>1, <2>2, <2>3, <2>4 DEF TypeOK
<1>3. RequestFits /\ RowFits
  BY DEF Init, RequestFits, RowFits
<1> QED BY <1>1, <1>2, <1>3, IdleCall DEF PreRunInv, Holding, HoldingPlaces

(* The claim of a row whose POST was not sent is of one call at a time, as *)
(* long as a call reaches its mark within the lease of its claim.          *)
THEOREM CandidateClaims ==
  ASSUME CallTime < Lease
  PROVE  Spec => []PreRunInv
BY PreRunInvInit, PreRunInvStep, PTL DEF Spec

(* "A failed POST is ambiguous. Never make a second POST after it has      *)
(* started."  And an active row names the only check with its identity.    *)
THEOREM OneCheckOfCandidateStays ==
  ASSUME CallTime < Lease
  PROVE  Spec => []OneCheckOfCandidate
<1>1. PreRunInv => OneCheckOfCandidate
  <2> SUFFICES ASSUME PreRunInv PROVE OneCheckOfCandidate
    OBVIOUS
  <2>1. (started = 0 \/ started = 1) /\ checks \subseteq 1..started
    BY DEF PreRunInv, RequestFits
  <2>2. state = "active" => checkId \in checks
    BY DEF PreRunInv, RowFits
  <2>3. checks \subseteq {1}
    BY <2>1
  <2>4. state = "active" => checks = {checkId}
    BY <2>2, <2>3
  <2>5. started <= 1
    BY <2>1
  <2> QED BY <2>4, <2>5 DEF OneCheckOfCandidate
<1> QED BY <1>1, CandidateClaims, PTL

\* What CandidateCheck maps: the row is done when it is active.
NamedCheck == IF state = "active" THEN {checkId} ELSE {}

IdentityOK ==
  /\ started = 0 \/ started = 1
  /\ checks = {} \/ checks = 1..started
  /\ NamedCheck = {} \/ NamedCheck = checks
  /\ state = "active" => NamedCheck = 1..started /\ started = 1

LEMMA IdentityFacts == PreRunInv => IdentityOK
<1> SUFFICES ASSUME PreRunInv PROVE IdentityOK
  OBVIOUS
<1>1. (started = 0 \/ started = 1) /\ checks \subseteq 1..started
  BY DEF PreRunInv, RequestFits
<1>2. checks = {} \/ checks = 1..started
  <2>1. CASE started = 0
    BY <1>1, <2>1
  <2>2. CASE started = 1
    <3>1. 1..started = {1}
      BY <2>2
    <3> QED BY <1>1, <3>1
  <2> QED BY <1>1, <2>1, <2>2
<1>3. ASSUME state = "active"
      PROVE  NamedCheck = 1..started /\ started = 1 /\ checks = 1..started
  <2>1. checkId \in checks /\ NamedCheck = {checkId}
    BY <1>3 DEF PreRunInv, RowFits, NamedCheck
  <2>2. \A x \in 1..started : started = 1 /\ x = 1
    BY <1>1
  <2>3. started = 1 /\ checkId = 1
    BY <1>1, <2>1, <2>2
  <2>4. 1..started = {1}
    BY <2>3
  <2> QED BY <1>1, <2>1, <2>3, <2>4
<1>4. state # "active" => NamedCheck = {}
  BY DEF NamedCheck
<1> QED BY <1>1, <1>2, <1>3, <1>4 DEF IdentityOK

\* One step sends, or creates a check, or writes the row; and an active row
\* stays active.
LEMMA OneAtATime ==
  ASSUME PreRunInv, [Next]_vars
  PROVE  /\ state = "active" => state' = "active"
         /\ \/ UNCHANGED <<started, checks>>
            \/ started' = started + 1 /\ UNCHANGED <<checks, state, checkId>>
            \/ checks \subseteq checks' /\ UNCHANGED <<started, state, checkId>>
<1>1. ASSUME NEW w \in Workers, ReadRow(w) \/ Call(w) \/ Crash(w)
      PROVE  /\ state = "active" => state' = "active"
             /\ \/ UNCHANGED <<started, checks>>
                \/ started' = started + 1 /\ UNCHANGED <<checks, state, checkId>>
  <2>1. CASE ReadRow(w) \/ Begin(w) \/ Reread(w) \/ Decide(w) \/ Look(w) \/ Adopt(w) \/ Adopted(w)
    BY <2>1 DEF ReadRow, Begin, Reread, Decide, Look, Adopt, Adopted, row
  <2>2. CASE Claim(w) \/ Search(w) \/ Answered(w) \/ Store(w) \/ Stored(w) \/ Verify(w)
    BY <2>2 DEF Claim, Search, Answered, Store, Stored, Verify, row
  <2>3. CASE Activate(w) \/ Fails(w) \/ Catch(w) \/ Crash(w)
    BY <2>3 DEF Activate, Fails, Catch, Crash, row
  <2>4. CASE MarkAndPost(w)
    BY <2>4 DEF MarkAndPost
  <2> QED BY <1>1, <2>1, <2>2, <2>3, <2>4 DEF Call
<1>2. ASSUME NEW post \in posts, PostLands(post) \/ PostLost(post)
      PROVE  checks \subseteq checks' /\ UNCHANGED <<started, state, checkId>>
  BY <1>2 DEF PostLands, PostLost, row
<1>3. CASE Tick \/ CandidateChanges \/ OutageEnds \/ UNCHANGED vars
  BY <1>3 DEF Tick, CandidateChanges, OutageEnds, vars, row, world
<1> QED BY <1>1, <1>2, <1>3 DEF Next

LEMMA IdentityStep ==
  ASSUME PreRunInv, IdentityOK, IdentityOK', [Next]_vars
  PROVE  [CandidateCheck!Next]_(CandidateCheck!identity)
<1>1. /\ started = 0 \/ started = 1
      /\ checks = {} \/ checks = 1..started
      /\ NamedCheck = {} \/ NamedCheck = checks
      /\ state = "active" => NamedCheck = 1..started /\ started = 1
  BY DEF IdentityOK
<1>2. /\ started' = 0 \/ started' = 1
      /\ checks' = {} \/ checks' = 1..started'
      /\ NamedCheck' = {} \/ NamedCheck' = checks'
      /\ state' = "active" => NamedCheck' = 1..started' /\ started' = 1
  BY DEF IdentityOK
<1>3. state # "active" => NamedCheck = {}
  BY DEF NamedCheck
<1>4. state' # "active" => NamedCheck' = {}
  BY DEF NamedCheck
<1>5. NamedCheck # {} => NamedCheck' # {}
  <2> SUFFICES ASSUME NamedCheck # {} PROVE NamedCheck' # {}
    OBVIOUS
  <2>1. state' = "active"
    BY <1>3, OneAtATime
  <2>2. 1 \in 1..started'
    BY <1>2, <2>1
  <2> QED BY <1>2, <2>1, <2>2
<1>6. CASE UNCHANGED <<started, checks>>
  <2>1. NamedCheck' = NamedCheck \/ (NamedCheck = {} /\ NamedCheck' = checks)
    BY <1>1, <1>2, <1>5, <1>6
  <2> QED
    BY <1>6, <2>1 DEF CandidateCheck!Next, CandidateCheck!Name, CandidateCheck!identity, NamedCheck
<1>7. CASE started' = started + 1 /\ UNCHANGED <<checks, state, checkId>>
  <2>1. started = 0 /\ started' = 1
    BY <1>1, <1>2, <1>7
  <2>2. NamedCheck' = NamedCheck
    BY <1>7 DEF NamedCheck
  <2> QED BY <1>7, <2>1, <2>2 DEF CandidateCheck!Next, CandidateCheck!Request, NamedCheck
<1>8. CASE checks \subseteq checks' /\ UNCHANGED <<started, state, checkId>>
  <2>1. NamedCheck' = NamedCheck
    BY <1>8 DEF NamedCheck
  <2>2. checks' = checks \/ (checks = {} /\ checks' = 1..started)
    BY <1>1, <1>2, <1>8
  <2> QED
    BY <1>8, <2>1, <2>2 DEF CandidateCheck!Next, CandidateCheck!Make, CandidateCheck!identity, NamedCheck
<1> QED BY <1>6, <1>7, <1>8, OneAtATime

(* ensureStoredCheck implements the promise of one identity: whichever     *)
(* calls overlap, as long as each comes to its mark within its lease, and  *)
(* an active row names the only check of its candidate for good.           *)
THEOREM CandidateImplementsIdentity ==
  ASSUME CallTime < Lease
  PROVE  Spec => CandidateKeepsOneCheck
<1>1. Init => CandidateCheck!Init
  BY DEF Init, CandidateCheck!Init
<1>2. PreRunInv /\ IdentityOK /\ IdentityOK' /\ [Next]_vars
        => [CandidateCheck!Next]_(CandidateCheck!identity)
  BY IdentityStep
<1> QED
  BY <1>1, <1>2, IdentityFacts, CandidateClaims, PTL
  DEF Spec, CandidateKeepsOneCheck, CandidateCheck!Spec

-----------------------------------------------------------------------------
(* Deliveries that passes ask for.                                         *)
Entries == [guid : Guids, ok : BOOLEAN]
RecoveryRows == [listed : BOOLEAN, attempts : 0..MaxRequests, waits : BOOLEAN, resolved : BOOLEAN]
ScanLocals == [at : Places, from : Nat, seen : SUBSET Nat, next : Nat, todo : SUBSET Nat,
               attempts : Nat]

\* The requests for a delivery that were charged and are on their way.
Numbers(g) ==
  { n \in 0..MaxRequests - 1 :
      \E s \in Scanners : scan[s].at = "asking" /\ Delivery(s) = g /\ scan[s].attempts = n }

DeliveryTypes ==
  /\ log \in Seq(Entries) /\ cursor \in Nat
  /\ recovery \in [Guids -> RecoveryRows] /\ asked \in [Guids -> Nat]
  /\ scan \in [Scanners -> ScanLocals]
  /\ \A s \in Scanners : scan[s].todo \subseteq 1..Len(log) /\ scan[s].seen \subseteq 1..Len(log)

Claims ==
  \A s \in Scanners : scan[s].at \in {"claiming", "asking"}
    => scan[s].todo # {} /\ scan[s].attempts < MaxRequests

\* Each charge raised the attempts, so that no two are of one number.
Charges ==
  /\ \A s \in Scanners :
       scan[s].at = "asking" => scan[s].attempts < recovery[Delivery(s)].attempts
  /\ \A s, t \in Scanners :
       scan[s].at = "asking" /\ scan[t].at = "asking" /\ Delivery(s) = Delivery(t)
         /\ scan[s].attempts = scan[t].attempts => s = t

AskInv ==
  /\ DeliveryTypes /\ Claims /\ Charges
  /\ \A g \in Guids : asked[g] + Cardinality(Numbers(g)) <= recovery[g].attempts

LEMMA LeastIsIn ==
  ASSUME NEW S \in SUBSET Nat, S # {}
  PROVE  \E x \in S : \A y \in S : x <= y
<1>1. PICK x \in S : \A y \in S : <<y, x>> \notin OpToRel(<, Nat)
  BY NatLessThanWellFounded, WFMin
<1>2. \A y \in S : ~(y < x)
  BY <1>1 DEF OpToRel
<1> QED BY <1>2

LEMMA GreatestIsIn ==
  ASSUME NEW n \in Nat, NEW S \in SUBSET (1..n), S # {}
  PROVE  Max(S) \in S
<1> DEFINE T == { n - x : x \in S }
<1>1. \A x \in S : x \in Nat /\ n - x \in Nat
  OBVIOUS
<1>2. T \in SUBSET Nat /\ T # {}
  BY <1>1
<1>3. PICK m \in T : \A y \in T : m <= y
  BY <1>2, LeastIsIn
<1>4. PICK x \in S : m = n - x
  OBVIOUS
<1>5. \A y \in S : x >= y
  <2> TAKE y \in S
  <2>1. n - y \in T
    OBVIOUS
  <2>2. n - x <= n - y
    BY <1>3, <1>4, <2>1
  <2> HIDE DEF T
  <2> QED BY <1>1, <2>2
<1> QED BY <1>5 DEF Max

LEMMA EntryIsIn ==
  ASSUME DeliveryTypes, NEW s \in Scanners, scan[s].todo # {}
  PROVE  /\ Entry(s) \in scan[s].todo /\ Entry(s) \in 1..Len(log)
         /\ Delivery(s) \in Guids
<1>1. scan[s].todo \in SUBSET (1..Len(log)) /\ Len(log) \in Nat
  BY DEF DeliveryTypes
<1>2. Entry(s) \in scan[s].todo
  BY <1>1, GreatestIsIn DEF Entry
<1>3. log[Entry(s)] \in Entries
  BY <1>1, <1>2 DEF DeliveryTypes
<1> QED BY <1>1, <1>2, <1>3 DEF Delivery, Entries

LEMMA NumbersCount ==
  /\ \A g : IsFiniteSet(Numbers(g)) /\ Cardinality(Numbers(g)) \in Nat
  /\ \A g, S : S \subseteq Numbers(g) => Cardinality(S) <= Cardinality(Numbers(g)) /\ Cardinality(S) \in Nat
<1>1. IsFiniteSet(0..MaxRequests - 1)
  BY FS_Interval, DeliveriesAssumption
<1>2. \A g : Numbers(g) \in SUBSET (0..MaxRequests - 1)
  BY DEF Numbers
<1>3. \A g : IsFiniteSet(Numbers(g))
  BY <1>1, <1>2, FS_Subset
<1>4. ASSUME NEW g, NEW S, S \subseteq Numbers(g)
      PROVE  Cardinality(S) <= Cardinality(Numbers(g)) /\ Cardinality(S) \in Nat
  <2>1. S \in SUBSET Numbers(g)
    BY <1>4
  <2> QED BY <1>3, <2>1, FS_Subset, FS_CardinalityType
<1>5. \A g : Cardinality(Numbers(g)) \in Nat
  BY <1>3, FS_CardinalityType
<1> QED BY <1>3, <1>4, <1>5

LEMMA ScanWritten ==
  ASSUME NEW me \in ScanLocals
  PROVE  /\ \A x \in Places : LET u == [me EXCEPT !.at = x] IN
              u \in ScanLocals /\ u.at = x /\ u.seen = me.seen /\ u.todo = me.todo /\ u.attempts = me.attempts
         /\ \A x \in Nat : LET u == [me EXCEPT !.from = x] IN
              u \in ScanLocals /\ u.at = me.at /\ u.seen = me.seen /\ u.todo = me.todo /\ u.attempts = me.attempts
         /\ \A x \in SUBSET Nat : LET u == [me EXCEPT !.seen = x] IN
              u \in ScanLocals /\ u.at = me.at /\ u.seen = x /\ u.todo = me.todo /\ u.attempts = me.attempts
         /\ \A x \in Nat : LET u == [me EXCEPT !.next = x] IN
              u \in ScanLocals /\ u.at = me.at /\ u.seen = me.seen /\ u.todo = me.todo /\ u.attempts = me.attempts
         /\ \A x \in SUBSET Nat : LET u == [me EXCEPT !.todo = x] IN
              u \in ScanLocals /\ u.at = me.at /\ u.seen = me.seen /\ u.todo = x /\ u.attempts = me.attempts
         /\ \A x \in Nat : LET u == [me EXCEPT !.attempts = x] IN
              u \in ScanLocals /\ u.at = me.at /\ u.seen = me.seen /\ u.todo = me.todo /\ u.attempts = x
  BY DEF ScanLocals

\* The attempts of a row change only by a charge.
SameCharges ==
  /\ recovery' \in [Guids -> RecoveryRows]
  /\ \A g \in Guids : recovery'[g].attempts = recovery[g].attempts

\* A step of a pass that charges nothing and asks for nothing.
LEMMA ScanGoes ==
  ASSUME AskInv, NEW s \in Scanners, NEW me \in ScanLocals, Scan(s, me),
         UNCHANGED <<log, asked>>, cursor' \in Nat, SameCharges,
         me.todo \subseteq 1..Len(log), me.seen \subseteq 1..Len(log), me.at # "asking",
         me.at = "claiming" => me.todo # {} /\ me.attempts < MaxRequests
  PROVE  AskInv'
<1>1. /\ scan' \in [Scanners -> ScanLocals] /\ scan'[s] = me
      /\ \A t \in Scanners : t # s => scan'[t] = scan[t]
  BY DEF Scan, AskInv, DeliveryTypes
<1>2. DeliveryTypes'
  BY <1>1 DEF AskInv, DeliveryTypes, SameCharges
<1>3. Claims'
  BY <1>1 DEF AskInv, Claims
<1>4. \A t \in Scanners : scan'[t].at = "asking" =>
        /\ t # s /\ scan'[t] = scan[t] /\ Delivery(t)' = Delivery(t) /\ Delivery(t) \in Guids
  <2> SUFFICES ASSUME NEW t \in Scanners, scan'[t].at = "asking"
               PROVE  t # s /\ scan'[t] = scan[t] /\ Delivery(t)' = Delivery(t) /\ Delivery(t) \in Guids
    OBVIOUS
  <2>1. t # s /\ scan'[t] = scan[t] /\ scan[t].at = "asking"
    BY <1>1
  <2>2. Delivery(t)' = Delivery(t)
    BY <2>1 DEF Delivery, Entry
  <2>3. Delivery(t) \in Guids
    BY <2>1, EntryIsIn DEF AskInv, Claims
  <2> QED BY <2>1, <2>2, <2>3
<1>5. Charges'
  <2>1. \A t \in Scanners : scan'[t].at = "asking" => scan'[t].attempts < recovery'[Delivery(t)'].attempts
    BY <1>4 DEF AskInv, Charges, SameCharges
  <2>2. \A t, u \in Scanners :
          scan'[t].at = "asking" /\ scan'[u].at = "asking" /\ Delivery(t)' = Delivery(u)'
            /\ scan'[t].attempts = scan'[u].attempts => t = u
    BY <1>4 DEF AskInv, Charges
  <2> QED BY <2>1, <2>2 DEF Charges
<1>6. ASSUME NEW g \in Guids PROVE (asked[g] + Cardinality(Numbers(g)) <= recovery[g].attempts)'
  <2>1. Numbers(g)' \subseteq Numbers(g)
    BY <1>4 DEF Numbers
  <2>2. Cardinality(Numbers(g)') <= Cardinality(Numbers(g)) /\ Cardinality(Numbers(g)') \in Nat
    BY <2>1, NumbersCount
  <2>3. /\ asked[g] \in Nat /\ recovery[g].attempts \in Nat
        /\ asked[g] + Cardinality(Numbers(g)) <= recovery[g].attempts
    BY DEF AskInv, DeliveryTypes, RecoveryRows
  <2>4. Cardinality(Numbers(g)) \in Nat
    BY NumbersCount
  <2> QED BY <2>2, <2>3, <2>4 DEF SameCharges
<1> QED BY <1>2, <1>3, <1>5, <1>6 DEF AskInv
\* A step that leaves the passes alone; GitHub may add an entry to its log.
LEMMA ScansRest ==
  ASSUME AskInv, UNCHANGED <<scan, asked, cursor>>, SameCharges,
         log' \in Seq(Entries), Len(log) <= Len(log'),
         \A id \in 1..Len(log) : log'[id] = log[id]
  PROVE  AskInv'
<1>1. DeliveryTypes'
  <2>1. Len(log) \in Nat /\ Len(log') \in Nat
    BY DEF AskInv, DeliveryTypes
  <2> QED BY <2>1 DEF AskInv, DeliveryTypes, SameCharges
<1>2. Claims'
  BY DEF AskInv, Claims
<1>3. \A t \in Scanners : scan'[t].at = "asking" =>
        /\ scan'[t] = scan[t] /\ Delivery(t)' = Delivery(t) /\ Delivery(t) \in Guids
  <2> SUFFICES ASSUME NEW t \in Scanners, scan[t].at = "asking"
               PROVE  Delivery(t)' = Delivery(t) /\ Delivery(t) \in Guids
    OBVIOUS
  <2>1. Entry(t) \in 1..Len(log) /\ Delivery(t) \in Guids
    BY EntryIsIn DEF AskInv, Claims
  <2>2. Entry(t)' = Entry(t)
    BY DEF Entry
  <2>3. log'[Entry(t)] = log[Entry(t)]
    BY <2>1
  <2> QED BY <2>1, <2>2, <2>3 DEF Delivery
<1>4. Charges'
  <2>1. \A t \in Scanners : scan'[t].at = "asking" => scan'[t].attempts < recovery'[Delivery(t)'].attempts
    BY <1>3 DEF AskInv, Charges, SameCharges
  <2>2. \A t, u \in Scanners :
          scan'[t].at = "asking" /\ scan'[u].at = "asking" /\ Delivery(t)' = Delivery(u)'
            /\ scan'[t].attempts = scan'[u].attempts => t = u
    BY <1>3 DEF AskInv, Charges
  <2> QED BY <2>1, <2>2 DEF Charges
<1>5. ASSUME NEW g \in Guids PROVE (asked[g] + Cardinality(Numbers(g)) <= recovery[g].attempts)'
  <2>1. Numbers(g)' \subseteq Numbers(g)
    BY <1>3 DEF Numbers
  <2>2. Cardinality(Numbers(g)') <= Cardinality(Numbers(g)) /\ Cardinality(Numbers(g)') \in Nat
    BY <2>1, NumbersCount
  <2>3. /\ asked[g] \in Nat /\ recovery[g].attempts \in Nat
        /\ asked[g] + Cardinality(Numbers(g)) <= recovery[g].attempts
    BY DEF AskInv, DeliveryTypes, RecoveryRows
  <2>4. Cardinality(Numbers(g)) \in Nat
    BY NumbersCount
  <2> QED BY <2>2, <2>3, <2>4 DEF SameCharges
<1> QED BY <1>1, <1>2, <1>4, <1>5 DEF AskInv

LEMMA RowUnchanged == AskInv /\ UNCHANGED recovery => SameCharges
  BY DEF AskInv, DeliveryTypes, SameCharges

\* A row that is written with its attempts.
LEMMA RowKept ==
  ASSUME AskInv, NEW g \in Guids, NEW r \in RecoveryRows, r.attempts = recovery[g].attempts,
         recovery' = [recovery EXCEPT ![g] = r]
  PROVE  SameCharges
  BY DEF AskInv, DeliveryTypes, SameCharges

LEMMA SettleKeeps ==
  ASSUME AskInv, NEW g \in Guids, Settle(g)
  PROVE  SameCharges
<1> DEFINE r == [recovery[g] EXCEPT !.resolved = recovery[g].listed]
<1>1. recovery[g] \in RecoveryRows
  BY DEF AskInv, DeliveryTypes
<1>2. r \in RecoveryRows /\ r.attempts = recovery[g].attempts
  BY <1>1 DEF RecoveryRows
<1>3. recovery' = [recovery EXCEPT ![g] = r]
  BY DEF Settle
<1> HIDE DEF r
<1> QED BY <1>2, <1>3, RowKept

LEMMA IdleIsScan ==
  /\ IdleScan \in ScanLocals /\ IdleScan.at = "idle" /\ IdleScan.todo = {} /\ IdleScan.seen = {}
  BY DEF IdleScan, ScanLocals, Places

LEMMA MyScan ==
  ASSUME AskInv, NEW s \in Scanners
  PROVE  /\ scan[s] \in ScanLocals /\ scan[s].todo \subseteq 1..Len(log)
         /\ scan[s].seen \subseteq 1..Len(log) /\ scan[s].attempts \in Nat /\ scan[s].next \in Nat
         /\ scan[s].from \in Nat /\ Len(log) \in Nat /\ 1..Len(log) \subseteq Nat
  BY DEF AskInv, DeliveryTypes, ScanLocals

LEMMA DoneGoes ==
  ASSUME AskInv, NEW s \in Scanners, Done(s), UNCHANGED <<log, asked>>, cursor' \in Nat, SameCharges
  PROVE  AskInv'
<1> DEFINE u1 == [scan[s] EXCEPT !.at = "entry"]
           rest == scan[s].todo \ {Entry(s)}
           u2 == [u1 EXCEPT !.todo = rest]
<1>1. Scan(s, u2)
  BY Zenon DEF Done
<1>2. scan[s] \in ScanLocals /\ "entry" \in Places
  BY MyScan DEF Places
<1>3. u1 \in ScanLocals /\ u1.at = "entry" /\ u1.seen = scan[s].seen
  BY <1>2, ScanWritten
<1> HIDE DEF u1
<1>4. rest \in SUBSET Nat /\ rest \subseteq 1..Len(log) /\ scan[s].seen \subseteq 1..Len(log)
  BY MyScan
<1> HIDE DEF rest
<1>5. u2 \in ScanLocals /\ u2.at = "entry" /\ u2.seen = scan[s].seen /\ u2.todo = rest
  BY <1>3, <1>4, ScanWritten
<1> HIDE DEF u2
<1> QED BY <1>1, <1>4, <1>5, ScanGoes

LEMMA IdleGoes ==
  ASSUME AskInv, NEW s \in Scanners, Scan(s, IdleScan), UNCHANGED <<log, asked, recovery, cursor>>
  PROVE  AskInv'
<1>1. cursor' \in Nat /\ SameCharges
  BY RowUnchanged DEF AskInv, DeliveryTypes
<1> QED BY <1>1, IdleIsScan, ScanGoes

LEMMA PageFits ==
  ASSUME AskInv, NEW n
  PROVE  Page(n) \in SUBSET Nat /\ Page(n) \subseteq 1..Len(log) /\ NextCursor(Page(n)) \in Nat
<1>1. Page(n) \in SUBSET Nat /\ Page(n) \subseteq 1..Len(log)
  BY MyScan DEF Page, AskInv, DeliveryTypes
<1>2. Page(n) # {} => Min(Page(n)) \in Page(n)
  <2> SUFFICES ASSUME Page(n) # {} PROVE Min(Page(n)) \in Page(n)
    OBVIOUS
  <2>1. \E x \in Page(n) : \A y \in Page(n) : x <= y
    BY <1>1, LeastIsIn
  <2> QED BY <2>1 DEF Min
<1> QED BY <1>1, <1>2 DEF NextCursor

LEMMA ReadNewestStep ==
  ASSUME AskInv, NEW s \in Scanners, ReadNewest(s)
  PROVE  AskInv'
<1> DEFINE page == Page(Len(log) + 1)
           place == IF cursor = 0 THEN "storing" ELSE "older"
           u1 == [IdleScan EXCEPT !.at = place]
           u2 == [u1 EXCEPT !.from = cursor]
           u3 == [u2 EXCEPT !.seen = page]
           u4 == [u3 EXCEPT !.next = NextCursor(page)]
<1>1. Scan(s, u4) /\ UNCHANGED <<log, asked, recovery, cursor>>
  BY Zenon DEF ReadNewest, rows
<1>2. page \in SUBSET Nat /\ page \subseteq 1..Len(log) /\ NextCursor(page) \in Nat
  BY PageFits
<1> HIDE DEF page
<1>3. cursor \in Nat /\ place \in Places /\ place # "asking" /\ place # "claiming"
  BY DEF AskInv, DeliveryTypes, Places
<1> HIDE DEF place
<1>4. u1 \in ScanLocals /\ u1.at = place /\ u1.todo = {}
  BY <1>3, IdleIsScan, ScanWritten
<1> HIDE DEF u1
<1>5. u2 \in ScanLocals /\ u2.at = place /\ u2.todo = {}
  BY <1>3, <1>4, ScanWritten
<1> HIDE DEF u2
<1>6. u3 \in ScanLocals /\ u3.at = place /\ u3.todo = {} /\ u3.seen = page
  <2>1. page \in SUBSET Nat
    BY <1>2
  <2> QED BY <1>5, <2>1, ScanWritten
<1> HIDE DEF u3
<1>7. u4 \in ScanLocals /\ u4.at = place /\ u4.todo = {} /\ u4.seen = page
  BY <1>2, <1>6, ScanWritten
<1> HIDE DEF u4
<1>8. SameCharges /\ cursor' \in Nat
  BY <1>1, <1>3, RowUnchanged
<1> QED BY <1>1, <1>2, <1>3, <1>7, <1>8, ScanGoes

LEMMA ReadOlderStep ==
  ASSUME AskInv, NEW s \in Scanners, ReadOlder(s)
  PROVE  AskInv'
<1> DEFINE page == Page(scan[s].from)
           both == scan[s].seen \cup page
           u1 == [scan[s] EXCEPT !.at = "storing"]
           u2 == [u1 EXCEPT !.seen = both]
           u3 == [u2 EXCEPT !.next = NextCursor(page)]
<1>1. Scan(s, u3) /\ UNCHANGED <<log, asked, recovery, cursor>>
  BY Zenon DEF ReadOlder, rows
<1>2. page \in SUBSET Nat /\ page \subseteq 1..Len(log) /\ NextCursor(page) \in Nat
  BY PageFits
<1> HIDE DEF page
<1>3. /\ both \in SUBSET Nat /\ both \subseteq 1..Len(log) /\ scan[s].todo \subseteq 1..Len(log)
      /\ scan[s] \in ScanLocals /\ "storing" \in Places
  BY <1>2, MyScan DEF Places
<1> HIDE DEF both
<1>4. u1 \in ScanLocals /\ u1.at = "storing" /\ u1.todo = scan[s].todo
  BY <1>3, ScanWritten
<1> HIDE DEF u1
<1>5. u2 \in ScanLocals /\ u2.at = "storing" /\ u2.todo = scan[s].todo /\ u2.seen = both
  BY <1>3, <1>4, ScanWritten
<1> HIDE DEF u2
<1>6. u3 \in ScanLocals /\ u3.at = "storing" /\ u3.todo = scan[s].todo /\ u3.seen = both
  BY <1>2, <1>5, ScanWritten
<1> HIDE DEF u3
<1>7. SameCharges /\ cursor' \in Nat
  BY <1>1, RowUnchanged DEF AskInv, DeliveryTypes
<1> QED BY <1>1, <1>3, <1>6, <1>7, ScanGoes

LEMMA StoreCursorStep ==
  ASSUME AskInv, NEW s \in Scanners, StoreCursor(s)
  PROVE  AskInv'
<1> DEFINE left == Deciding(scan[s].seen)
           u1 == [scan[s] EXCEPT !.at = "entry"]
           u2 == [u1 EXCEPT !.seen = {}]
           u3 == [u2 EXCEPT !.todo = left]
<1>1. Scan(s, u3) /\ UNCHANGED <<log, asked, recovery>> /\ cursor' = scan[s].next
  BY Zenon DEF StoreCursor, NextPlace
<1>2. left \in SUBSET Nat /\ left \subseteq 1..Len(log) /\ {} \in SUBSET Nat /\ {} \subseteq 1..Len(log)
  BY MyScan DEF Deciding
<1> HIDE DEF left
<1>3. scan[s] \in ScanLocals /\ "entry" \in Places
  BY MyScan DEF Places
<1>4. u1 \in ScanLocals /\ u1.at = "entry"
  BY <1>3, ScanWritten
<1> HIDE DEF u1
<1>5. u2 \in ScanLocals /\ u2.at = "entry" /\ u2.seen = {}
  BY <1>2, <1>4, ScanWritten
<1> HIDE DEF u2
<1>6. u3 \in ScanLocals /\ u3.at = "entry" /\ u3.seen = {} /\ u3.todo = left
  BY <1>2, <1>5, ScanWritten
<1> HIDE DEF u3
<1>7. SameCharges /\ cursor' \in Nat
  BY <1>1, RowUnchanged, MyScan
<1> QED BY <1>1, <1>2, <1>6, <1>7, ScanGoes

\* The steps of a pass over its entries that charge nothing.
LEMMA EntryStep ==
  ASSUME AskInv, NEW s \in Scanners,
         EndScan(s) \/ SettleArrived(s) \/ SkipResolved(s) \/ StopScan(s)
  PROVE  AskInv'
<1>1. CASE EndScan(s) \/ StopScan(s)
  BY <1>1, IdleGoes DEF EndScan, StopScan, rows
<1>2. CASE SettleArrived(s)
  <2>1. Delivery(s) \in Guids
    BY <1>2, EntryIsIn DEF SettleArrived, AskInv
  <2>2. SameCharges
    BY <1>2, <2>1, SettleKeeps DEF SettleArrived
  <2>3. Done(s) /\ UNCHANGED <<log, asked>> /\ cursor' \in Nat
    BY <1>2 DEF SettleArrived, AskInv, DeliveryTypes
  <2> QED BY <2>2, <2>3, DoneGoes
<1>3. CASE SkipResolved(s)
  <2>1. Done(s) /\ UNCHANGED <<log, asked, recovery>> /\ cursor' \in Nat
    BY <1>3 DEF SkipResolved, rows, AskInv, DeliveryTypes
  <2> QED BY <2>1, RowUnchanged, DoneGoes
<1> QED BY <1>1, <1>2, <1>3

LEMMA ReadRecoveryStep ==
  ASSUME AskInv, NEW s \in Scanners, ReadRecovery(s)
  PROVE  AskInv'
<1> DEFINE g == Delivery(s)
           r == [recovery[g] EXCEPT !.listed = TRUE]
<1>1. g \in Guids /\ scan[s].todo # {}
  BY EntryIsIn DEF ReadRecovery, AskInv
<1>2. recovery[g] \in RecoveryRows
  BY <1>1 DEF AskInv, DeliveryTypes
<1>3. r \in RecoveryRows /\ r.attempts = recovery[g].attempts
  BY <1>2 DEF RecoveryRows
<1>4. recovery' = [recovery EXCEPT ![g] = r]
  BY DEF ReadRecovery
<1> HIDE DEF r
<1>5. SameCharges
  BY <1>1, <1>3, <1>4, RowKept
<1>6. UNCHANGED <<log, asked>> /\ cursor' \in Nat
  BY DEF ReadRecovery, AskInv, DeliveryTypes
<1>7. CASE Done(s)
  BY <1>5, <1>6, <1>7, DoneGoes
<1>8. CASE /\ recovery[g].attempts < MaxRequests
           /\ Scan(s, [scan[s] EXCEPT !.at = "claiming", !.attempts = recovery[g].attempts])
  <2> DEFINE u1 == [scan[s] EXCEPT !.at = "claiming"]
             u2 == [u1 EXCEPT !.attempts = recovery[g].attempts]
  <2>1. Scan(s, u2)
    BY <1>8, Zenon
  <2>2. recovery[g].attempts \in Nat
    BY <1>2 DEF RecoveryRows
  <2>3. scan[s] \in ScanLocals /\ "claiming" \in Places
    BY MyScan DEF Places
  <2>4. u1 \in ScanLocals /\ u1.at = "claiming" /\ u1.todo = scan[s].todo /\ u1.seen = scan[s].seen
    BY <2>3, ScanWritten
  <2> HIDE DEF u1
  <2>5. /\ u2 \in ScanLocals /\ u2.at = "claiming" /\ u2.todo = scan[s].todo
        /\ u2.seen = scan[s].seen /\ u2.attempts = recovery[g].attempts
    BY <2>2, <2>4, ScanWritten
  <2> HIDE DEF u2
  <2>6. u2.todo \subseteq 1..Len(log) /\ u2.seen \subseteq 1..Len(log)
    BY <2>5, MyScan
  <2>7. u2.at # "asking" /\ u2.todo # {} /\ u2.attempts < MaxRequests
    BY <1>1, <1>8, <2>5
  <2> HIDE DEF g
  <2> QED BY <1>5, <1>6, <2>1, <2>5, <2>6, <2>7, ScanGoes
<1> QED BY <1>7, <1>8 DEF ReadRecovery

LEMMA OneMore ==
  ASSUME NEW g, NEW x, NEW S, S \subseteq Numbers(g) \cup {x}
  PROVE  Cardinality(S) <= Cardinality(Numbers(g)) + 1 /\ Cardinality(S) \in Nat
<1>1. IsFiniteSet(Numbers(g)) /\ Cardinality(Numbers(g)) \in Nat
  BY NumbersCount
<1> DEFINE T == Numbers(g) \cup {x}
<1>2. /\ IsFiniteSet(T)
      /\ Cardinality(T) = IF x \in Numbers(g) THEN Cardinality(Numbers(g)) ELSE Cardinality(Numbers(g)) + 1
  BY <1>1, FS_AddElement
<1>3. S \in SUBSET T
  OBVIOUS
<1> HIDE DEF T
<1>4. Cardinality(S) <= Cardinality(T) /\ IsFiniteSet(S)
  BY <1>2, <1>3, FS_Subset
<1>5. Cardinality(S) \in Nat
  BY <1>4, FS_CardinalityType
<1> QED BY <1>1, <1>2, <1>4, <1>5

LEMMA OneLess ==
  ASSUME NEW g, NEW x \in Numbers(g), NEW S, S \subseteq Numbers(g) \ {x}
  PROVE  Cardinality(S) + 1 <= Cardinality(Numbers(g)) /\ Cardinality(S) \in Nat
<1>1. IsFiniteSet(Numbers(g)) /\ Cardinality(Numbers(g)) \in Nat
  BY NumbersCount
<1> DEFINE T == Numbers(g) \ {x}
<1>2. IsFiniteSet(T) /\ Cardinality(T) = Cardinality(Numbers(g)) - 1
  BY <1>1, FS_RemoveElement
<1>3. S \in SUBSET T
  OBVIOUS
<1> HIDE DEF T
<1>4. Cardinality(S) <= Cardinality(T) /\ IsFiniteSet(S)
  BY <1>2, <1>3, FS_Subset
<1>5. Cardinality(S) \in Nat
  BY <1>4, FS_CardinalityType
<1> QED BY <1>1, <1>2, <1>4, <1>5

LEMMA ChargeStep ==
  ASSUME AskInv, NEW s \in Scanners, Charge(s)
  PROVE  AskInv'
<1>1. UNCHANGED <<log, asked, cursor>> /\ cursor' \in Nat
  BY DEF Charge, AskInv, DeliveryTypes
<1>2. CASE Done(s) /\ UNCHANGED recovery
  BY <1>1, <1>2, RowUnchanged, DoneGoes
<1>3. CASE Claimable(s) /\ ScanTo(s, "asking")
  <2> DEFINE g == Delivery(s)
             me == [scan[s] EXCEPT !.at = "asking"]
             r == [listed |-> TRUE, attempts |-> recovery[g].attempts + 1, waits |-> TRUE,
                   resolved |-> FALSE]
             n == scan[s].attempts
  <2>1. g \in Guids /\ scan[s].todo # {} /\ n < MaxRequests /\ recovery[g].attempts = n
    BY <1>3, EntryIsIn DEF Charge, AskInv, Claims, Claimable
  <2>2. recovery[g] \in RecoveryRows /\ n \in Nat /\ scan[s] \in ScanLocals /\ "asking" \in Places
    BY <2>1, MyScan DEF AskInv, DeliveryTypes, Places
  <2>3. me \in ScanLocals /\ me.at = "asking" /\ me.todo = scan[s].todo /\ me.seen = scan[s].seen /\ me.attempts = n
    BY <2>2, ScanWritten
  <2>4. Scan(s, me)
    BY <1>3 DEF ScanTo
  <2>5. r \in RecoveryRows /\ r.attempts = n + 1
    BY <2>1, <2>2, DeliveriesAssumption DEF RecoveryRows
  <2>6. recovery' = [recovery EXCEPT ![g] = r]
    BY <1>3, Zenon DEF Charge
  <2> HIDE DEF me, r
  <2>7. /\ scan' \in [Scanners -> ScanLocals] /\ scan'[s] = me
        /\ \A t \in Scanners : t # s => scan'[t] = scan[t]
    BY <2>3, <2>4 DEF Scan, AskInv, DeliveryTypes
  <2>8. /\ recovery' \in [Guids -> RecoveryRows] /\ recovery'[g].attempts = n + 1
        /\ \A h \in Guids : h # g => recovery'[h] = recovery[h]
    BY <2>1, <2>5, <2>6 DEF AskInv, DeliveryTypes
  <2>9. \A t \in Scanners : /\ scan'[t].todo = scan[t].todo /\ scan'[t].seen = scan[t].seen
                            /\ scan'[t].attempts = scan[t].attempts
    BY <2>3, <2>7
  <2>10. \A t \in Scanners : Delivery(t)' = Delivery(t)
    BY <1>1, <2>9 DEF Delivery, Entry
  <2>11. DeliveryTypes'
    BY <1>1, <2>7, <2>8, <2>9 DEF AskInv, DeliveryTypes
  <2>12. \A t \in Scanners : scan'[t].at = "asking" => t = s \/ scan[t].at = "asking"
    BY <2>7
  <2>13. Claims'
    BY <2>1, <2>7, <2>9 DEF AskInv, Claims
  <2>14. \A t \in Scanners : scan[t].at = "asking" => Delivery(t) \in Guids
    BY EntryIsIn DEF AskInv, Claims
  <2>15. \A t \in Scanners : scan[t].at = "asking" /\ Delivery(t) = g => scan[t].attempts < n
    BY <2>1 DEF AskInv, Charges
  <2>16. \A t \in Scanners : scan[t].attempts \in Nat
    BY MyScan
  <2> HIDE DEF n
  <2>17. Charges'
    <3>1. ASSUME NEW t \in Scanners, scan'[t].at = "asking"
          PROVE  scan'[t].attempts < recovery'[Delivery(t)'].attempts
      <4>1. CASE t = s
        BY <2>2, <2>8, <2>9, <2>10, <4>1 DEF n
      <4>2. CASE t # s /\ Delivery(t) = g
        BY <2>2, <2>8, <2>9, <2>10, <2>12, <2>15, <2>16, <3>1, <4>2
      <4>3. CASE t # s /\ Delivery(t) # g
        BY <2>8, <2>9, <2>10, <2>12, <2>14, <3>1, <4>3 DEF AskInv, Charges
      <4> QED BY <4>1, <4>2, <4>3
    <3>2. ASSUME NEW t \in Scanners, NEW u \in Scanners, scan'[t].at = "asking", scan'[u].at = "asking",
                 Delivery(t)' = Delivery(u)', scan'[t].attempts = scan'[u].attempts
          PROVE  t = u
      <4>1. Delivery(t) = Delivery(u) /\ scan[t].attempts = scan[u].attempts
        BY <2>9, <2>10, <3>2
      <4>2. CASE t # s /\ u # s
        BY <2>12, <3>2, <4>1, <4>2 DEF AskInv, Charges
      <4>3. ~(t = s /\ u # s)
        BY <2>2, <2>12, <2>15, <2>16, <3>2, <4>1 DEF n
      <4>4. ~(t # s /\ u = s)
        BY <2>2, <2>12, <2>15, <2>16, <3>2, <4>1 DEF n
      <4> QED BY <4>2, <4>3, <4>4
    <3> QED BY <3>1, <3>2 DEF Charges
  <2>18. ASSUME NEW h \in Guids PROVE (asked[h] + Cardinality(Numbers(h)) <= recovery[h].attempts)'
    <3>1. /\ asked'[h] = asked[h] /\ asked[h] \in Nat /\ recovery[h].attempts \in Nat
          /\ asked[h] + Cardinality(Numbers(h)) <= recovery[h].attempts
          /\ Cardinality(Numbers(h)) \in Nat
      BY <1>1, NumbersCount DEF AskInv, DeliveryTypes, RecoveryRows
    <3>2. CASE h # g
      <4>1. Numbers(h)' \subseteq Numbers(h)
        BY <2>9, <2>10, <2>12, <3>2 DEF Numbers
      <4>2. Cardinality(Numbers(h)') <= Cardinality(Numbers(h)) /\ Cardinality(Numbers(h)') \in Nat
        BY <4>1, NumbersCount
      <4> QED BY <2>8, <3>1, <3>2, <4>2
    <3>3. CASE h = g
      <4>1. Numbers(h)' \subseteq Numbers(h) \cup {n}
        BY <2>9, <2>10, <2>12 DEF Numbers, n
      <4>2. Cardinality(Numbers(h)') <= Cardinality(Numbers(h)) + 1 /\ Cardinality(Numbers(h)') \in Nat
        BY <4>1, OneMore
      <4>3. recovery'[h].attempts = recovery[h].attempts + 1
        BY <2>1, <2>8, <3>3
      <4> QED BY <3>1, <4>2, <4>3
    <3> QED BY <3>2, <3>3
  <2> QED BY <2>11, <2>13, <2>17, <2>18 DEF AskInv
<1> QED BY <1>2, <1>3 DEF Charge

LEMMA AskStep ==
  ASSUME AskInv, NEW s \in Scanners, Ask(s)
  PROVE  AskInv'
<1> DEFINE g == Delivery(s)
           n == scan[s].attempts
           u1 == [scan[s] EXCEPT !.at = "entry"]
           rest == scan[s].todo \ {Entry(s)}
           me == [u1 EXCEPT !.todo = rest]
<1>1. UNCHANGED <<log, recovery, cursor>> /\ scan[s].at = "asking" /\ Scan(s, me)
  BY Zenon DEF Ask, Done
<1>2. g \in Guids /\ n < MaxRequests /\ n \in Nat /\ scan[s] \in ScanLocals /\ "entry" \in Places
  BY <1>1, EntryIsIn, MyScan DEF AskInv, Claims, Places
<1>3. u1 \in ScanLocals /\ u1.at = "entry" /\ u1.seen = scan[s].seen
  BY <1>2, ScanWritten
<1> HIDE DEF u1
<1>4. rest \in SUBSET Nat /\ rest \subseteq 1..Len(log) /\ scan[s].seen \subseteq 1..Len(log)
  BY MyScan
<1> HIDE DEF rest
<1>5. me \in ScanLocals /\ me.at = "entry" /\ me.seen = scan[s].seen /\ me.todo = rest
  BY <1>3, <1>4, ScanWritten
<1> HIDE DEF me
<1>6. /\ scan' \in [Scanners -> ScanLocals] /\ scan'[s] = me
      /\ \A t \in Scanners : t # s => scan'[t] = scan[t]
  BY <1>1, <1>5 DEF Scan, AskInv, DeliveryTypes
<1>7. /\ asked' \in [Guids -> Nat] /\ asked'[g] <= asked[g] + 1
      /\ \A h \in Guids : h # g => asked'[h] = asked[h]
  <2>1. PICK arrives \in BOOLEAN :
          asked' = [asked EXCEPT ![g] = IF arrives THEN asked[g] + 1 ELSE asked[g]]
    BY DEF Ask
  <2>2. asked \in [Guids -> Nat]
    BY DEF AskInv, DeliveryTypes
  <2> HIDE DEF g
  <2> QED BY <1>2, <2>1, <2>2
<1>8. DeliveryTypes'
  BY <1>1, <1>4, <1>5, <1>6, <1>7 DEF AskInv, DeliveryTypes
<1>9. Claims'
  BY <1>5, <1>6 DEF AskInv, Claims
<1>10. \A t \in Scanners : scan'[t].at = "asking" =>
         t # s /\ scan'[t] = scan[t] /\ Delivery(t)' = Delivery(t)
  <2> SUFFICES ASSUME NEW t \in Scanners, scan'[t].at = "asking"
               PROVE  t # s /\ scan'[t] = scan[t] /\ Delivery(t)' = Delivery(t)
    OBVIOUS
  <2>1. t # s /\ scan'[t] = scan[t]
    BY <1>5, <1>6
  <2> QED BY <1>1, <2>1 DEF Delivery, Entry
<1>11. Charges'
  <2>1. \A t \in Scanners : scan'[t].at = "asking" => scan'[t].attempts < recovery'[Delivery(t)'].attempts
    BY <1>1, <1>10 DEF AskInv, Charges
  <2>2. \A t, u \in Scanners :
          scan'[t].at = "asking" /\ scan'[u].at = "asking" /\ Delivery(t)' = Delivery(u)'
            /\ scan'[t].attempts = scan'[u].attempts => t = u
    BY <1>10 DEF AskInv, Charges
  <2> QED BY <2>1, <2>2 DEF Charges
<1>12. ASSUME NEW h \in Guids PROVE (asked[h] + Cardinality(Numbers(h)) <= recovery[h].attempts)'
  <2>1. /\ asked[h] \in Nat /\ asked'[h] \in Nat /\ recovery[h].attempts \in Nat
        /\ asked[h] + Cardinality(Numbers(h)) <= recovery[h].attempts
        /\ Cardinality(Numbers(h)) \in Nat /\ recovery' = recovery
    BY <1>1, <1>7, NumbersCount DEF AskInv, DeliveryTypes, RecoveryRows
  <2>2. Numbers(h)' \subseteq Numbers(h)
    BY <1>10 DEF Numbers
  <2>3. CASE h # g
    <3>1. Cardinality(Numbers(h)') <= Cardinality(Numbers(h)) /\ Cardinality(Numbers(h)') \in Nat
      BY <2>2, NumbersCount
    <3> QED BY <1>7, <2>1, <2>3, <3>1
  <2>4. CASE h = g
    <3>1. n \in Numbers(h)
      BY <1>1, <1>2, <2>4, DeliveriesAssumption DEF Numbers
    <3>2. n \notin Numbers(h)'
      <4>1. \A t \in Scanners :
              scan'[t].at = "asking" /\ Delivery(t)' = h => scan'[t].attempts # n
        BY <1>1, <1>10, <2>4 DEF AskInv, Charges
      <4> HIDE DEF n
      <4> QED BY <4>1 DEF Numbers
    <3> HIDE DEF n
    <3>3. Cardinality(Numbers(h)') + 1 <= Cardinality(Numbers(h)) /\ Cardinality(Numbers(h)') \in Nat
      BY <2>2, <3>1, <3>2, OneLess
    <3> QED BY <1>7, <2>1, <2>4, <3>3
  <2> QED BY <2>3, <2>4
<1> QED BY <1>8, <1>9, <1>11, <1>12 DEF AskInv

LEMMA AttemptStep ==
  ASSUME AskInv, NEW g \in Guids, Attempt(g)
  PROVE  AskInv'
<1>1. PICK answered \in BOOLEAN : log' = Append(log, [guid |-> g, ok |-> answered])
  BY DEF Attempt
<1>2. [guid |-> g, ok |-> answered] \in Entries /\ log \in Seq(Entries)
  BY DEF Entries, AskInv, DeliveryTypes
<1>3. /\ log' \in Seq(Entries) /\ Len(log) <= Len(log')
      /\ \A id \in 1..Len(log) : log'[id] = log[id]
  BY <1>1, <1>2, AppendProperties
<1>4. UNCHANGED <<scan, asked, cursor, recovery>>
  BY DEF Attempt, rows
<1> QED BY <1>3, <1>4, RowUnchanged, ScansRest

\* What leaves the log and the passes alone.
LEMMA ProcessingStep ==
  ASSUME AskInv,
         \/ ReadStored \/ Reprocess \/ ReprocessFails \/ UNCHANGED deliveryVars
         \/ \E g \in Guids : ProcessAtOnce(g) \/ WaitEnds(g)
  PROVE  AskInv'
<1>1. UNCHANGED <<scan, asked, cursor, log>>
  BY DEF ReadStored, Reprocess, ReprocessFails, ProcessAtOnce, WaitEnds, deliveryVars, rows
<1>2. SameCharges
  <2>1. CASE UNCHANGED recovery
    BY <2>1, RowUnchanged
  <2>2. ASSUME NEW g \in Guids, WaitEnds(g) PROVE SameCharges
    <3> DEFINE r == [recovery[g] EXCEPT !.waits = FALSE]
    <3>1. recovery[g] \in RecoveryRows
      BY DEF AskInv, DeliveryTypes
    <3>2. r \in RecoveryRows /\ r.attempts = recovery[g].attempts
      BY <3>1 DEF RecoveryRows
    <3>3. recovery' = [recovery EXCEPT ![g] = r]
      BY <2>2 DEF WaitEnds
    <3> HIDE DEF r
    <3> QED BY <3>2, <3>3, RowKept
  <2> QED BY <2>1, <2>2 DEF ReadStored, Reprocess, ReprocessFails, ProcessAtOnce, deliveryVars, rows
<1>3. log' \in Seq(Entries) /\ Len(log) <= Len(log') /\ \A id \in 1..Len(log) : log'[id] = log[id]
  <2>1. log \in Seq(Entries)
    BY DEF AskInv, DeliveryTypes
  <2>2. Len(log) \in Nat
    BY <2>1
  <2> QED BY <1>1, <2>1, <2>2
<1> QED BY <1>1, <1>2, <1>3, ScansRest

LEMMA AskInvStep == AskInv /\ [DNext]_deliveryVars => AskInv'
<1> SUFFICES ASSUME AskInv, [DNext]_deliveryVars PROVE AskInv'
  OBVIOUS
<1>1. ASSUME NEW s \in Scanners, ScanStep(s) \/ StopScan(s) PROVE AskInv'
  BY <1>1, ReadNewestStep, ReadOlderStep, StoreCursorStep, EntryStep, ReadRecoveryStep, ChargeStep,
     AskStep DEF ScanStep
<1> QED BY <1>1, AttemptStep, ProcessingStep DEF DNext

LEMMA AskInvInit == DInit => AskInv
<1> SUFFICES ASSUME DInit PROVE AskInv
  OBVIOUS
<1>1. NoRecovery \in RecoveryRows /\ NoRecovery.attempts = 0
  BY DeliveriesAssumption DEF NoRecovery, RecoveryRows
<1>2. \A s \in Scanners : scan[s] = IdleScan
  BY DEF DInit
<1>3. log \in Seq(Entries) /\ cursor \in Nat /\ asked \in [Guids -> Nat]
  BY DEF DInit
<1>4. recovery \in [Guids -> RecoveryRows] /\ scan \in [Scanners -> ScanLocals]
  BY <1>1, IdleIsScan DEF DInit
<1>5. DeliveryTypes
  BY <1>2, <1>3, <1>4, IdleIsScan DEF DeliveryTypes
<1>6. Claims /\ Charges /\ \A g : Numbers(g) = {}
  BY <1>2, IdleIsScan DEF Claims, Charges, Numbers
<1>7. \A g \in Guids : asked[g] = 0 /\ recovery[g].attempts = 0
  BY <1>1 DEF DInit
<1> QED BY <1>5, <1>6, <1>7, FS_EmptySet DEF AskInv

(* Each request that is on its way was charged under a number of its own.  *)
THEOREM ChargesCover == DSpec => []AskInv
  BY AskInvInit, AskInvStep, PTL DEF DSpec

(* "GitHub can send a delivery again": each one is asked for a bounded     *)
(* number of times, whatever passes overlap and whatever answers are lost. *)
THEOREM AskedStaysInBounds == DSpec => []AskedInBounds
<1>1. AskInv => AskedInBounds
  <2> SUFFICES ASSUME AskInv, NEW g \in Guids PROVE asked[g] <= MaxRequests
    BY DEF AskedInBounds
  <2>1. /\ asked[g] \in Nat /\ recovery[g].attempts \in 0..MaxRequests
        /\ asked[g] + Cardinality(Numbers(g)) <= recovery[g].attempts
    BY DEF AskInv, DeliveryTypes, RecoveryRows
  <2>2. Cardinality(Numbers(g)) \in Nat
    BY NumbersCount
  <2> QED BY <2>1, <2>2, DeliveriesAssumption
<1> QED BY <1>1, ChargesCover, PTL

-----------------------------------------------------------------------------
(* The deliveries that are received and processed.                         *)

\* No value is twice in a sequence.
Once(s) == \A i, j \in 1..Len(s) : s[i] = s[j] => i = j

LEMMA MembersOf ==
  ASSUME NEW S, NEW s \in Seq(S)
  PROVE  Len(s) \in Nat /\ ToSet(s) = { s[i] : i \in 1..Len(s) } /\ ToSet(s) \subseteq S
<1>1. Len(s) \in Nat /\ DOMAIN s = 1..Len(s) /\ \A i \in 1..Len(s) : s[i] \in S
  BY LenProperties
<1> QED BY <1>1 DEF ToSet

LEMMA PlaceRemoved ==
  ASSUME NEW S, NEW s \in Seq(S), NEW k \in 1..Len(s)
  PROVE  /\ RemoveAt(s, k) \in Seq(S) /\ Len(RemoveAt(s, k)) = Len(s) - 1
         /\ \A i \in 1..Len(s) - 1 : RemoveAt(s, k)[i] = IF i < k THEN s[i] ELSE s[i + 1]
<1> DEFINE front == SubSeq(s, 1, k - 1)
           back == SubSeq(s, k + 1, Len(s))
<1>1. Len(s) \in Nat /\ \A i \in 1..Len(s) : s[i] \in S
  BY LenProperties
<1>2. /\ front \in Seq(S) /\ Len(front) = k - 1
      /\ \A i \in 1..k - 1 : front[i] = s[i]
  <2>1. 1 \in Int /\ k - 1 \in Int /\ \A i \in 1..k - 1 : s[i] \in S
    BY <1>1
  <2>2. /\ front \in Seq(S) /\ Len(front) = IF 1 <= k - 1 THEN (k - 1) - 1 + 1 ELSE 0
        /\ \A i \in 1..(k - 1) - 1 + 1 : front[i] = s[1 + i - 1]
    BY <2>1, SubSeqProperties
  <2> HIDE DEF front
  <2> QED BY <1>1, <2>2
<1>3. /\ back \in Seq(S) /\ Len(back) = Len(s) - k
      /\ \A i \in 1..Len(s) - k : back[i] = s[k + i]
  <2>1. k + 1 \in Int /\ Len(s) \in Int /\ \A i \in k + 1..Len(s) : s[i] \in S
    BY <1>1
  <2>2. /\ back \in Seq(S) /\ Len(back) = IF k + 1 <= Len(s) THEN Len(s) - (k + 1) + 1 ELSE 0
        /\ \A i \in 1..Len(s) - (k + 1) + 1 : back[i] = s[(k + 1) + i - 1]
    BY <2>1, SubSeqProperties
  <2> HIDE DEF back
  <2> QED BY <1>1, <2>2
<1>4. RemoveAt(s, k) = front \o back
  BY DEF RemoveAt
<1> HIDE DEF front, back
<1>5. /\ front \o back \in Seq(S) /\ Len(front \o back) = Len(front) + Len(back)
      /\ \A i \in 1..Len(front) + Len(back) :
           (front \o back)[i] = IF i <= Len(front) THEN front[i] ELSE back[i - Len(front)]
  BY <1>2, <1>3, ConcatProperties
<1>6. Len(front \o back) = Len(s) - 1 /\ Len(front) + Len(back) = Len(s) - 1
  BY <1>1, <1>2, <1>3, <1>5
<1>7. ASSUME NEW i \in 1..Len(s) - 1
      PROVE  (front \o back)[i] = IF i < k THEN s[i] ELSE s[i + 1]
  <2>1. /\ i <= k - 1 => (front \o back)[i] = front[i]
        /\ ~(i <= k - 1) => (front \o back)[i] = back[i - (k - 1)]
    BY <1>2, <1>5, <1>6
  <2>2. CASE i <= k - 1
    <3>1. front[i] = s[i]
      BY <1>1, <1>2, <2>2
    <3>2. i < k
      BY <1>1, <2>2
    <3>3. (front \o back)[i] = s[i]
      BY <2>1, <2>2, <3>1
    <3> QED BY <3>2, <3>3
  <2>3. CASE i > k - 1
    <3>1. i - (k - 1) \in 1..Len(s) - k /\ k + (i - (k - 1)) = i + 1
      BY <1>1, <2>3
    <3>2. back[i - (k - 1)] = s[i + 1]
      BY <1>3, <3>1
    <3>3. ~(i <= k - 1) /\ ~(i < k)
      BY <1>1, <2>3
    <3>4. (front \o back)[i] = s[i + 1]
      BY <2>1, <3>2, <3>3
    <3> QED BY <3>3, <3>4
  <2>4. i <= k - 1 \/ i > k - 1
    BY <1>1
  <2> QED BY <2>2, <2>3, <2>4
<1> QED BY <1>4, <1>5, <1>6, <1>7

\* The value is gone, and the others keep their order and come once.
LEMMA ValueRemoved ==
  ASSUME NEW S, NEW s \in Seq(S), NEW e, Once(s)
  PROVE  /\ RemoveFirst(s, e) \in Seq(S) /\ Once(RemoveFirst(s, e))
         /\ ToSet(RemoveFirst(s, e)) = ToSet(s) \ {e}
<1> DEFINE I == { i \in 1..Len(s) : s[i] = e }
<1>1. Len(s) \in Nat /\ ToSet(s) = { s[i] : i \in 1..Len(s) }
  BY MembersOf
<1>2. CASE I = {}
  <2>1. RemoveFirst(s, e) = s
    BY <1>2 DEF RemoveFirst
  <2>2. e \notin ToSet(s)
    BY <1>1, <1>2
  <2> QED BY <2>1, <2>2
<1>3. CASE I # {}
  <2>1. SelectInSeq(s, LAMBDA v : v = e) = Min(I)
    BY <1>3 DEF SelectInSeq
  <2>2. I \in SUBSET Nat
    BY <1>1
  <2>3. \E x \in I : \A y \in I : x <= y
    BY <1>3, <2>2, LeastIsIn
  <2> HIDE DEF I
  <2>4. Min(I) \in I
    BY <2>3 DEF Min
  <2> USE DEF I
  <2>5. PICK k \in 1..Len(s) : s[k] = e /\ k = Min(I)
    BY <2>4
  <2> DEFINE r == RemoveAt(s, k)
  <2>6. RemoveFirst(s, e) = r
    BY <2>1, <2>5 DEF RemoveFirst
  <2>7. /\ r \in Seq(S) /\ Len(r) = Len(s) - 1
        /\ \A i \in 1..Len(s) - 1 : r[i] = IF i < k THEN s[i] ELSE s[i + 1]
    BY PlaceRemoved
  <2>8. ToSet(r) = { r[i] : i \in 1..Len(r) }
    BY <2>7, MembersOf
  <2> HIDE DEF r, I
  <2>9. ASSUME NEW i \in 1..Len(s), i # k
        PROVE  s[i] # e /\ \E j \in 1..Len(r) : r[j] = s[i]
    <3>1. s[i] # e
      BY <2>5, <2>9 DEF Once
    <3>2. CASE i < k
      <4>1. i \in 1..Len(s) - 1 /\ r[i] = s[i]
        BY <1>1, <2>7, <3>2
      <4> QED BY <2>7, <3>1, <4>1
    <3>3. CASE i > k
      <4>1. i - 1 \in 1..Len(s) - 1 /\ ~(i - 1 < k) /\ (i - 1) + 1 = i
        BY <1>1, <3>3
      <4>2. r[i - 1] = s[i]
        BY <2>7, <4>1
      <4> QED BY <2>7, <3>1, <4>1, <4>2
    <3> QED BY <1>1, <2>9, <3>2, <3>3
  <2>10. ASSUME NEW j \in 1..Len(r)
         PROVE  \E i \in 1..Len(s) : /\ i # k /\ r[j] = s[i]
                                     /\ i = IF j < k THEN j ELSE j + 1
    <3>1. CASE j < k
      BY <1>1, <2>7, <3>1
    <3>2. CASE ~(j < k)
      <4>1. j + 1 \in 1..Len(s) /\ j + 1 # k /\ r[j] = s[j + 1]
        BY <1>1, <2>7, <3>2
      <4> QED BY <3>2, <4>1
    <3> QED BY <3>1, <3>2
  <2>11. ToSet(r) = ToSet(s) \ {e}
    <3>1. ASSUME NEW x \in ToSet(r) PROVE x \in ToSet(s) \ {e}
      <4>1. PICK j \in 1..Len(r) : x = r[j]
        BY <2>8
      <4>2. PICK i \in 1..Len(s) : i # k /\ r[j] = s[i]
        BY <2>10
      <4> QED BY <1>1, <2>9, <4>1, <4>2
    <3>2. ASSUME NEW x \in ToSet(s) \ {e} PROVE x \in ToSet(r)
      <4>1. PICK i \in 1..Len(s) : x = s[i]
        BY <1>1
      <4>2. i # k
        BY <2>5, <4>1
      <4> QED BY <2>8, <2>9, <4>1, <4>2
    <3> QED BY <3>1, <3>2
  <2>12. Once(r)
    <3> SUFFICES ASSUME NEW i \in 1..Len(r), NEW j \in 1..Len(r), r[i] = r[j] PROVE i = j
      BY DEF Once
    <3>1. PICK m \in 1..Len(s) : r[i] = s[m] /\ m # k /\ m = IF i < k THEN i ELSE i + 1
      BY <2>10
    <3>2. PICK n \in 1..Len(s) : r[j] = s[n] /\ n # k /\ n = IF j < k THEN j ELSE j + 1
      BY <2>10
    <3>3. m = n
      BY <3>1, <3>2 DEF Once
    <3> QED BY <1>1, <2>7, <3>1, <3>2, <3>3
  <2> QED BY <2>6, <2>7, <2>11, <2>12
<1> QED BY <1>2, <1>3

LEMMA ValueAppended ==
  ASSUME NEW S, NEW s \in Seq(S), NEW e \in S, Once(s), e \notin ToSet(s)
  PROVE  /\ Append(s, e) \in Seq(S) /\ Once(Append(s, e))
         /\ ToSet(Append(s, e)) = ToSet(s) \cup {e}
<1> DEFINE r == Append(s, e)
<1>1. Len(s) \in Nat /\ ToSet(s) = { s[i] : i \in 1..Len(s) }
  BY MembersOf
<1>2. /\ r \in Seq(S) /\ Len(r) = Len(s) + 1
      /\ \A i \in 1..Len(s) : r[i] = s[i]
      /\ r[Len(s) + 1] = e
  BY AppendProperties
<1>3. ToSet(r) = { r[i] : i \in 1..Len(r) }
  BY <1>2, MembersOf
<1> HIDE DEF r
<1>4. \A i \in 1..Len(r) : i = Len(s) + 1 \/ i \in 1..Len(s)
  BY <1>1, <1>2
<1>5. 1..Len(s) \subseteq 1..Len(r) /\ Len(s) + 1 \in 1..Len(r)
  BY <1>1, <1>2
<1>6. ToSet(r) = ToSet(s) \cup {e}
  BY <1>1, <1>2, <1>3, <1>4, <1>5
<1>7. \A i \in 1..Len(s) : s[i] # e
  BY <1>1
<1>8. Once(r)
  BY <1>2, <1>4, <1>7 DEF Once
<1> QED BY <1>2, <1>6, <1>8 DEF r

LEMMA JoinedMembers ==
  ASSUME NEW S, NEW s \in Seq(S), NEW t \in Seq(S)
  PROVE  s \o t \in Seq(S) /\ ToSet(s \o t) = ToSet(s) \cup ToSet(t)
<1>1. /\ s \o t \in Seq(S) /\ Len(s \o t) = Len(s) + Len(t)
      /\ \A i \in 1..Len(s) + Len(t) :
           (s \o t)[i] = IF i <= Len(s) THEN s[i] ELSE t[i - Len(s)]
  BY ConcatProperties
<1>2. /\ Len(s) \in Nat /\ ToSet(s) = { s[i] : i \in 1..Len(s) }
      /\ Len(t) \in Nat /\ ToSet(t) = { t[i] : i \in 1..Len(t) }
      /\ ToSet(s \o t) = { (s \o t)[i] : i \in 1..Len(s \o t) }
  BY <1>1, MembersOf
<1>3. ASSUME NEW i \in 1..Len(s) + Len(t)
      PROVE  (s \o t)[i] \in ToSet(s) \cup ToSet(t)
  <2>1. CASE i <= Len(s)
    BY <1>1, <1>2, <2>1
  <2>2. CASE i > Len(s)
    <3>1. i - Len(s) \in 1..Len(t)
      BY <1>2, <2>2
    <3> QED BY <1>1, <1>2, <2>2, <3>1
  <2> QED BY <1>2, <2>1, <2>2
<1>4. ASSUME NEW i \in 1..Len(s)
      PROVE  s[i] \in ToSet(s \o t)
  <2>1. i \in 1..Len(s) + Len(t) /\ i <= Len(s)
    BY <1>2
  <2> QED BY <1>1, <1>2, <2>1
<1>5. ASSUME NEW i \in 1..Len(t)
      PROVE  t[i] \in ToSet(s \o t)
  <2>1. Len(s) + i \in 1..Len(s) + Len(t) /\ ~(Len(s) + i <= Len(s)) /\ (Len(s) + i) - Len(s) = i
    BY <1>2
  <2>2. (s \o t)[Len(s) + i] = t[i]
    BY <1>1, <2>1
  <2> QED BY <1>1, <1>2, <2>1, <2>2
<1>6. ToSet(s \o t) \subseteq ToSet(s) \cup ToSet(t)
  <2>1. ToSet(s \o t) = { (s \o t)[i] : i \in 1..Len(s) + Len(t) }
    BY <1>1, <1>2
  <2> QED BY <1>3, <2>1
<1>7. ToSet(s) \subseteq ToSet(s \o t) /\ ToSet(t) \subseteq ToSet(s \o t)
  BY <1>2, <1>4, <1>5
<1> QED BY <1>1, <1>6, <1>7

\* The rows of the deliveries, and the attempts and places of the passes.
QueueTypes ==
  /\ receipt \in [Guids -> {"none", "stored", "processed"}] /\ flight \in [Guids -> Nat]
  /\ exhausted \subseteq Guids /\ batch \in Seq(Guids)
  /\ fresh \in Seq(Guids) /\ tried \in Seq(Guids)

\* A stored delivery has one place in the order, and nothing else has one.
StoredOnce ==
  /\ Once(fresh) /\ Once(tried) /\ ToSet(fresh) \cap ToSet(tried) = {}
  /\ ToSet(fresh) \cup ToSet(tried) = { g \in Guids : receipt[g] = "stored" }

\* GitHub makes the first attempt, and those that it was asked for.
FlightsAsked == \A g \in Guids : flight[g] <= asked[g] + 1

\* A pass goes on at an entry that is there.
CursorsFit == cursor <= Len(log) /\ \A s \in Scanners : scan[s].next <= Len(log)

QueueInv == QueueTypes /\ StoredOnce /\ FlightsAsked /\ CursorsFit

LEMMA StoredSame ==
  ASSUME QueueInv, UNCHANGED <<receipt, fresh, tried>>
  PROVE  StoredOnce'
  BY DEF QueueInv, StoredOnce

LEMMA PlacesLeft ==
  ASSUME QueueInv, NEW g
  PROVE  /\ RemoveFirst(fresh, g) \in Seq(Guids) /\ Once(RemoveFirst(fresh, g))
         /\ RemoveFirst(tried, g) \in Seq(Guids) /\ Once(RemoveFirst(tried, g))
         /\ ToSet(RemoveFirst(fresh, g)) = ToSet(fresh) \ {g}
         /\ ToSet(RemoveFirst(tried, g)) = ToSet(tried) \ {g}
  BY ValueRemoved DEF QueueInv, QueueTypes, StoredOnce

LEMMA ProcessedKeeps ==
  ASSUME QueueInv, NEW g \in Guids, Processed(g)
  PROVE  /\ receipt' \in [Guids -> {"none", "stored", "processed"}]
         /\ fresh' \in Seq(Guids) /\ tried' \in Seq(Guids) /\ StoredOnce'
<1>1. /\ fresh' \in Seq(Guids) /\ Once(fresh') /\ ToSet(fresh') = ToSet(fresh) \ {g}
      /\ tried' \in Seq(Guids) /\ Once(tried') /\ ToSet(tried') = ToSet(tried) \ {g}
  BY PlacesLeft DEF Processed
<1>2. /\ receipt' \in [Guids -> {"none", "stored", "processed"}] /\ receipt'[g] = "processed"
      /\ \A h \in Guids : h # g => receipt'[h] = receipt[h]
  BY DEF Processed, QueueInv, QueueTypes
<1>3. { h \in Guids : receipt'[h] = "stored" } = { h \in Guids : receipt[h] = "stored" } \ {g}
  BY <1>2
<1> QED BY <1>1, <1>2, <1>3 DEF QueueInv, StoredOnce

LEMMA ReceiveKeeps ==
  ASSUME QueueInv, NEW g \in Guids, Receive(g), UNCHANGED tried
  PROVE  /\ receipt' \in [Guids -> {"none", "stored", "processed"}]
         /\ fresh' \in Seq(Guids) /\ StoredOnce'
<1>1. CASE receipt[g] # "none"
  <2>1. UNCHANGED <<receipt, fresh>>
    BY <1>1 DEF Receive
  <2> QED BY <2>1, StoredSame DEF QueueInv, QueueTypes
<1>2. CASE receipt[g] = "none"
  <2>1. fresh' = Append(fresh, g) /\ receipt' = [receipt EXCEPT ![g] = "stored"]
    BY <1>2 DEF Receive
  <2>2. g \notin ToSet(fresh) /\ g \notin ToSet(tried)
    BY <1>2 DEF QueueInv, StoredOnce
  <2>3. fresh' \in Seq(Guids) /\ Once(fresh') /\ ToSet(fresh') = ToSet(fresh) \cup {g}
    BY <2>1, <2>2, ValueAppended DEF QueueInv, QueueTypes, StoredOnce
  <2>4. /\ receipt' \in [Guids -> {"none", "stored", "processed"}] /\ receipt'[g] = "stored"
        /\ \A h \in Guids : h # g => receipt'[h] = receipt[h]
    BY <2>1 DEF QueueInv, QueueTypes
  <2>5. { h \in Guids : receipt'[h] = "stored" } = { h \in Guids : receipt[h] = "stored" } \cup {g}
    BY <2>4
  <2> QED BY <2>2, <2>3, <2>4, <2>5 DEF QueueInv, StoredOnce
<1> QED BY <1>1, <1>2

LEMMA FailedKeeps ==
  ASSUME QueueInv, ReprocessFails
  PROVE  fresh' \in Seq(Guids) /\ tried' \in Seq(Guids) /\ StoredOnce'
<1>1. PICK g : g = Head(batch)
  OBVIOUS
<1>2. g \in Guids
  BY <1>1, HeadTailProperties DEF ReprocessFails, QueueInv, QueueTypes
<1>3. UNCHANGED receipt
  BY DEF ReprocessFails
<1>4. CASE receipt[g] # "stored"
  <2>1. UNCHANGED <<fresh, tried>>
    BY <1>1, <1>4 DEF ReprocessFails
  <2> QED BY <1>3, <2>1, StoredSame DEF QueueInv, QueueTypes
<1>5. CASE receipt[g] = "stored"
  <2>1. fresh' = RemoveFirst(fresh, g) /\ tried' = Append(RemoveFirst(tried, g), g)
    BY <1>1, <1>5 DEF ReprocessFails
  <2>2. fresh' \in Seq(Guids) /\ Once(fresh') /\ ToSet(fresh') = ToSet(fresh) \ {g}
    BY <2>1, PlacesLeft
  <2>3. PICK rest : rest = RemoveFirst(tried, g)
    OBVIOUS
  <2>4. rest \in Seq(Guids) /\ Once(rest) /\ ToSet(rest) = ToSet(tried) \ {g}
    BY <2>3, PlacesLeft
  <2>5. tried' = Append(rest, g) /\ g \notin ToSet(rest)
    BY <2>1, <2>3, <2>4
  <2>6. tried' \in Seq(Guids) /\ Once(tried') /\ ToSet(tried') = ToSet(rest) \cup {g}
    BY <1>2, <2>4, <2>5, ValueAppended
  <2>7. g \in ToSet(fresh) \cup ToSet(tried)
    BY <1>2, <1>5 DEF QueueInv, StoredOnce
  <2> QED BY <1>3, <2>2, <2>4, <2>6, <2>7 DEF QueueInv, StoredOnce
<1> QED BY <1>4, <1>5

\* What the receipt of deliveries leaves alone.
LEMMA QueueParts ==
  ASSUME QueueInv, QueueTypes', UNCHANGED <<receipt, fresh, tried>> \/ StoredOnce',
         UNCHANGED <<flight, asked>> \/ FlightsAsked',
         UNCHANGED <<log, cursor, scan>> \/ CursorsFit'
  PROVE  QueueInv'
<1>1. StoredOnce'
  BY StoredSame
<1>2. FlightsAsked'
  BY DEF QueueInv, FlightsAsked
<1>3. CursorsFit'
  BY DEF QueueInv, CursorsFit
<1> QED BY <1>1, <1>2, <1>3 DEF QueueInv

LEMMA AttemptQueue ==
  ASSUME AskInv, QueueInv, NEW g \in Guids, Attempt(g)
  PROVE  QueueInv'
<1>1. /\ UNCHANGED <<tried, batch, exhausted, cursor, asked, scan>>
      /\ flight[g] > 0 /\ flight' = [flight EXCEPT ![g] = @ - 1]
      /\ Receive(g) \/ UNCHANGED <<receipt, fresh>>
  BY DEF Attempt, rows
<1>2. PICK e \in Entries : log' = Append(log, e)
  BY DEF Attempt, Entries
<1>3. Len(log) \in Nat /\ Len(log') = Len(log) + 1
  BY <1>2, AppendProperties, LenProperties DEF AskInv, DeliveryTypes
<1>4. /\ receipt' \in [Guids -> {"none", "stored", "processed"}]
      /\ fresh' \in Seq(Guids) /\ StoredOnce'
  BY <1>1, ReceiveKeeps, StoredSame DEF QueueInv, QueueTypes
<1>5. /\ flight' \in [Guids -> Nat] /\ \A h \in Guids : flight'[h] <= flight[h]
  BY <1>1 DEF QueueInv, QueueTypes
<1>6. FlightsAsked'
  BY <1>1, <1>5 DEF QueueInv, QueueTypes, FlightsAsked, AskInv, DeliveryTypes
<1>7. CursorsFit'
  <2>1. \A s \in Scanners : scan[s].next \in Nat
    BY MyScan
  <2>2. cursor \in Nat
    BY DEF AskInv, DeliveryTypes
  <2> QED BY <1>1, <1>3, <2>1, <2>2 DEF QueueInv, CursorsFit
<1>8. QueueTypes'
  BY <1>1, <1>4, <1>5 DEF QueueInv, QueueTypes
<1> QED BY <1>4, <1>6, <1>7, <1>8 DEF QueueInv

LEMMA ProcessingQueue ==
  ASSUME AskInv, QueueInv,
         \/ ReadStored \/ Reprocess \/ ReprocessFails \/ UNCHANGED deliveryVars
         \/ \E g \in Guids : ProcessAtOnce(g) \/ WaitEnds(g)
  PROVE  QueueInv'
<1>1. UNCHANGED <<flight, asked, log, cursor, scan, exhausted>>
  BY DEF ReadStored, Reprocess, ReprocessFails, ProcessAtOnce, WaitEnds, deliveryVars, rows
<1>2. CASE UNCHANGED deliveryVars \/ \E g \in Guids : WaitEnds(g)
  <2>1. UNCHANGED <<receipt, fresh, tried, batch>>
    BY <1>2 DEF deliveryVars, stored, WaitEnds
  <2>2. QueueTypes'
    BY <1>1, <2>1 DEF QueueInv, QueueTypes
  <2> QED BY <1>1, <2>1, <2>2, QueueParts
<1>3. ASSUME NEW g \in Guids, ProcessAtOnce(g)
      PROVE  QueueInv'
  <2>1. Processed(g) /\ UNCHANGED batch
    BY <1>3 DEF ProcessAtOnce
  <2>2. QueueTypes' /\ StoredOnce'
    BY <1>1, <2>1, ProcessedKeeps DEF QueueInv, QueueTypes
  <2> QED BY <1>1, <2>2, QueueParts
<1>4. batch # <<>> => Head(batch) \in Guids /\ Tail(batch) \in Seq(Guids)
  BY HeadTailProperties DEF QueueInv, QueueTypes
<1>5. CASE Reprocess
  <2>1. Processed(Head(batch)) /\ Head(batch) \in Guids /\ batch' \in Seq(Guids)
    BY <1>4, <1>5 DEF Reprocess
  <2>2. PICK g \in Guids : g = Head(batch)
    BY <2>1
  <2>3. QueueTypes' /\ StoredOnce'
    BY <1>1, <2>1, <2>2, ProcessedKeeps DEF QueueInv, QueueTypes
  <2> QED BY <1>1, <2>3, QueueParts
<1>6. CASE ReprocessFails
  <2>1. UNCHANGED receipt /\ batch' \in Seq(Guids)
    BY <1>4, <1>6 DEF ReprocessFails
  <2>2. QueueTypes' /\ StoredOnce'
    BY <1>1, <1>6, <2>1, FailedKeeps DEF QueueInv, QueueTypes
  <2> QED BY <1>1, <2>2, QueueParts
<1>7. CASE ReadStored
  <2>1. UNCHANGED <<receipt, fresh, tried>>
    BY <1>7 DEF ReadStored
  <2> DEFINE n == Min({Limit, Len(StoredRows)})
  <2>2. StoredRows \in Seq(Guids) /\ Len(StoredRows) \in Nat
    BY JoinedMembers, LenProperties DEF StoredRows, QueueInv, QueueTypes
  <2>3. n \in {Limit, Len(StoredRows)} /\ n <= Len(StoredRows)
    <3>1. {Limit, Len(StoredRows)} \in SUBSET Nat
      BY <2>2, DeliveriesAssumption
    <3>2. \E x \in {Limit, Len(StoredRows)} : \A y \in {Limit, Len(StoredRows)} : x <= y
      BY <3>1, LeastIsIn
    <3> QED BY <3>2 DEF Min
  <2> HIDE DEF n
  <2>4. n \in Int /\ 1 \in Int /\ \A i \in 1..n : StoredRows[i] \in Guids
    <3>1. n \in Nat /\ 1..n \subseteq 1..Len(StoredRows)
      BY <2>2, <2>3, DeliveriesAssumption
    <3> QED BY <2>2, <3>1, ElementOfSeq
  <2>5. batch' = SubSeq(StoredRows, 1, n)
    BY <1>7 DEF ReadStored, n
  <2>6. batch' \in Seq(Guids)
    BY <2>4, <2>5, SubSeqProperties
  <2>7. QueueTypes'
    BY <1>1, <2>1, <2>6 DEF QueueInv, QueueTypes
  <2> QED BY <1>1, <2>1, <2>7, QueueParts
<1> QED BY <1>2, <1>3, <1>5, <1>6, <1>7

\* A pass of recoverGitHubDeliveries.
LEMMA ScanQueue ==
  ASSUME AskInv, QueueInv, NEW s \in Scanners, NEW me, Scan(s, me), me.next \in 0..Len(log),
         cursor' \in 0..Len(log), UNCHANGED <<log, receipt, fresh, tried, batch>>,
         exhausted' \subseteq Guids,
         UNCHANGED <<flight, asked>> \/ (flight' \in [Guids -> Nat] /\ FlightsAsked')
  PROVE  QueueInv'
<1>1. scan \in [Scanners -> ScanLocals] /\ Len(log) \in Nat
  BY DEF AskInv, DeliveryTypes
<1>2. scan'[s] = me /\ \A t \in Scanners : t # s => scan'[t] = scan[t]
  BY <1>1 DEF Scan
<1>3. CursorsFit'
  BY <1>1, <1>2 DEF QueueInv, CursorsFit
<1>4. QueueTypes'
  BY DEF QueueInv, QueueTypes
<1> QED BY <1>3, <1>4, QueueParts

LEMMA NextFits ==
  ASSUME AskInv, NEW n
  PROVE  NextCursor(Page(n)) \in 0..Len(log)
<1>1. Page(n) \in SUBSET Nat /\ Page(n) \subseteq 1..Len(log) /\ Len(log) \in Nat
  BY PageFits DEF AskInv, DeliveryTypes
<1>2. Page(n) # {} => Min(Page(n)) \in Page(n)
  <2> SUFFICES ASSUME Page(n) # {} PROVE Min(Page(n)) \in Page(n)
    OBVIOUS
  <2>1. \E x \in Page(n) : \A y \in Page(n) : x <= y
    BY <1>1, LeastIsIn
  <2> QED BY <2>1 DEF Min
<1> QED BY <1>1, <1>2 DEF NextCursor

LEMMA MyPlace ==
  ASSUME AskInv, QueueInv, NEW s \in Scanners
  PROVE  /\ scan[s] \in ScanLocals /\ scan[s].next \in 0..Len(log) /\ cursor \in 0..Len(log)
         /\ exhausted \subseteq Guids
  BY DEF AskInv, DeliveryTypes, ScanLocals, QueueInv, QueueTypes, CursorsFit

\* The steps that end an entry, or the pass.
LEMMA DoneQueue ==
  ASSUME AskInv, QueueInv, NEW s \in Scanners, Done(s) \/ Scan(s, IdleScan),
         UNCHANGED <<log, receipt, fresh, tried, batch, cursor>>, exhausted' \subseteq Guids,
         UNCHANGED <<flight, asked>> \/ (flight' \in [Guids -> Nat] /\ FlightsAsked')
  PROVE  QueueInv'
<1> DEFINE u1 == [scan[s] EXCEPT !.at = "entry"]
           u2 == [u1 EXCEPT !.todo = @ \ {Entry(s)}]
<1>1. scan[s] \in ScanLocals /\ scan[s].next \in 0..Len(log) /\ cursor' \in 0..Len(log)
  BY MyPlace
<1>2. u2.next = scan[s].next
  BY <1>1 DEF ScanLocals
<1>3. IdleScan.next \in 0..Len(log)
  BY DEF IdleScan, AskInv, DeliveryTypes
<1>4. CASE Scan(s, IdleScan)
  BY <1>1, <1>3, <1>4, ScanQueue
<1>5. CASE Done(s)
  <2>1. Scan(s, u2)
    BY <1>5, Zenon DEF Done
  <2>2. u2.next \in 0..Len(log)
    BY <1>1, <1>2
  <2> HIDE DEF u2
  <2> QED BY <1>1, <2>1, <2>2, ScanQueue
<1> QED BY <1>4, <1>5

LEMMA LookQueue ==
  ASSUME AskInv, QueueInv, NEW s \in Scanners, ReadNewest(s) \/ ReadOlder(s)
  PROVE  QueueInv'
<1>1. /\ UNCHANGED <<log, flight, receipt, fresh, tried, batch, cursor, exhausted, asked>>
      /\ cursor' \in 0..Len(log) /\ exhausted' \subseteq Guids /\ scan[s] \in ScanLocals
  BY MyPlace DEF ReadNewest, ReadOlder, stored, rows
<1>2. CASE ReadNewest(s)
  <2> DEFINE next == NextCursor(Page(Len(log) + 1))
             me == [IdleScan EXCEPT !.at = IF cursor = 0 THEN "storing" ELSE "older",
                                    !.from = cursor, !.seen = Page(Len(log) + 1), !.next = next]
  <2>1. Scan(s, me)
    BY <1>2, Zenon DEF ReadNewest
  <2>2. next \in 0..Len(log)
    BY NextFits
  <2> HIDE DEF next
  <2>3. me.next \in 0..Len(log)
    BY <2>2 DEF IdleScan
  <2> HIDE DEF me
  <2> QED BY <1>1, <2>1, <2>3, ScanQueue
<1>3. CASE ReadOlder(s)
  <2> DEFINE next == NextCursor(Page(scan[s].from))
             me == [scan[s] EXCEPT !.at = "storing", !.seen = @ \cup Page(scan[s].from),
                                   !.next = next]
  <2>1. Scan(s, me)
    BY <1>3, Zenon DEF ReadOlder
  <2>2. next \in 0..Len(log)
    BY NextFits
  <2> HIDE DEF next
  <2>3. me.next \in 0..Len(log)
    BY <1>1, <2>2 DEF ScanLocals
  <2> HIDE DEF me
  <2> QED BY <1>1, <2>1, <2>3, ScanQueue
<1> QED BY <1>2, <1>3

LEMMA StoreCursorQueue ==
  ASSUME AskInv, QueueInv, NEW s \in Scanners, StoreCursor(s)
  PROVE  QueueInv'
<1> DEFINE me == [scan[s] EXCEPT !.at = "entry", !.seen = {}, !.todo = Deciding(scan[s].seen)]
<1>1. /\ UNCHANGED <<log, flight, receipt, fresh, tried, batch, exhausted, asked>>
      /\ cursor' = scan[s].next /\ scan[s].next \in 0..Len(log) /\ exhausted' \subseteq Guids
      /\ scan[s] \in ScanLocals
  BY MyPlace DEF StoreCursor, NextPlace, stored
<1>2. Scan(s, me)
  BY Zenon DEF StoreCursor
<1>3. me.next \in 0..Len(log)
  BY <1>1 DEF ScanLocals
<1> HIDE DEF me
<1> QED BY <1>1, <1>2, <1>3, ScanQueue

LEMMA EntryQueue ==
  ASSUME AskInv, QueueInv, NEW s \in Scanners,
         EndScan(s) \/ SettleArrived(s) \/ SkipResolved(s) \/ StopScan(s)
  PROVE  QueueInv'
<1>1. /\ UNCHANGED <<log, flight, receipt, fresh, tried, batch, cursor, asked>>
      /\ Done(s) \/ Scan(s, IdleScan)
  BY DEF EndScan, SettleArrived, SkipResolved, StopScan, stored, rows
<1>2. exhausted' \subseteq exhausted
  BY DEF EndScan, SettleArrived, SkipResolved, StopScan, rows, Settle
<1> QED BY <1>1, <1>2, MyPlace, DoneQueue

LEMMA ReadRecoveryQueue ==
  ASSUME AskInv, QueueInv, NEW s \in Scanners, ReadRecovery(s) \/ Charge(s)
  PROVE  QueueInv'
<1>1. /\ UNCHANGED <<log, flight, receipt, fresh, tried, batch, cursor, asked>>
      /\ cursor' \in 0..Len(log) /\ scan[s] \in ScanLocals /\ scan[s].next \in 0..Len(log)
  BY MyPlace DEF ReadRecovery, Charge, stored
<1>2. exhausted' \subseteq Guids
  <2>1. CASE ReadRecovery(s)
    <3>1. Delivery(s) \in Guids
      BY <2>1, EntryIsIn DEF ReadRecovery, AskInv
    <3>2. exhausted' = exhausted \/ exhausted' = exhausted \cup {Delivery(s)}
      BY <2>1 DEF ReadRecovery
    <3> QED BY <3>1, <3>2, MyPlace
  <2>2. CASE Charge(s)
    BY <2>2, MyPlace DEF Charge
  <2> QED BY <2>1, <2>2
<1>3. CASE Done(s)
  BY <1>1, <1>2, <1>3, DoneQueue
<1>4. ASSUME NEW me, Scan(s, me), me.next = scan[s].next
      PROVE  QueueInv'
  BY <1>1, <1>2, <1>4, ScanQueue
<1>5. CASE ReadRecovery(s) /\ ~Done(s)
  <2> DEFINE me == [scan[s] EXCEPT !.at = "claiming", !.attempts = recovery[Delivery(s)].attempts]
  <2>1. Scan(s, me)
    BY <1>5, Zenon DEF ReadRecovery
  <2>2. me.next = scan[s].next
    BY <1>1 DEF ScanLocals
  <2> HIDE DEF me
  <2> QED BY <1>4, <2>1, <2>2
<1>6. CASE Charge(s) /\ ~Done(s)
  <2> DEFINE me == [scan[s] EXCEPT !.at = "asking"]
  <2>1. Scan(s, me)
    BY <1>6, Zenon DEF Charge, ScanTo
  <2>2. me.next = scan[s].next
    BY <1>1 DEF ScanLocals
  <2> HIDE DEF me
  <2> QED BY <1>4, <2>1, <2>2
<1> QED BY <1>3, <1>5, <1>6

LEMMA AskQueue ==
  ASSUME AskInv, QueueInv, NEW s \in Scanners, Ask(s)
  PROVE  QueueInv'
<1>1. UNCHANGED <<log, receipt, fresh, tried, batch, cursor>> /\ Done(s)
  BY DEF Ask, stored
<1>2. PICK g \in Guids : g = Delivery(s)
  BY EntryIsIn DEF Ask, AskInv, Claims
<1>3. exhausted' \subseteq Guids
  <2>1. exhausted' = exhausted \/ exhausted' = exhausted \cup {g}
    BY <1>2 DEF Ask
  <2> QED BY <2>1, MyPlace
<1>4. flight \in [Guids -> Nat] /\ asked \in [Guids -> Nat]
  BY DEF AskInv, DeliveryTypes, QueueInv, QueueTypes
<1>5. PICK n \in {0, 1} : /\ flight' = [flight EXCEPT ![g] = @ + n]
                          /\ asked' = [asked EXCEPT ![g] = @ + n]
  <2>1. PICK arrives \in BOOLEAN :
          /\ flight' = [flight EXCEPT ![g] = IF arrives THEN @ + 1 ELSE @]
          /\ asked' = [asked EXCEPT ![g] = IF arrives THEN @ + 1 ELSE @]
    BY <1>2 DEF Ask
  <2>2. CASE arrives
    BY <2>1, <2>2
  <2>3. CASE ~arrives
    <3>1. flight' = [flight EXCEPT ![g] = flight[g]] /\ asked' = [asked EXCEPT ![g] = asked[g]]
      BY <2>1, <2>3
    <3>2. flight[g] = flight[g] + 0 /\ asked[g] = asked[g] + 0
      BY <1>4
    <3> QED BY <3>1, <3>2
  <2> QED BY <2>2, <2>3
<1>6. flight' \in [Guids -> Nat] /\ FlightsAsked'
  <2>1. /\ flight' \in [Guids -> Nat] /\ flight'[g] = flight[g] + n /\ asked'[g] = asked[g] + n
        /\ \A h \in Guids : h # g => flight'[h] = flight[h] /\ asked'[h] = asked[h]
    BY <1>4, <1>5
  <2>2. \A h \in Guids : flight[h] <= asked[h] + 1 /\ flight[h] \in Nat /\ asked[h] \in Nat
    BY <1>4 DEF QueueInv, FlightsAsked
  <2> QED BY <2>1, <2>2 DEF FlightsAsked
<1> QED BY <1>1, <1>3, <1>6, DoneQueue

LEMMA QueueInvStep == AskInv /\ QueueInv /\ [DNext]_deliveryVars => QueueInv'
<1> SUFFICES ASSUME AskInv, QueueInv, [DNext]_deliveryVars PROVE QueueInv'
  OBVIOUS
<1>1. ASSUME NEW s \in Scanners, ScanStep(s) \/ StopScan(s) PROVE QueueInv'
  BY <1>1, LookQueue, StoreCursorQueue, EntryQueue, ReadRecoveryQueue, AskQueue DEF ScanStep
<1> QED BY <1>1, AttemptQueue, ProcessingQueue DEF DNext

LEMMA QueueInvInit == DInit => QueueInv
<1> SUFFICES ASSUME DInit PROVE QueueInv
  OBVIOUS
<1>1. /\ log = <<>> /\ fresh = <<>> /\ tried = <<>> /\ batch = <<>> /\ exhausted = {} /\ cursor = 0
      /\ flight = [g \in Guids |-> 1] /\ asked = [g \in Guids |-> 0]
      /\ receipt = [g \in Guids |-> "none"] /\ scan = [s \in Scanners |-> IdleScan]
  BY DEF DInit
<1>2. << >> \in Seq(Guids) /\ Len(<< >>) = 0
  BY EmptySeq
<1>3. ToSet(<< >>) = {} /\ Once(<< >>)
  <2>1. 1..Len(<< >>) = {}
    BY <1>2
  <2>2. ToSet(<< >>) = { << >>[i] : i \in 1..Len(<< >>) }
    BY <1>2, MembersOf
  <2> QED BY <2>1, <2>2 DEF Once
<1>4. QueueTypes
  BY <1>1, <1>2 DEF QueueTypes
<1>5. StoredOnce
  BY <1>1, <1>3 DEF StoredOnce
<1>6. FlightsAsked
  BY <1>1 DEF FlightsAsked
<1>7. CursorsFit
  BY <1>1, <1>2 DEF CursorsFit, IdleScan
<1> QED BY <1>4, <1>5, <1>6, <1>7 DEF QueueInv

(* A stored delivery has one place in the order in which they are          *)
(* processed, GitHub makes no attempt that nobody asked for, and a pass    *)
(* goes on at an entry that is there.                                      *)
THEOREM StoredInOrder == DSpec => [](AskInv /\ QueueInv)
<1>1. DInit => AskInv /\ QueueInv
  BY AskInvInit, QueueInvInit
<1>2. AskInv /\ QueueInv /\ [DNext]_deliveryVars => (AskInv /\ QueueInv)'
  BY AskInvStep, QueueInvStep
<1> QED BY <1>1, <1>2, PTL DEF DSpec

LEMMA DeliveryTyped == AskInv /\ QueueInv => DTypeOK
<1> SUFFICES ASSUME AskInv, QueueInv PROVE DTypeOK
  OBVIOUS
<1>1. \A id \in 1..Len(log) : log[id] \in [guid : Guids, ok : BOOLEAN]
  <2>1. log \in Seq(Entries)
    BY DEF AskInv, DeliveryTypes
  <2> QED BY <2>1, LenProperties DEF Entries
<1>2. flight \in [Guids -> 0..MaxRequests + 1]
  <2>1. ASSUME NEW g \in Guids PROVE flight[g] \in 0..MaxRequests + 1
    <3>1. /\ asked[g] \in Nat /\ recovery[g].attempts \in 0..MaxRequests
          /\ asked[g] + Cardinality(Numbers(g)) <= recovery[g].attempts
          /\ flight[g] \in Nat /\ flight[g] <= asked[g] + 1
      BY DEF AskInv, DeliveryTypes, RecoveryRows, QueueInv, QueueTypes, FlightsAsked
    <3>2. Cardinality(Numbers(g)) \in Nat
      BY NumbersCount
    <3> QED BY <3>1, <3>2, DeliveriesAssumption
  <2> QED BY <2>1 DEF QueueInv, QueueTypes
<1>3. receipt \in [Guids -> {"none", "stored", "processed"}] /\ exhausted \subseteq Guids
  BY DEF QueueInv, QueueTypes
<1>4. ToSet(fresh \o tried) = { g \in Guids : receipt[g] = "stored" }
  BY JoinedMembers DEF QueueInv, QueueTypes, StoredOnce
<1>5. \A g \in Guids : recovery[g] \in
        [listed : BOOLEAN, attempts : 0..MaxRequests, waits : BOOLEAN, resolved : BOOLEAN]
  BY DEF AskInv, DeliveryTypes, RecoveryRows
<1>6. cursor \in 0..Len(log)
  BY DEF AskInv, DeliveryTypes, QueueInv, CursorsFit
<1>7. \A s \in Scanners : scan[s].at \in Places /\ scan[s].todo \subseteq 1..Len(log)
  BY DEF AskInv, DeliveryTypes, ScanLocals
<1> QED BY <1>1, <1>2, <1>3, <1>4, <1>5, <1>6, <1>7 DEF DTypeOK

-----------------------------------------------------------------------------
(* The check of a run.                                                     *)

\* The places of a pass that took a claim.
Claiming == {"search", "mark", "waiting", "complete", "failed"}

\* A row is claimed and marked only after it was made.
NoneIsNew == creation.state = "none" => creation.attempts = 0

StartedIsSent ==
  /\ creation.started => sent = 1 /\ creation.state \in {"creating", "ambiguous", "complete"}
  /\ ~creation.started => sent = 0

ClaimIsCounted ==
  /\ creation.state = "creating" => creation.token = creation.attempts /\ creation.token > 0
  /\ creation.state # "creating" => creation.token = 0
  /\ \A p \in Creators :
       creator[p].at \in Claiming => creator[p].token \in 1..creation.attempts

TokensDiffer ==
  \A p, q \in Creators :
    creator[p].at \in Claiming /\ creator[q].at \in Claiming /\ p # q
      => creator[p].token # creator[q].token

\* A pass before its mark works for a row without one, or has lost its claim.
MarkIsFirst ==
  \A p \in Creators :
    creator[p].at \in {"search", "mark"} /\ HasToken(p) => ~creation.started

FoundIsThere ==
  /\ \A p \in Creators : creator[p].at \in {"adopt", "complete"} => creator[p].found \in appChecks
  /\ creation.state = "complete" => creation.check \in appChecks

CInv ==
  CTypeOK /\ NoneIsNew /\ StartedIsSent /\ ClaimIsCounted /\ TokensDiffer /\ MarkIsFirst
  /\ FoundIsThere

-----------------------------------------------------------------------------
(* Each update of the row keeps its type, and the columns it spares.  An   *)
(* update of several columns is taken column by column.                    *)
LEMMA UpdatedState ==
  ASSUME NEW c \in CreationRows, NEW to \in CreationStates
  PROVE  /\ [c EXCEPT !.state = to] \in CreationRows
         /\ [c EXCEPT !.state = to].state = to
         /\ [c EXCEPT !.state = to].started = c.started
         /\ [c EXCEPT !.state = to].attempts = c.attempts
  BY DEF CreationRows

LEMMA UpdatedCheck ==
  ASSUME NEW c \in CreationRows, NEW check \in 0..sent
  PROVE  /\ [c EXCEPT !.check = check] \in CreationRows
         /\ [c EXCEPT !.check = check].check = check
         /\ [c EXCEPT !.check = check].state = c.state
         /\ [c EXCEPT !.check = check].started = c.started
         /\ [c EXCEPT !.check = check].attempts = c.attempts
  BY DEF CreationRows

LEMMA ClearedClaim ==
  ASSUME NEW c \in CreationRows
  PROVE  /\ [c EXCEPT !.token = 0, !.live = FALSE] \in CreationRows
         /\ [c EXCEPT !.token = 0, !.live = FALSE].token = 0
         /\ [c EXCEPT !.token = 0, !.live = FALSE].check = c.check
         /\ [c EXCEPT !.token = 0, !.live = FALSE].state = c.state
         /\ [c EXCEPT !.token = 0, !.live = FALSE].started = c.started
         /\ [c EXCEPT !.token = 0, !.live = FALSE].attempts = c.attempts
<1> DEFINE d == [c EXCEPT !.token = 0]
<1>1. d \in CreationRows
  BY CheckCreationAssumption DEF CreationRows
<1>2. /\ d.token = 0 /\ d.check = c.check /\ d.state = c.state
      /\ d.started = c.started /\ d.attempts = c.attempts
  BY DEF CreationRows
<1> HIDE DEF d
<1>3. [d EXCEPT !.live = FALSE] \in CreationRows
  BY <1>1 DEF CreationRows
<1>4. /\ [d EXCEPT !.live = FALSE].token = d.token
      /\ [d EXCEPT !.live = FALSE].check = d.check
      /\ [d EXCEPT !.live = FALSE].state = d.state
      /\ [d EXCEPT !.live = FALSE].started = d.started
      /\ [d EXCEPT !.live = FALSE].attempts = d.attempts
  BY <1>1 DEF CreationRows
<1> QED
  BY <1>2, <1>3, <1>4 DEF d

RowClaimed(c, count) ==
  [c EXCEPT !.state = "creating", !.live = TRUE, !.attempts = count, !.token = count]

LEMMA ClaimedRow ==
  ASSUME NEW c \in CreationRows, NEW count \in 1..MaxClaims
  PROVE  /\ RowClaimed(c, count) \in CreationRows
         /\ RowClaimed(c, count).state = "creating" /\ RowClaimed(c, count).started = c.started
         /\ RowClaimed(c, count).attempts = count /\ RowClaimed(c, count).token = count
<1> DEFINE c1 == [c EXCEPT !.state = "creating"]
           c2 == [c1 EXCEPT !.live = TRUE]
           c3 == [c2 EXCEPT !.attempts = count]
           c4 == [c3 EXCEPT !.token = count]
<1>0. count \in 0..MaxClaims
  BY CheckCreationAssumption
<1>1. c1 \in CreationRows /\ c1.state = "creating" /\ c1.started = c.started
  BY UpdatedState DEF CreationStates
<1> HIDE DEF c1
<1>2. c2 \in CreationRows /\ c2.state = c1.state /\ c2.started = c1.started
  BY <1>1 DEF CreationRows
<1> HIDE DEF c2
<1>3. c3 \in CreationRows /\ c3.state = c2.state /\ c3.started = c2.started /\ c3.attempts = count
  BY <1>0, <1>2 DEF CreationRows
<1> HIDE DEF c3
<1>4. /\ c4 \in CreationRows /\ c4.state = c3.state /\ c4.started = c3.started
      /\ c4.attempts = c3.attempts /\ c4.token = count
  BY <1>0, <1>3 DEF CreationRows
<1> QED
  BY <1>1, <1>2, <1>3, <1>4 DEF c1, c2, c3, RowClaimed

(* What a claim that ended leaves is a row that nobody holds.              *)
LEMMA GivenUpIsFree ==
  ASSUME CTypeOK
  PROVE  /\ GivenUp(creation) \in CreationRows
         /\ GivenUp(creation).state \in {"pending", "ambiguous", "dead"}
         /\ GivenUp(creation).token = 0
         /\ GivenUp(creation).started = creation.started
         /\ GivenUp(creation).attempts = creation.attempts
         /\ creation.started => GivenUp(creation).state = "ambiguous"
<1> DEFINE to == IF creation.started THEN "ambiguous"
                    ELSE IF creation.attempts >= MaxClaims THEN "dead" ELSE "pending"
           c == [creation EXCEPT !.state = to]
<1>1. to \in {"pending", "ambiguous", "dead"} /\ (creation.started => to = "ambiguous")
  OBVIOUS
<1>2. GivenUp(creation) = [c EXCEPT !.token = 0, !.live = FALSE]
  BY Zenon DEF GivenUp
<1>a. creation \in CreationRows /\ to \in CreationStates
  BY <1>1 DEF CTypeOK, CreationStates
<1> HIDE DEF to
<1>3. /\ c \in CreationRows /\ c.state = to
      /\ c.started = creation.started /\ c.attempts = creation.attempts
  BY <1>a, UpdatedState
<1> HIDE DEF c
<1> QED
  BY <1>1, <1>2, <1>3, ClearedClaim

(* What completes a row keeps its count and its mark.                      *)
LEMMA CompletedIsFree ==
  ASSUME CTypeOK, NEW check \in 0..sent
  PROVE  /\ Completed(creation, check) \in CreationRows
         /\ Completed(creation, check).state = "complete"
         /\ Completed(creation, check).token = 0
         /\ Completed(creation, check).check = check
         /\ Completed(creation, check).started = creation.started
         /\ Completed(creation, check).attempts = creation.attempts
<1> DEFINE c == [creation EXCEPT !.state = "complete"]
           d == [c EXCEPT !.check = check]
<1>1. Completed(creation, check) = [d EXCEPT !.token = 0, !.live = FALSE]
  BY Zenon DEF Completed
<1>2. /\ c \in CreationRows /\ c.state = "complete"
      /\ c.started = creation.started /\ c.attempts = creation.attempts
  BY UpdatedState DEF CTypeOK, CreationStates
<1> HIDE DEF c
<1>3. /\ d \in CreationRows /\ d.state = "complete" /\ d.check = check
      /\ d.started = creation.started /\ d.attempts = creation.attempts
  BY <1>2, UpdatedCheck
<1> HIDE DEF d
<1> QED
  BY <1>1, <1>3, ClearedClaim

(* A check is only found after the POST of the row.                        *)
LEMMA FoundIsSent ==
  ASSUME CTypeOK, StartedIsSent, NEW check \in appChecks
  PROVE  creation.started /\ check \in 0..sent
  BY DEF CTypeOK, StartedIsSent

LEMMA OneIsThere ==
  ASSUME Cardinality(appChecks) = 1
  PROVE  (CHOOSE c \in appChecks : TRUE) \in appChecks
  BY FS_EmptySet

-----------------------------------------------------------------------------
LEMMA InitInv == CInit => CInv
  BY CheckCreationAssumption
  DEF CInit, CInv, CTypeOK, NoneIsNew, StartedIsSent, ClaimIsCounted, TokensDiffer, MarkIsFirst, FoundIsThere,
      NoCreation, CreatorIdle, CreationRows, CreatorRows, CreationStates, CreatorPlaces, Claiming

-----------------------------------------------------------------------------
(* A pass that moves without a change of the row keeps its claim, or drops *)
(* it, and names a check only if it is there.                              *)
LEMMA PassMoves ==
  ASSUME CInv, NEW p \in Creators, NEW me \in CreatorRows,
         creator' = [creator EXCEPT ![p] = me],
         UNCHANGED <<eligible, creation, appChecks, sends, sent, trouble>>,
         me.at \in Claiming => creator[p].at \in Claiming /\ me.token = creator[p].token,
         me.at \in {"search", "mark"} => creator[p].at \in {"search", "mark"},
         me.at \in {"adopt", "complete"} => me.found \in appChecks
  PROVE  CInv'
<1>1. CTypeOK'
  BY DEF CInv, CTypeOK, CreationRows, CreatorRows
<1>2. NoneIsNew' /\ StartedIsSent'
  BY DEF CInv, NoneIsNew, StartedIsSent
<1>3. \A q \in Creators : creator'[q] = IF q = p THEN me ELSE creator[q]
  BY DEF CInv, CTypeOK
<1>4. ClaimIsCounted' /\ TokensDiffer'
  BY <1>3 DEF CInv, ClaimIsCounted, TokensDiffer
<1>5. MarkIsFirst' /\ FoundIsThere'
  BY <1>3 DEF CInv, MarkIsFirst, FoundIsThere, HasToken, Claiming
<1> QED
  BY <1>1, <1>2, <1>4, <1>5 DEF CInv

(* A row that is left without a claim, by a pass that leaves.              *)
LEMMA RowIsFreed ==
  ASSUME CInv, NEW p \in Creators, NEW me \in CreatorRows,
         creator' = [creator EXCEPT ![p] = me],
         me.at \in {"idle", "listing"},
         UNCHANGED <<eligible, appChecks, sends, sent, trouble>>,
         creation' \in CreationRows,
         creation'.state \notin {"creating", "none"}, creation'.token = 0,
         creation'.started = creation.started, creation'.attempts = creation.attempts,
         creation.started => creation'.state \in {"ambiguous", "complete"},
         creation'.state = "complete" => creation'.check \in appChecks
  PROVE  CInv'
<1>1. CTypeOK'
  BY DEF CInv, CTypeOK, CreationRows, CreatorRows
<1>2. NoneIsNew' /\ StartedIsSent'
  BY DEF CInv, NoneIsNew, StartedIsSent
<1>3. \A q \in Creators : creator'[q] = IF q = p THEN me ELSE creator[q]
  BY DEF CInv, CTypeOK
<1>4. ClaimIsCounted' /\ TokensDiffer'
  BY <1>3 DEF CInv, ClaimIsCounted, TokensDiffer, Claiming
<1>5. MarkIsFirst'
  <2> SUFFICES ASSUME NEW q \in Creators, creator'[q].at \in {"search", "mark"}
               PROVE  ~HasToken(q)'
    BY DEF MarkIsFirst
  <2>1. creator'[q] = creator[q] /\ creator[q].token \in 1..creation.attempts
    BY <1>3 DEF CInv, ClaimIsCounted, Claiming
  <2> QED BY <2>1 DEF HasToken, CInv, CTypeOK, CreationRows
<1>6. FoundIsThere'
  BY <1>3 DEF CInv, FoundIsThere
<1> QED
  BY <1>1, <1>2, <1>4, <1>5, <1>6 DEF CInv

(* The locals that a pass is given at its places.                          *)
LEMMA IdleLocals ==
  ASSUME CTypeOK
  PROVE  /\ CreatorIdle \in CreatorRows /\ CreatorIdle.at = "idle"
         /\ [CreatorIdle EXCEPT !.at = "listing"] \in CreatorRows
         /\ [CreatorIdle EXCEPT !.at = "listing"].at = "listing"
<1>1. CreatorIdle \in CreatorRows /\ CreatorIdle.at = "idle"
  BY CheckCreationAssumption DEF CTypeOK, CreatorIdle, CreatorRows, CreatorPlaces
<1> QED
  BY <1>1 DEF CreatorRows, CreatorPlaces

LEMMA PlacedLocals ==
  ASSUME CTypeOK, NEW p \in Creators, NEW place \in CreatorPlaces
  PROVE  /\ [creator[p] EXCEPT !.at = place] \in CreatorRows
         /\ [creator[p] EXCEPT !.at = place].at = place
         /\ [creator[p] EXCEPT !.at = place].token = creator[p].token
         /\ [creator[p] EXCEPT !.at = place].found = creator[p].found
  BY DEF CTypeOK, CreatorRows

LEMMA ClaimedLocals ==
  ASSUME CTypeOK, NEW p \in Creators, NEW count \in 1..MaxClaims
  PROVE  /\ [creator[p] EXCEPT !.at = "search", !.token = count] \in CreatorRows
         /\ [creator[p] EXCEPT !.at = "search", !.token = count].at = "search"
         /\ [creator[p] EXCEPT !.at = "search", !.token = count].token = count
<1> DEFINE me == [creator[p] EXCEPT !.at = "search"]
<1>1. me \in CreatorRows /\ me.at = "search"
  BY PlacedLocals DEF CreatorPlaces
<1> HIDE DEF me
<1>2. /\ [me EXCEPT !.token = count] \in CreatorRows
      /\ [me EXCEPT !.token = count].at = me.at /\ [me EXCEPT !.token = count].token = count
  BY <1>1, CheckCreationAssumption DEF CreatorRows
<1> QED
  BY <1>1, <1>2 DEF me

LEMMA FoundLocals ==
  ASSUME NEW me \in CreatorRows, NEW found \in 0..sent
  PROVE  /\ [me EXCEPT !.found = found] \in CreatorRows
         /\ [me EXCEPT !.found = found].at = me.at
         /\ [me EXCEPT !.found = found].token = me.token
         /\ [me EXCEPT !.found = found].found = found
  BY DEF CreatorRows

-----------------------------------------------------------------------------
(* Every step keeps the invariant.                                         *)
LEMMA NextInv == CInv /\ [CNext]_creationVars => CInv'
<1> SUFFICES ASSUME CInv, [CNext]_creationVars PROVE CInv'
  OBVIOUS
<1>a. CTypeOK /\ StartedIsSent /\ ClaimIsCounted /\ FoundIsThere
  BY DEF CInv
<1>b. /\ "idle" \in CreatorPlaces /\ "listing" \in CreatorPlaces /\ "find" \in CreatorPlaces /\ "adopt" \in CreatorPlaces
      /\ "claim" \in CreatorPlaces /\ "search" \in CreatorPlaces /\ "mark" \in CreatorPlaces
      /\ "waiting" \in CreatorPlaces /\ "complete" \in CreatorPlaces /\ "failed" \in CreatorPlaces
  BY DEF CreatorPlaces
<1>c. 0 \in 0..sent /\ appChecks \subseteq 0..sent
  BY <1>a DEF CTypeOK
<1>d. CreatorIdle \in CreatorRows /\ CreatorIdle.at = "idle"
  BY <1>a, IdleLocals
<1>e. "pending" \in CreationStates
  BY DEF CreationStates
<1>1. ASSUME NEW p \in Creators, Prepare(p) PROVE CInv'
  <2> DEFINE me == [CreatorIdle EXCEPT !.at = "listing"]
  <2>1. creator' = [creator EXCEPT ![p] = me] /\ UNCHANGED <<eligible, appChecks, sends, sent, trouble>>
    BY <1>1 DEF Prepare, CGoto
  <2>2. me \in CreatorRows /\ me.at = "listing"
    BY <1>a, IdleLocals
  <2> HIDE DEF me
  <2>3. CASE creation.state = "none"
    <3> DEFINE c == [NoCreation EXCEPT !.state = "pending"]
    <3>1. creation' = c
      BY <1>1, <2>3 DEF Prepare
    <3>2. c \in CreationRows /\ c.state = "pending" /\ c.token = 0 /\ ~c.started /\ c.attempts = 0
      <4>1. NoCreation \in CreationRows
        BY <1>c, CheckCreationAssumption DEF CreationRows, CreationStates, NoCreation
      <4>2. c \in CreationRows /\ c.state = "pending"
        BY <4>1, <1>e, UpdatedState
      <4>3. c.token = 0 /\ ~c.started /\ c.attempts = 0
        BY DEF NoCreation
      <4> QED BY <4>2, <4>3
    <3> HIDE DEF c
    <3>3. creation.attempts = 0 /\ ~creation.started
      BY <2>3, <1>a DEF CInv, StartedIsSent, NoneIsNew
    <3>4. c.started = creation.started
      BY <3>2, <3>3, <1>a DEF CTypeOK, CreationRows
    <3> QED BY <2>1, <2>2, <3>1, <3>2, <3>3, <3>4, RowIsFreed
  <2>4. CASE creation.state = "creating" /\ ~creation.live
    <3>1. creation' = GivenUp(creation)
      BY <1>1, <2>4 DEF Prepare
    <3> QED BY <2>1, <2>2, <3>1, <1>a, GivenUpIsFree, RowIsFreed
  <2>5. CASE creation.state # "none" /\ ~(creation.state = "creating" /\ ~creation.live)
    <3>1. creation' = creation
      BY <1>1, <2>5 DEF Prepare
    <3> QED BY <2>1, <2>2, <3>1, PassMoves DEF Claiming
  <2> QED BY <2>3, <2>4, <2>5
<1>2. ASSUME NEW p \in Creators, ListCreation(p) PROVE CInv'
  <2>1. PICK place \in {"claim", "find", "idle"} :
          creator' = [creator EXCEPT ![p] = IF place = "idle" THEN CreatorIdle
                                            ELSE [creator[p] EXCEPT !.at = place]]
    BY <1>2, Zenon DEF ListCreation, CGoto, Leave
  <2>2. CASE place = "idle"
    BY <1>2, <2>1, <2>2, <1>d, PassMoves DEF ListCreation, Claiming
  <2>3. CASE place # "idle"
    <3> DEFINE me == [creator[p] EXCEPT !.at = place]
    <3>1. me \in CreatorRows /\ me.at = place /\ creator' = [creator EXCEPT ![p] = me]
      BY <1>a, <1>b, <2>1, <2>3, PlacedLocals
    <3> HIDE DEF me
    <3> QED BY <1>2, <2>1, <2>3, <3>1, PassMoves DEF ListCreation, Claiming
  <2> QED BY <2>2, <2>3
<1>3. ASSUME NEW p \in Creators, FindCreated(p) PROVE CInv'
  <2>1. CASE Leave(p)
    BY <1>3, <2>1, <1>d, PassMoves DEF FindCreated, Leave, CGoto, Claiming
  <2>2. CASE ~Leave(p)
    <3>1. PICK check \in appChecks :
            CGoto(p, [creator[p] EXCEPT !.at = "adopt", !.found = check])
      BY <1>3, <2>2 DEF FindCreated
    <3> DEFINE placed == [creator[p] EXCEPT !.at = "adopt"]
               me == [placed EXCEPT !.found = check]
    <3>3. creator' = [creator EXCEPT ![p] = me]
      BY <3>1 DEF CGoto
    <3>4. placed \in CreatorRows /\ placed.at = "adopt"
      BY <1>a, <1>b, PlacedLocals
    <3> HIDE DEF placed
    <3>2. me \in CreatorRows /\ me.at = "adopt" /\ me.found = check
      BY <1>c, <3>4, FoundLocals
    <3> HIDE DEF me
    <3> QED BY <1>3, <3>2, <3>3, PassMoves DEF FindCreated, Claiming
  <2> QED BY <2>1, <2>2
<1>4. ASSUME NEW p \in Creators, AdoptCreated(p) PROVE CInv'
  <2>1. creator' = [creator EXCEPT ![p] = CreatorIdle] /\ UNCHANGED <<eligible, appChecks, sends, sent, trouble>>
    BY <1>4 DEF AdoptCreated, Leave, CGoto
  <2>2. CASE creation.state = "ambiguous"
    <3>1. creator[p].found \in appChecks /\ creation' = Completed(creation, creator[p].found)
      BY <1>4, <2>2, <1>a DEF AdoptCreated, FoundIsThere
    <3> QED BY <2>1, <3>1, <1>a, <1>c, <1>d, CompletedIsFree, RowIsFreed
  <2>3. CASE creation.state # "ambiguous"
    BY <1>4, <2>1, <2>3, <1>d, PassMoves DEF AdoptCreated, Claiming
  <2> QED BY <2>2, <2>3
<1>5. ASSUME NEW p \in Creators, ClaimCreation(p) PROVE CInv'
  <2>1. CASE ~(creation.state = "pending" /\ creation.attempts < MaxClaims)
    BY <1>5, <2>1, <1>d, PassMoves DEF ClaimCreation, Leave, CGoto, Claiming
  <2>2. CASE creation.state = "pending" /\ creation.attempts < MaxClaims
    <3> DEFINE count == creation.attempts + 1
               next == RowClaimed(creation, count)
               me == [creator[p] EXCEPT !.at = "search", !.token = count]
    <3>1. creation' = next /\ creator' = [creator EXCEPT ![p] = me]
      BY <1>5, <2>2, Zenon DEF ClaimCreation, CGoto, RowClaimed
    <3>2. UNCHANGED <<eligible, appChecks, sends, sent, trouble>>
      BY <1>5 DEF ClaimCreation
    <3>3. count \in 1..MaxClaims /\ count = creation.attempts + 1
      BY <1>a, <2>2, CheckCreationAssumption DEF CTypeOK, CreationRows
    <3> HIDE DEF count
    <3>4. /\ next \in CreationRows /\ next.state = "creating" /\ next.attempts = count
          /\ next.token = count /\ next.started = creation.started
      <4>1. creation \in CreationRows
        BY <1>a DEF CTypeOK
      <4> QED BY <4>1, <3>3, ClaimedRow
    <3>5. me \in CreatorRows /\ me.at = "search" /\ me.token = count
      BY <1>a, <3>3, ClaimedLocals
    <3> HIDE DEF next, me
    <3>6. CTypeOK'
      BY <3>1, <3>2, <3>4, <3>5, <1>a DEF CTypeOK, CreationRows, CreatorRows
    <3>7. ~creation.started
      BY <2>2, <1>a DEF StartedIsSent
    <3>8. StartedIsSent' /\ NoneIsNew'
      BY <3>1, <3>2, <3>4, <3>7, <1>a DEF StartedIsSent, NoneIsNew
    <3>9. \A q \in Creators : creator'[q] = IF q = p THEN me ELSE creator[q]
      BY <3>1, <1>a DEF CTypeOK
    <3>10. ClaimIsCounted' /\ TokensDiffer'
      <4>1. \A q \in Creators : q # p /\ creator[q].at \in Claiming => creator[q].token \in 1..creation.attempts
        BY <1>a DEF ClaimIsCounted
      <4>2. creation.attempts \in Nat
        BY <1>a, CheckCreationAssumption DEF CTypeOK, CreationRows
      <4> QED BY <3>1, <3>3, <3>4, <3>5, <3>9, <4>1, <4>2 DEF CInv, ClaimIsCounted, TokensDiffer
    <3>11. MarkIsFirst'
      BY <3>1, <3>4, <3>7 DEF MarkIsFirst
    <3>12. FoundIsThere'
      BY <3>1, <3>2, <3>4, <3>5, <3>9, <1>a DEF FoundIsThere
    <3> QED BY <3>6, <3>8, <3>10, <3>11, <3>12 DEF CInv
  <2> QED BY <2>1, <2>2
<1>6. ASSUME NEW p \in Creators, SearchCheck(p) PROVE CInv'
  <2> DEFINE place == CASE Cardinality(appChecks) = 0 -> "mark"
                        [] Cardinality(appChecks) = 1 -> "complete"
                        [] OTHER -> "failed"
             found == IF Cardinality(appChecks) = 1 THEN CHOOSE c \in appChecks : TRUE ELSE 0
             placed == [creator[p] EXCEPT !.at = place]
             me == [placed EXCEPT !.found = found]
  <2>1. place \in {"mark", "complete", "failed"} /\ (place = "complete" => Cardinality(appChecks) = 1)
    OBVIOUS
  <2>2. found \in 0..sent /\ (Cardinality(appChecks) = 1 => found \in appChecks)
    BY <1>c, OneIsThere
  <2>3. creator' = [creator EXCEPT ![p] = me]
    BY <1>6, Zenon DEF SearchCheck, CGoto
  <2> HIDE DEF place, found
  <2>4. place \in CreatorPlaces
    BY <2>1, <1>b
  <2>6. placed \in CreatorRows /\ placed.at = place /\ placed.token = creator[p].token
    BY <1>a, <2>4, PlacedLocals
  <2> HIDE DEF placed
  <2>5. me \in CreatorRows /\ me.at = place /\ me.found = found /\ me.token = creator[p].token
    BY <2>2, <2>6, FoundLocals
  <2> HIDE DEF me
  <2> QED BY <1>6, <2>1, <2>2, <2>3, <2>5, PassMoves DEF SearchCheck, Claiming
<1>7. ASSUME NEW p \in Creators, MarkAndSendPost(p) PROVE CInv'
  <2>1. CASE ~(Holds(p) /\ creation.live /\ eligible)
    <3> DEFINE me == [creator[p] EXCEPT !.at = "failed"]
    <3>1. me \in CreatorRows /\ me.at = "failed" /\ me.token = creator[p].token
      BY <1>a, <1>b, PlacedLocals
    <3>2. creator' = [creator EXCEPT ![p] = me]
      BY <1>7, <2>1 DEF MarkAndSendPost, CGoto
    <3> HIDE DEF me
    <3> QED BY <1>7, <2>1, <3>1, <3>2, PassMoves DEF MarkAndSendPost, Claiming
  <2>2. CASE Holds(p) /\ creation.live /\ eligible
    <3> DEFINE next == [creation EXCEPT !.started = TRUE]
               placed == [creator[p] EXCEPT !.at = "waiting"]
               me == [placed EXCEPT !.found = sent']
    <3>1. /\ creation' = next /\ sent' = sent + 1 /\ sends' = sends \cup {sent'}
          /\ creator' = [creator EXCEPT ![p] = me] /\ UNCHANGED <<eligible, appChecks, trouble>>
      BY <1>7, <2>2 DEF MarkAndSendPost, CGoto
    <3>2. creator[p].at = "mark" /\ creation.state = "creating" /\ HasToken(p)
      BY <1>7, <2>2 DEF MarkAndSendPost, Holds, HasToken
    <3>3. ~creation.started /\ sent = 0
      BY <3>2, <1>a DEF CInv, MarkIsFirst, StartedIsSent
    <3>4. /\ next \in CreationRows /\ next.started = TRUE /\ next.state = "creating"
          /\ next.attempts = creation.attempts /\ next.token = creation.token
          /\ next.check = creation.check
      BY <3>2, <1>a DEF CTypeOK, CreationRows
    <3>5. placed \in CreatorRows /\ placed.at = "waiting" /\ placed.token = creator[p].token
      BY <1>a, <1>b, PlacedLocals
    <3>6. me.at = placed.at /\ me.token = placed.token
      BY <3>5 DEF CreatorRows
    <3>7. me \in CreatorRows'
      <4>1. sent' = 1
        BY <3>1, <3>3
      <4>2. placed \in [at : CreatorPlaces, token : 0..MaxClaims, found : 0..1]
        BY <3>3, <3>5 DEF CreatorRows
      <4>3. me \in [at : CreatorPlaces, token : 0..MaxClaims, found : 0..1]
        <5> HIDE DEF placed
        <5> QED BY <4>1, <4>2
      <4> HIDE DEF me
      <4> QED BY <4>1, <4>3 DEF CreatorRows
    <3> HIDE DEF next, placed, me
    <3>8. CTypeOK'
      BY <3>1, <3>3, <3>4, <3>7, <1>a DEF CTypeOK, CreationRows, CreatorRows
    <3>9. StartedIsSent' /\ NoneIsNew'
      BY <3>1, <3>3, <3>4 DEF StartedIsSent, NoneIsNew
    <3>10. \A q \in Creators : creator'[q] = IF q = p THEN me ELSE creator[q]
      BY <3>1, <1>a DEF CTypeOK
    <3>11. ClaimIsCounted' /\ TokensDiffer'
      BY <3>1, <3>2, <3>4, <3>5, <3>6, <3>10 DEF CInv, ClaimIsCounted, TokensDiffer, Claiming
    <3>12. MarkIsFirst'
      <4> SUFFICES ASSUME NEW q \in Creators, creator'[q].at \in {"search", "mark"}
                   PROVE  ~HasToken(q)'
        BY DEF MarkIsFirst
      <4>1. q # p /\ creator'[q] = creator[q]
        BY <3>5, <3>6, <3>10
      <4>2. creator[q].token # creator[p].token
        BY <4>1, <3>2 DEF CInv, TokensDiffer, Claiming
      <4> QED BY <3>1, <3>2, <3>4, <4>1, <4>2 DEF HasToken
    <3>13. FoundIsThere'
      BY <3>1, <3>4, <3>5, <3>6, <3>10, <1>a DEF FoundIsThere
    <3> QED BY <3>8, <3>9, <3>11, <3>12, <3>13 DEF CInv
  <2> QED BY <2>1, <2>2
<1>8. ASSUME NEW p \in Creators, PostAnswered(p) PROVE CInv'
  <2> DEFINE me == [creator[p] EXCEPT !.at = "complete"]
  <2>1. /\ me \in CreatorRows /\ me.at = "complete"
        /\ me.found = creator[p].found /\ me.token = creator[p].token
    BY <1>a, <1>b, PlacedLocals
  <2>2. creator' = [creator EXCEPT ![p] = me]
    BY <1>8 DEF PostAnswered, CGoto
  <2> HIDE DEF me
  <2> QED BY <1>8, <2>1, <2>2, PassMoves DEF PostAnswered, Claiming
<1>9. ASSUME NEW p \in Creators, RequestFails(p) PROVE CInv'
  <2> DEFINE me == [creator[p] EXCEPT !.at = "failed"]
  <2>1. me \in CreatorRows /\ me.at = "failed" /\ me.token = creator[p].token
    BY <1>a, <1>b, PlacedLocals
  <2>2. creator' = [creator EXCEPT ![p] = me]
    BY <1>9 DEF RequestFails, CGoto
  <2> HIDE DEF me
  <2> QED BY <1>9, <2>1, <2>2, PassMoves DEF RequestFails, Claiming
<1>10. ASSUME NEW p \in Creators, StoreCheck(p) PROVE CInv'
  <2>1. creator' = [creator EXCEPT ![p] = CreatorIdle] /\ UNCHANGED <<eligible, appChecks, sends, sent, trouble>>
    BY <1>10 DEF StoreCheck, Leave, CGoto
  <2>2. CASE HasToken(p)
    <3>1. creator[p].found \in appChecks /\ creation' = Completed(creation, creator[p].found)
      BY <1>10, <2>2, <1>a DEF StoreCheck, FoundIsThere
    <3> QED BY <2>1, <3>1, <1>a, <1>c, <1>d, CompletedIsFree, RowIsFreed
  <2>3. CASE ~HasToken(p)
    BY <1>10, <2>1, <2>3, <1>d, PassMoves DEF StoreCheck, Claiming
  <2> QED BY <2>2, <2>3
<1>11. ASSUME NEW p \in Creators, StoreFailure(p) PROVE CInv'
  <2>1. creator' = [creator EXCEPT ![p] = CreatorIdle] /\ UNCHANGED <<eligible, appChecks, sends, sent, trouble>>
    BY <1>11 DEF StoreFailure, Leave, CGoto
  <2>2. CASE HasToken(p)
    BY <1>11, <2>1, <2>2, <1>a, <1>d, GivenUpIsFree, RowIsFreed DEF StoreFailure
  <2>3. CASE ~HasToken(p)
    BY <1>11, <2>1, <2>3, <1>d, PassMoves DEF StoreFailure, Claiming
  <2> QED BY <2>2, <2>3
<1>12. ASSUME NEW p \in Creators, StopCreator(p) PROVE CInv'
  BY <1>12, <1>d, PassMoves DEF StopCreator, Leave, CGoto, Claiming
<1>13. ASSUME NEW check \in sends, PostCreates(check) \/ PostIsLost(check) PROVE CInv'
  BY <1>13
  DEF PostCreates, PostIsLost, CInv, CTypeOK, NoneIsNew, StartedIsSent, ClaimIsCounted, TokensDiffer,
      MarkIsFirst, FoundIsThere, HasToken, CreationRows, CreatorRows
<1>14. CASE RunEnds \/ TroubleEnds \/ UNCHANGED creationVars
  BY <1>14
  DEF RunEnds, TroubleEnds, creationVars, CInv, CTypeOK, NoneIsNew, StartedIsSent, ClaimIsCounted,
      TokensDiffer, MarkIsFirst, FoundIsThere, HasToken, CreationRows, CreatorRows
<1>15. CASE CreationLeaseEnds
  <2>1. /\ creation' \in CreationRows /\ creation'.state = creation.state
        /\ creation'.started = creation.started /\ creation'.attempts = creation.attempts
        /\ creation'.token = creation.token /\ creation'.check = creation.check
    BY <1>15, <1>a DEF CreationLeaseEnds, CTypeOK, CreationRows
  <2>2. UNCHANGED <<eligible, appChecks, sends, sent, creator, trouble>>
    BY <1>15 DEF CreationLeaseEnds
  <2> QED
    BY <2>1, <2>2
    DEF CInv, CTypeOK, NoneIsNew, StartedIsSent, ClaimIsCounted, TokensDiffer, MarkIsFirst, FoundIsThere,
        HasToken, CreationRows, CreatorRows
<1> QED
  BY <1>1, <1>2, <1>3, <1>4, <1>5, <1>6, <1>7, <1>8, <1>9, <1>10, <1>11, <1>12, <1>13, <1>14, <1>15
  DEF CNext, CreatorStep

(* However leases end, passes stop and requests are lost, a run gets one   *)
(* check.                                                                  *)
THEOREM CreationCorrect == CSpec => []CInv
<1>1. CInit => CInv
  BY InitInv
<1>2. CInv /\ [CNext]_creationVars => CInv'
  BY NextInv
<1> QED
  BY <1>1, <1>2, PTL DEF CSpec

(* createChecks sends at most one POST for a run, and a complete row names *)
(* the only check of its run, for any number of overlapping passes.        *)
THEOREM OneCheck == CSpec => []OneCheckOfRun
<1>1. CInv => OneCheckOfRun
  <2> SUFFICES ASSUME CInv PROVE OneCheckOfRun
    OBVIOUS
  <2>1. sent \in {0, 1} /\ appChecks \subseteq 1..sent
    BY DEF CInv, CTypeOK, CreationRows, StartedIsSent
  <2>2. ASSUME creation.state = "complete" PROVE appChecks = {creation.check}
    <3>1. creation.check \in appChecks
      BY <2>2 DEF CInv, FoundIsThere
    <3>2. \A c \in appChecks : c = 1
      BY <2>1
    <3> QED BY <3>1, <3>2
  <2> QED BY <2>1, <2>2 DEF OneCheckOfRun
<1> QED
  BY <1>1, CreationCorrect, PTL

\* What RunCheck maps: the row is done when it is complete.
RunNames == IF creation.state = "complete" THEN {creation.check} ELSE {}

RunOK ==
  /\ sent = 0 \/ sent = 1
  /\ appChecks = {} \/ appChecks = 1..sent
  /\ RunNames = {} \/ RunNames = appChecks
  /\ creation.state = "complete" => RunNames = 1..sent /\ sent = 1

LEMMA RunFacts == CInv => RunOK
<1> SUFFICES ASSUME CInv PROVE RunOK
  OBVIOUS
<1>1. (sent = 0 \/ sent = 1) /\ appChecks \subseteq 1..sent
  BY DEF CInv, CTypeOK, CreationRows, StartedIsSent
<1>2. appChecks = {} \/ appChecks = 1..sent
  <2>1. CASE sent = 0
    BY <1>1, <2>1
  <2>2. CASE sent = 1
    <3>1. 1..sent = {1}
      BY <2>2
    <3> QED BY <1>1, <3>1
  <2> QED BY <1>1, <2>1, <2>2
<1>3. ASSUME creation.state = "complete"
      PROVE  RunNames = 1..sent /\ sent = 1 /\ appChecks = 1..sent
  <2>1. creation.check \in appChecks /\ RunNames = {creation.check}
    BY <1>3 DEF CInv, FoundIsThere, RunNames
  <2>2. \A x \in 1..sent : sent = 1 /\ x = 1
    BY <1>1
  <2>3. sent = 1 /\ creation.check = 1
    BY <1>1, <2>1, <2>2
  <2>4. 1..sent = {1}
    BY <2>3
  <2> QED BY <1>1, <2>1, <2>3, <2>4
<1>4. creation.state # "complete" => RunNames = {}
  BY DEF RunNames
<1> QED BY <1>1, <1>2, <1>3, <1>4 DEF RunOK

\* A pass whose token the row has found it claimed, not complete.
LEMMA TokenIsClaim ==
  ASSUME CInv, NEW p \in Creators, creator[p].at \in Claiming, HasToken(p)
  PROVE  creation.state = "creating"
BY DEF CInv, ClaimIsCounted, CTypeOK, CreationRows, HasToken

LEMMA CompleteStays ==
  ASSUME CInv, [CNext]_creationVars, creation.state = "complete"
  PROVE  creation'.state = "complete"
<1>1. \A p \in Creators : creator[p].at \in Claiming => ~HasToken(p)
  BY TokenIsClaim
<1>2. creation \in CreationRows
  BY DEF CInv, CTypeOK
<1>3. ASSUME NEW p \in Creators, CreatorStep(p) \/ StopCreator(p)
      PROVE  creation' = creation
  <2>1. CASE Prepare(p) \/ ListCreation(p) \/ FindCreated(p) \/ AdoptCreated(p) \/ ClaimCreation(p)
    BY <2>1 DEF Prepare, ListCreation, FindCreated, AdoptCreated, ClaimCreation
  <2>2. CASE SearchCheck(p) \/ PostAnswered(p) \/ RequestFails(p) \/ StopCreator(p)
    BY <2>2 DEF SearchCheck, PostAnswered, RequestFails, StopCreator
  <2>3. CASE MarkAndSendPost(p)
    BY <2>3 DEF MarkAndSendPost, Holds
  <2>4. CASE StoreCheck(p) \/ StoreFailure(p)
    BY <1>1, <2>4 DEF StoreCheck, StoreFailure, Claiming
  <2> QED BY <1>3, <2>1, <2>2, <2>3, <2>4 DEF CreatorStep
<1>4. CASE CreationLeaseEnds
  BY <1>2, <1>4 DEF CreationLeaseEnds, CreationRows
<1>5. CASE UNCHANGED creation
  BY <1>5
<1>6. ASSUME NEW check \in sends, PostCreates(check) \/ PostIsLost(check)
      PROVE  UNCHANGED creation
  BY <1>6 DEF PostCreates, PostIsLost
<1> QED
  BY <1>3, <1>4, <1>5, <1>6 DEF CNext, creationVars, RunEnds, TroubleEnds

\* One step sends, or creates a check, or changes whether the row is done.
LEMMA OneRunStep ==
  ASSUME CInv, [CNext]_creationVars
  PROVE  \/ UNCHANGED <<sent, appChecks>>
         \/ sent' = sent + 1 /\ UNCHANGED <<appChecks, creation.state>>
         \/ appChecks \subseteq appChecks' /\ UNCHANGED <<sent, creation>>
<1>1. ASSUME NEW p \in Creators, CreatorStep(p) \/ StopCreator(p)
      PROVE  \/ UNCHANGED <<sent, appChecks>>
             \/ sent' = sent + 1 /\ UNCHANGED <<appChecks, creation.state>>
  <2>1. CASE MarkAndSendPost(p)
    <3>1. creation \in CreationRows
      BY DEF CInv, CTypeOK
    <3> QED BY <2>1, <3>1 DEF MarkAndSendPost, CreationRows
  <2>2. CASE ~MarkAndSendPost(p)
    BY <1>1, <2>2 DEF CreatorStep, StopCreator, Prepare, ListCreation, FindCreated, AdoptCreated,
       ClaimCreation, SearchCheck, PostAnswered, RequestFails, StoreCheck, StoreFailure
  <2> QED BY <2>1, <2>2
<1>2. ASSUME NEW check \in sends, PostCreates(check) \/ PostIsLost(check)
      PROVE  appChecks \subseteq appChecks' /\ UNCHANGED <<sent, creation>>
  BY <1>2 DEF PostCreates, PostIsLost
<1>3. CASE CreationLeaseEnds \/ RunEnds \/ TroubleEnds \/ UNCHANGED creationVars
  BY <1>3 DEF CreationLeaseEnds, RunEnds, TroubleEnds, creationVars
<1> QED BY <1>1, <1>2, <1>3 DEF CNext

LEMMA RunIdentityStep ==
  ASSUME CInv, RunOK, RunOK', [CNext]_creationVars
  PROVE  [RunCheck!Next]_(RunCheck!identity)
<1>1. /\ sent = 0 \/ sent = 1
      /\ appChecks = {} \/ appChecks = 1..sent
      /\ RunNames = {} \/ RunNames = appChecks
      /\ creation.state = "complete" => RunNames = 1..sent /\ sent = 1
  BY DEF RunOK
<1>2. /\ sent' = 0 \/ sent' = 1
      /\ appChecks' = {} \/ appChecks' = 1..sent'
      /\ RunNames' = {} \/ RunNames' = appChecks'
      /\ creation'.state = "complete" => RunNames' = 1..sent' /\ sent' = 1
  BY DEF RunOK
<1>3. creation.state # "complete" => RunNames = {}
  BY DEF RunNames
<1>4. creation'.state # "complete" => RunNames' = {}
  BY DEF RunNames
<1>5. RunNames # {} => RunNames' # {}
  <2> SUFFICES ASSUME RunNames # {} PROVE RunNames' # {}
    OBVIOUS
  <2>1. creation'.state = "complete"
    BY <1>3, CompleteStays
  <2>2. 1 \in 1..sent'
    BY <1>2, <2>1
  <2> QED BY <1>2, <2>1, <2>2
<1>6. CASE UNCHANGED <<sent, appChecks>>
  <2>1. RunNames' = RunNames \/ (RunNames = {} /\ RunNames' = appChecks)
    BY <1>2, <1>5, <1>6, <1>1
  <2> QED BY <1>6, <2>1 DEF RunCheck!Next, RunCheck!Name, RunCheck!identity, RunNames
<1>7. CASE sent' = sent + 1 /\ UNCHANGED <<appChecks, creation.state>>
  <2>1. sent = 0 /\ sent' = 1
    BY <1>2, <1>7, <1>1
  <2>2. creation.state # "complete"
    BY <2>1, <1>1
  <2>3. RunNames = {} /\ RunNames' = {}
    BY <1>3, <1>4, <1>7, <2>2
  <2> QED BY <1>7, <2>1, <2>3 DEF RunCheck!Next, RunCheck!Request, RunNames
<1>8. CASE appChecks \subseteq appChecks' /\ UNCHANGED <<sent, creation>>
  <2>1. RunNames' = RunNames
    BY <1>8 DEF RunNames
  <2>2. appChecks' = appChecks \/ (appChecks = {} /\ appChecks' = 1..sent)
    BY <1>2, <1>8, <1>1
  <2> QED BY <1>8, <2>1, <2>2 DEF RunCheck!Next, RunCheck!Make, RunCheck!identity, RunNames
<1> QED BY <1>6, <1>7, <1>8, OneRunStep

(* createChecks implements the promise of one identity: whichever passes   *)
(* overlap and stop, GitHub is asked once, and a complete row names the    *)
(* only check of its run for good.                                         *)
THEOREM RunImplementsIdentity == CSpec => RunKeepsOneCheck
<1>1. CInit => RunCheck!Init
  BY DEF CInit, NoCreation, RunCheck!Init
<1>2. CInv /\ RunOK /\ RunOK' /\ [CNext]_creationVars
        => [RunCheck!Next]_(RunCheck!identity)
  BY RunIdentityStep
<1> QED
  BY <1>1, <1>2, RunFacts, CreationCorrect, PTL DEF CSpec, RunKeepsOneCheck, RunCheck!Spec

-----------------------------------------------------------------------------
(* The components together.                                                *)
LEMMA CandidateTyped == PreRunInv => TypeOK
BY DEF PreRunInv

LEMMA RunTyped == CInv => CTypeOK
BY DEF CInv

LEMMA CommentTyped == CommentInv => STypeOK
<1> SUFFICES ASSUME CommentInv PROVE STypeOK
  OBVIOUS
<1>1. CommentTypes
  BY DEF CommentInv
<1>2. comment \in [id : 0..posted, deleted : BOOLEAN, status : 0..MaxStatus,
                   leased : BOOLEAN, holder : Senders \cup {"none"}]
  BY <1>1 DEF CommentTypes, CommentRows
<1>3. ASSUME NEW p \in Senders
      PROVE  sender[p].status \in 0..MaxStatus /\ sender[p].id \in 0..posted
  <2>1. sender[p] \in SenderLocals /\ sender[p].id <= posted /\ posted \in Nat
    BY <1>1 DEF CommentTypes
  <2> QED BY <2>1 DEF SenderLocals
<1> QED BY <1>1, <1>2, <1>3 DEF STypeOK, CommentTypes

(* Whatever passes, calls and deliveries do next to each other, every      *)
(* variable keeps its type; and what is stored and not processed yet is    *)
(* what stands in the order of processing, no attempt is on its way that   *)
(* the charges do not cover, and what passes hold is in the log.           *)
THEOREM EachStaysTyped ==
  ASSUME CallTime < Lease
  PROVE  Spec /\ DSpec /\ CSpec /\ SSpec => []EachTypeOK
<1>1. TypeOK /\ DTypeOK /\ CTypeOK /\ STypeOK => EachTypeOK
  BY DEF EachTypeOK
<1> QED
  BY <1>1, CandidateTyped, CandidateClaims, RunTyped, CreationCorrect, CommentTyped, CommentClaims,
     DeliveryTyped, StoredInOrder, PTL
=============================================================================
