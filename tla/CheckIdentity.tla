---------------------------- MODULE CheckIdentity ----------------------------
(***************************************************************************)
(* What the service promises of the GitHub check with one external         *)
(* identity, be it of a candidate or of a run: it asks GitHub once, so     *)
(* that there is one check at most; a row that is done names that check,   *)
(* and names it for good.                                                  *)
(***************************************************************************)
EXTENDS Naturals

VARIABLES
  requests,  \* the requests that the service made; their checks are 1..requests
  made,      \* the checks with the identity
  named      \* the check that the row names when it is done, as a set

identity == <<requests, made, named>>

\* A row can be as old as the service.
Init ==
  /\ requests \in {0, 1} /\ made \in {{}, 1..requests}
  /\ named \in {{}, made}

Request == requests = 0 /\ requests' = 1 /\ UNCHANGED <<made, named>>

Make == made = {} /\ made' = 1..requests /\ UNCHANGED <<requests, named>>

Name == named = {} /\ named' = made /\ UNCHANGED <<requests, made>>

Next == Request \/ Make \/ Name

Spec == Init /\ [][Next]_identity
=============================================================================
