------------------------------ MODULE SingleUse ------------------------------
(***************************************************************************)
(* What the authorization server promises of the credentials it hands out: *)
(* each is issued once, is redeemed at most once, and not after it has     *)
(* died; what it is redeemed for is one successor.                         *)
(***************************************************************************)
CONSTANTS
  Credentials,
  First,           \* those that are issued for no other: codes and sessions
  None

VARIABLES
  stage,     \* credential -> free | listed | redeemed | dead
  parent     \* credential -> the one it was issued for, None for a first one

vars == <<stage, parent>>

Init ==
  /\ stage = [c \in Credentials |-> "free"]
  /\ parent = [c \in Credentials |-> None]

Move(c, from, to) == stage[c] = from /\ stage' = [stage EXCEPT ![c] = to]

Issue(c) == c \in First /\ Move(c, "free", "listed") /\ UNCHANGED parent

Redeem(c) == Move(c, "listed", "redeemed") /\ UNCHANGED parent

Succeed(c, d) ==
  /\ d \notin First
  /\ stage[c] = "redeemed"
  /\ \A e \in Credentials : parent[e] # c
  /\ Move(d, "free", "listed")
  /\ parent' = [parent EXCEPT ![d] = c]

\* One expires or is revoked, or all that a process kept in memory is lost with it.
Die(gone) ==
  /\ \A c \in gone : stage[c] = "listed"
  /\ stage' = [c \in Credentials |-> IF c \in gone THEN "dead" ELSE stage[c]]
  /\ UNCHANGED parent

Next ==
  \/ \E c \in Credentials : Issue(c) \/ Redeem(c)
  \/ \E c, d \in Credentials : Succeed(c, d)
  \/ \E gone \in SUBSET Credentials : Die(gone)

Spec == Init /\ [][Next]_vars
=============================================================================
