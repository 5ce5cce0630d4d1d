--------------------------- MODULE PunchContract ---------------------------
(***************************************************************************)
(* What hole punching promises, whatever the network does: a peer calls    *)
(* the path established only after a datagram of its own got through to    *)
(* the other peer (who must have heard it to answer), each peer decides    *)
(* once, and a decision is final.                                          *)
(***************************************************************************)
CONSTANTS A, B

VARIABLES
  status,  \* status[p]: "trying", "connected" or "failed"
  reached  \* the peers that have heard the other one

vars == <<status, reached>>

Peers == {A, B}
Other(p) == IF p = A THEN B ELSE A

Init ==
  /\ status = [p \in Peers |-> "trying"]
  /\ reached = {}

Hear(p) ==
  /\ status[p] = "trying"
  /\ reached' = reached \union {p}
  /\ UNCHANGED status

Connect(p) ==
  /\ status[p] = "trying"
  /\ Other(p) \in reached
  /\ status' = [status EXCEPT ![p] = "connected"]
  /\ UNCHANGED reached

GiveUp(p) ==
  /\ status[p] = "trying"
  /\ status' = [status EXCEPT ![p] = "failed"]
  /\ UNCHANGED reached

Next == \E p \in Peers : Hear(p) \/ Connect(p) \/ GiveUp(p)

Spec == Init /\ [][Next]_vars
=============================================================================
