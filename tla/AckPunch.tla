------------------------------ MODULE AckPunch ------------------------------
(***************************************************************************)
(* The earlier hole punching of stun/client_common.h, which client_A and   *)
(* client_B both run: create_hole_punch, from the prompt to its result.    *)
(* A send may fail, a receive waits for a second at most.                  *)
(***************************************************************************)
EXTENDS UdpNat

CONSTANTS
  MaxAttempts,  \* max_attempts
  SendErrors    \* sendto may fail

ASSUME AttemptsArePositive == MaxAttempts \in Nat \ {0} /\ SendErrors \in BOOLEAN

VARIABLES
  phase,    \* phase[p]: where p's program is
  attempt   \* attempt[p]: attempts made

vars == <<phase, attempt, netVars>>

Datagram == {"hole_punch", "ack"}
Phase == {"prompt", "top", "recv", "sleep", "connected", "failed"}

SocketOpen(p) == phase[p] # "failed"

\* Attempts within their limit, and datagrams of the two kinds only.
TypeOK ==
  /\ phase \in [Peers -> Phase]
  /\ attempt \in [Peers -> 0 .. MaxAttempts]
  /\ NetTypeOK(Datagram)

Init ==
  /\ phase = [p \in Peers |-> "prompt"]
  /\ attempt = [p \in Peers |-> 0]
  /\ NetInit

Goto(p, label) == phase' = [phase EXCEPT ![p] = label]

\* The user has typed the other client's address.
Enter(p) ==
  /\ phase[p] = "prompt"
  /\ Goto(p, "top")
  /\ UNCHANGED <<attempt, netVars>>

\* Fault: one attempt too many.
SendOnceMore(p) ==
  /\ phase[p] = "top"
  /\ attempt[p] <= MaxAttempts
  /\ Post(p, "hole_punch")
  /\ Goto(p, "recv")
  /\ UNCHANGED <<attempt, inbox>>

Send(p) ==
  /\ phase[p] = "top"
  /\ attempt[p] < MaxAttempts
  /\ Post(p, "hole_punch")
  /\ Goto(p, "recv")
  /\ UNCHANGED <<attempt, inbox>>

\* -1, and main closes the socket: out of attempts, or the send failed.
GiveUp(p) ==
  /\ phase[p] = "top"
  /\ attempt[p] = MaxAttempts \/ SendErrors
  /\ Goto(p, "failed")
  /\ inbox' = [inbox EXCEPT ![p] = <<>>]
  /\ UNCHANGED <<attempt, wire, opened, dups>>

\* Fault, or what is missing: a hole_punch is acknowledged.
RecvAnswers(p) ==
  /\ phase[p] = "recv"
  /\ Take(p)
  /\ Post(p, "ack")
  /\ Goto(p, IF Head(inbox[p]) = "ack" THEN "connected" ELSE "sleep")
  /\ UNCHANGED attempt

\* An ack is answered with an ack and ends the punching; anything else counts
\* as a failed attempt, the other client's hole_punch included.
Recv(p) ==
  /\ phase[p] = "recv"
  /\ Take(p)
  /\ IF Head(inbox[p]) = "ack"
     THEN Post(p, "ack") /\ Goto(p, "connected")
     ELSE Goto(p, "sleep") /\ UNCHANGED <<wire, opened, dups>>
  /\ UNCHANGED attempt

\* Fault: no SO_RCVTIMEO, the receive waits for a datagram.
RecvBlocks(p) ==
  /\ phase[p] = "recv"
  /\ FALSE
  /\ UNCHANGED vars

\* Nothing came within SO_RCVTIMEO.
RecvTimeout(p) ==
  /\ phase[p] = "recv"
  /\ inbox[p] = <<>>
  /\ Goto(p, "sleep")
  /\ UNCHANGED <<attempt, netVars>>

Sleep(p) ==
  /\ phase[p] = "sleep"
  /\ attempt' = [attempt EXCEPT ![p] = @ + 1]
  /\ Goto(p, "top")
  /\ UNCHANGED netVars

HolePunch(p) == Send(p) \/ GiveUp(p) \/ Recv(p) \/ RecvTimeout(p) \/ Sleep(p)

Deliver(p) == Arrive(p, SocketOpen(p)) /\ UNCHANGED <<phase, attempt>>
Network(p) == \/ Deliver(p)
              \/ (Lose(p) \/ Duplicate(p)) /\ UNCHANGED <<phase, attempt>>

Next == \E p \in Peers : Enter(p) \/ HolePunch(p) \/ Network(p)

Spec == Init /\ [][Next]_vars

\* Users type the address, programs run, datagrams that are not lost arrive.
LiveSpec == Spec /\ \A p \in Peers : /\ WF_vars(Enter(p))
                                     /\ WF_vars(HolePunch(p))
                                     /\ WF_vars(Deliver(p))

-----------------------------------------------------------------------------
\* An ack is only sent to answer an ack, so none is ever sent: on no network do
\* the two clients reach the code that comes after create_hole_punch.
NeverAcked == \A p \in Peers : phase[p] # "connected" /\ ~Pending(p, "ack")

\* create_hole_punch returns: what arrives between its attempts, in whatever
\* number and order, does not buy more of them.
PunchEnds == \A p \in Peers : phase[p] = "top" ~> phase[p] \in {"connected", "failed"}
=============================================================================
