------------------------------ MODULE PortScan ------------------------------
(***************************************************************************)
(* The hole punching of test/p2p_client.c: in every attempt one client     *)
(* asks the peer's port, the last port it heard from and then a range of   *)
(* ports around the peer's, and listens for a while after each of those.   *)
(*                                                                         *)
(* Port numbers are uint16_t: they wrap at PortLimit.  The unit of time is *)
(* the pause between two looks at the socket; what arrives is arbitrary.   *)
(***************************************************************************)
EXTENDS Naturals

CONSTANTS
  PortLimit,      \* 2^16
  PortRange,      \* PORT_RANGE
  PortStep,       \* distance of the ports asked
  LowestPort,     \* where the range starts for a small peer port
  Looks,          \* looks at the socket after each port
  PunchTimeout,   \* PUNCH_TIMEOUT_SEC, in looks
  PunchInterval,  \* PUNCH_INTERVAL_MS, in looks
  PeerPorts,      \* the ports a user may type
  ReplyPorts,     \* the ports something may arrive from
  MaxElapsed      \* bound: where the model's clock stops

Port == 0 .. PortLimit - 1

ASSUME PortsAreWords ==
  /\ {PortLimit, PortStep, Looks} \subseteq Nat \ {0}
  /\ PortRange \in Port /\ LowestPort \in Port
  /\ PeerPorts \subseteq Port \ {0} /\ ReplyPorts \subseteq Port \ {0}
ASSUME TimesAreNatural == {PunchTimeout, PunchInterval, MaxElapsed} \subseteq Nat

VARIABLES
  pc,         \* "top", "port", "look", "pause", "connected" or "failed"
  base_port,
  peer_port,  \* where peer_addr points: requests and, later, the chat go there
  port,
  looks,      \* looks at the socket since the request to port
  elapsed,    \* time(NULL) - start_time
  last_working_port,
  tried       \* history: the ports asked in this attempt

vars == <<pc, base_port, peer_port, port, looks, elapsed, last_working_port, tried>>

\* Ports are 16-bit words, looks and time within their limits.
TypeOK ==
  /\ pc \in {"top", "port", "look", "pause", "connected", "failed"}
  /\ {base_port, peer_port, port, last_working_port} \subseteq Port
  /\ looks \in 0 .. Looks
  /\ elapsed \in 0 .. MaxElapsed
  /\ tried \subseteq Port

Init ==
  /\ pc = "top"
  /\ base_port \in PeerPorts /\ peer_port = base_port
  /\ port = 0 /\ looks = 0 /\ elapsed = 0
  /\ last_working_port = 0 /\ tried = {}

\* The range, in 16-bit arithmetic.
Word(n) == n % PortLimit
PortMin == IF base_port > PortRange THEN base_port - PortRange ELSE LowestPort
PortMax == Word(base_port + PortRange)

\* The model's clock stops at MaxElapsed.
Pass(t) == elapsed' = IF elapsed + t <= MaxElapsed THEN elapsed + t ELSE MaxElapsed

-----------------------------------------------------------------------------
\* Fault: no timeout.
AlwaysTime == TRUE

TimeLeft == elapsed < PunchTimeout

\* An attempt begins with the peer's port and the last port heard from.
Attempt ==
  /\ pc = "top"
  /\ TimeLeft
  /\ tried' = {peer_port} \union ({last_working_port} \ {0})
  /\ port' = PortMin
  /\ pc' = "port"
  /\ UNCHANGED <<base_port, peer_port, looks, elapsed, last_working_port>>

GiveUp ==
  /\ pc = "top"
  /\ ~TimeLeft
  /\ pc' = "failed"
  /\ UNCHANGED <<base_port, peer_port, port, looks, elapsed, last_working_port, tried>>

\* Fault: off by one.
BelowMax == port < PortMax

InRange == port <= PortMax

AskPort ==
  /\ pc = "port"
  /\ InRange
  /\ tried' = tried \union {port}
  /\ looks' = 0
  /\ pc' = "look"
  /\ UNCHANGED <<base_port, peer_port, port, elapsed, last_working_port>>

RangeDone ==
  /\ pc = "port"
  /\ ~InRange
  /\ pc' = "pause"
  /\ UNCHANGED <<base_port, peer_port, port, looks, elapsed, last_working_port, tried>>

\* Fault: one look too many.
NextLookMore ==
  /\ looks' = looks + 1
  /\ IF looks + 1 <= Looks
     THEN UNCHANGED <<pc, port>>
     ELSE pc' = "port" /\ port' = Word(port + PortStep)
  /\ Pass(1)
  /\ UNCHANGED <<base_port, tried>>

\* After a look: the next one, or the next port.
NextLook ==
  /\ looks' = looks + 1
  /\ IF looks + 1 < Looks
     THEN UNCHANGED <<pc, port>>
     ELSE pc' = "port" /\ port' = Word(port + PortStep)
  /\ Pass(1)
  /\ UNCHANGED <<base_port, tried>>

LookNothing ==
  /\ pc = "look"
  /\ NextLook
  /\ UNCHANGED <<peer_port, last_working_port>>

\* Fault: a request starts the range anew.
LookReqAnew(from) ==
  /\ pc = "look"
  /\ last_working_port' = from
  /\ peer_port' = from
  /\ port' = PortMin
  /\ pc' = "port"
  /\ Pass(1)
  /\ UNCHANGED <<base_port, looks, tried>>

\* A request is answered where it came from, and the peer is there from now on.
LookReq(from) ==
  /\ pc = "look"
  /\ last_working_port' = from
  /\ peer_port' = from
  /\ NextLook

LookOther(from) ==
  /\ pc = "look"
  /\ last_working_port' = from
  /\ NextLook
  /\ UNCHANGED peer_port

LookAck(from) ==
  /\ pc = "look"
  /\ last_working_port' = from
  /\ pc' = "connected"
  /\ UNCHANGED <<base_port, peer_port, port, looks, elapsed, tried>>

Pause ==
  /\ pc = "pause"
  /\ Pass(PunchInterval)
  /\ pc' = "top"
  /\ UNCHANGED <<base_port, peer_port, port, looks, last_working_port, tried>>

Look == \/ LookNothing
        \/ \E from \in ReplyPorts : LookReq(from) \/ LookOther(from) \/ LookAck(from)

Next == Attempt \/ GiveUp \/ AskPort \/ RangeDone \/ Look \/ Pause

Spec == Init /\ [][Next]_vars

LiveSpec == Spec /\ WF_vars(Next)

-----------------------------------------------------------------------------
\* A finished attempt has asked every PortStep-th port from PORT_RANGE below the
\* peer's port to PORT_RANGE above it, as far as there are such ports.
Wanted == {n \in Port : /\ n >= PortMin /\ n <= base_port + PortRange
                        /\ (n - PortMin) % PortStep = 0}

RangeTried == pc = "pause" => Wanted \subseteq tried

\* The client punches for PUNCH_TIMEOUT_SEC, then gives up, or is connected before.
PunchEnds == <>(pc \in {"connected", "failed"})

\* The timeout is only looked at between attempts: one attempt is the most the
\* client can be late, whatever arrives meanwhile.
AttemptTime == ((2 * PortRange) \div PortStep + 1) * Looks + PunchInterval

LateByOneAttempt == elapsed < PunchTimeout + AttemptTime
=============================================================================
