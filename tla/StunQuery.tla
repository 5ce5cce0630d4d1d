------------------------------ MODULE StunQuery ------------------------------
(***************************************************************************)
(* The two STUN queries of the repository, side by side:                   *)
(* - "library": getPublicIPAddressAndPort of stun/STUNExternalIP.c         *)
(*   (udp_test_02 has a copy), over a socket of its own, with a list of    *)
(*   what to free on each of its ways out;                                 *)
(* - "client": get_public_endpoint of test3/p2p_client.c (test2, test and  *)
(*   week1 have it too), over the client's socket, without a timeout.      *)
(*                                                                         *)
(* Both read one datagram.  Their sockets are bound to the port of the     *)
(* run before, so the reply to an earlier request or a PUNCH_REQ of a peer *)
(* that still punches may come first.                                      *)
(***************************************************************************)
EXTENDS Integers, StunWalk

CONSTANTS
  LittleEndian,  \* the host's byte order
  Octet,         \* number of values of an octet, 256
  MappedOctets,  \* the public address the server reports
  Cookie,        \* the octets of STUN_MAGIC_COOKIE, from the highest down
  XorOctet(_, _),
  MaxStray       \* bound: datagrams from an earlier run

ASSUME HostKind == LittleEndian \in BOOLEAN

Octets == 0 .. Octet - 1
Quad == [1 .. 4 -> Octets]

ASSUME OctetsAreOctets == Octet \in Nat \ {0} /\ {MappedOctets, Cookie} \subseteq Quad
ASSUME XorUndoesItself ==
  \A a, b \in Octets : XorOctet(a, b) \in Octets /\ XorOctet(XorOctet(a, b), b) = a
ASSUME StraysAreCounted == MaxStray \in Nat

VARIABLES
  program,   \* which of the two queries
  pc,        \* the call made next, or "returned"
  held,      \* library: what is open or allocated
  datagram,  \* what was read
  code,      \* the value returned
  address,   \* the caller's buffer, as four printed numbers
  server,    \* the request: not sent, sent, answered or (it, or the answer) lost
  inbox,     \* the socket's receive queue
  strays     \* datagrams from an earlier run so far

netVars == <<server, inbox, strays>>
vars == <<program, pc, held, datagram, code, address, netVars, walkVars>>

Resource == {"socketd", "localAddress", "hints", "results",
             "remoteAddress", "request", "buffer"}
Step == {"socket", "bind", "resolve", "send", "read", "check", "walk"}
Reply(identifiers) ==
  [type : {"response"}, identifier : identifiers, attributes : Attributes]
PunchReq == [type |-> "other", identifier |-> "earlier", attributes |-> <<>>]
Datagram == Reply({"mine", "earlier"}) \union {PunchReq}

\* Where the query is, the value it returns, what it holds and what it read.
TypeOK ==
  /\ program \in {"library", "client"}
  /\ pc \in Step \union {"returned"}
  /\ held \subseteq Resource
  /\ datagram \in Datagram
  /\ code \in -5 .. 0
  /\ address = <<>> \/ address \in Quad
  /\ server \in {"idle", "asked", "answered", "lost"}
  /\ inbox \in Seq(Datagram)
  /\ strays \in 0 .. MaxStray
  /\ WalkTypeOK

\* The client has its socket already.
Init ==
  /\ \/ program = "library" /\ pc = "socket"
     \/ program = "client" /\ pc = "resolve"
  /\ held = {} /\ datagram = PunchReq
  /\ code = 0 /\ address = <<>>
  /\ server = "idle" /\ inbox = <<>> /\ strays = 0
  /\ NoWalk

Continue(next) ==
  /\ pc' = next
  /\ UNCHANGED code

End(c) ==
  /\ pc' = "returned"
  /\ code' = c

-----------------------------------------------------------------------------
\* getPublicIPAddressAndPort.

Library == program = "library"
Acquire(taken) == held' = held \union taken

\* Fault: the sign of the value is lost.
ReturnUnsigned(c, freed) ==
  /\ End(-c)
  /\ held' = held \ freed

\* return c, freeing what is in freed.
Return(c, freed) ==
  /\ End(c)
  /\ held' = held \ freed

Rest == <<program, datagram, address, netVars, walkVars>>

Socket ==
  /\ Library /\ pc = "socket"
  /\ \/ Continue("bind") /\ Acquire({"socketd", "localAddress"})
     \/ Return(-1, {})
  /\ UNCHANGED Rest

Bind ==
  /\ Library /\ pc = "bind"
  /\ \/ Continue("resolve") /\ Acquire({"hints"})
     \/ Return(-1, {"localAddress", "socketd"})
  /\ UNCHANGED Rest

\* Fault: the early return forgets the hints.
ResolveLeaks ==
  /\ Library /\ pc = "resolve"
  /\ \/ Continue("send") /\ Acquire({"results", "remoteAddress", "request"})
     \/ Return(-2, {"localAddress", "socketd"})
  /\ UNCHANGED Rest

\* An empty list of addresses is a failure too.
Resolve ==
  /\ Library /\ pc = "resolve"
  /\ \/ Continue("send") /\ Acquire({"results", "remoteAddress", "request"})
     \/ Return(-2, {"localAddress", "hints", "socketd"})
  /\ UNCHANGED Rest

Ask == server' = "asked" /\ UNCHANGED <<inbox, strays>>

Send ==
  /\ Library /\ pc = "send"
  /\ \/ Continue("read") /\ Acquire({"buffer"}) /\ Ask
     \/ Return(-3, Resource \ {"buffer"}) /\ UNCHANGED netVars
  /\ UNCHANGED <<program, datagram, address, walkVars>>

\* The first datagram, whatever it is.
TakeFirst ==
  /\ inbox # <<>>
  /\ datagram' = Head(inbox)
  /\ inbox' = Tail(inbox)
  /\ Continue("check")
  /\ UNCHANGED <<program, held, address, server, strays, walkVars>>

Read == Library /\ pc = "read" /\ TakeFirst

\* Fault: no timeout.
ReadBlocks ==
  /\ Library /\ pc = "read"
  /\ FALSE
  /\ UNCHANGED vars

\* None within the timeout of five seconds, or an error.
ReadFails ==
  /\ Library /\ pc = "read"
  /\ Return(-4, Resource)
  /\ UNCHANGED Rest

\* Fault: the identifier is not compared.
CheckTypeOnly ==
  /\ Library /\ pc = "check"
  /\ IF datagram.type # "response"
     THEN Return(-5, Resource) /\ UNCHANGED walkVars
     ELSE Continue("walk") /\ Acquire({}) /\ StartWalk(datagram.attributes)
  /\ UNCHANGED <<program, datagram, address, netVars>>

Check ==
  /\ Library /\ pc = "check"
  /\ CASE datagram.type # "response" ->
            Return(-5, Resource) /\ UNCHANGED walkVars
       [] datagram.type = "response" /\ datagram.identifier # "mine" ->
            Return(-1, Resource) /\ UNCHANGED walkVars
       [] OTHER ->
            Continue("walk") /\ Acquire({}) /\ StartWalk(datagram.attributes)
  /\ UNCHANGED <<program, datagram, address, netVars>>

\* An integer and its octets from the highest down.
Joined(o) == o[4] + Octet * (o[3] + Octet * (o[2] + Octet * o[1]))

Dotted(n) == << n \div (Octet * Octet * Octet), (n \div (Octet * Octet)) % Octet,
                (n \div Octet) % Octet, n % Octet >>

\* Those octets as the host's memory has them, and back.
InMemory(o) == IF LittleEndian THEN <<o[4], o[3], o[2], o[1]>> ELSE o

Load(o) == Joined(InMemory(o))
Store(n) == InMemory(Dotted(n))

\* ntohl and htonl: the octets of the one order taken for those of the other.
Ntohl(n) == Joined(Store(n))
Htonl(n) == Load(Dotted(n))

ExclusiveOr(n, m) == Joined([i \in 1 .. 4 |-> XorOctet(Dotted(n)[i], Dotted(m)[i])])

\* What the server puts into XOR-MAPPED-ADDRESS.
WireOctets == [i \in 1 .. 4 |-> XorOctet(MappedOctets[i], Cookie[i])]

\* The integer is printed from its highest octet down.
NumAddress == Dotted(ExclusiveOr(Load(WireOctets), Htonl(Joined(Cookie))))

Walk ==
  /\ Library /\ pc = "walk"
  /\ WalkStep(FALSE)
  /\ IF found' = "nothing"
     THEN UNCHANGED <<pc, held, code, address>>
     ELSE /\ Return(0, Resource)
          /\ address' \in IF found' = "mapped" THEN {NumAddress} ELSE Quad
  /\ UNCHANGED <<program, datagram, netVars>>

WalkEnds ==
  /\ Library /\ pc = "walk"
  /\ AtEnd
  /\ Return(-5, Resource)
  /\ UNCHANGED Rest

-----------------------------------------------------------------------------
\* get_public_endpoint and parse_stun_response: 0 or -1, and main exits on -1.

Client == program = "client"

ResolveHost ==
  /\ Client /\ pc = "resolve"
  /\ Continue("send") \/ End(-1)
  /\ UNCHANGED <<held, Rest>>

SendRequest ==
  /\ Client /\ pc = "send"
  /\ \/ Continue("read") /\ Ask
     \/ End(-1) /\ UNCHANGED netVars
  /\ UNCHANGED <<program, held, datagram, address, walkVars>>

\* The receive waits for a datagram and takes any for the reply.
Receive == Client /\ pc = "read" /\ TakeFirst

ReceiveFails ==
  /\ Client /\ pc = "read"
  /\ End(-1)
  /\ UNCHANGED <<held, Rest>>

Parse ==
  /\ Client /\ pc = "check"
  /\ IF datagram.type = "response"
     THEN Continue("walk") /\ StartWalk(datagram.attributes)
     ELSE End(-1) /\ UNCHANGED walkVars
  /\ UNCHANGED <<program, held, datagram, address, netVars>>

\* Fault: the address is not put back into network order.
AddressUnconverted == Store(ExclusiveOr(Ntohl(Load(WireOctets)), Joined(Cookie)))

\* What inet_ntop prints, octet by octet as they stand in memory.
ParsedAddress == Store(Htonl(ExclusiveOr(Ntohl(Load(WireOctets)), Joined(Cookie))))

ParseAttribute ==
  /\ Client /\ pc = "walk"
  /\ WalkStep(TRUE)
  /\ IF found' = "nothing"
     THEN UNCHANGED <<pc, code, address>>
     ELSE End(0) /\ address' = ParsedAddress
  /\ UNCHANGED <<program, held, datagram, netVars>>

ParseEnds ==
  /\ Client /\ pc = "walk"
  /\ AtEnd
  /\ End(-1)
  /\ UNCHANGED <<held, Rest>>

-----------------------------------------------------------------------------
\* The STUN server, the network and what is left of an earlier run.

Outside == <<program, pc, held, datagram, code, address, walkVars>>

Answer ==
  /\ server = "asked"
  /\ server' = "answered"
  /\ \E r \in Reply({"mine"}) : inbox' = Append(inbox, r)
  /\ UNCHANGED <<strays, Outside>>

Lose ==
  /\ server = "asked"
  /\ server' = "lost"
  /\ UNCHANGED <<inbox, strays, Outside>>

\* The socket is bound and not closed yet.
SocketOpen == pc \notin {"socket", "bind", "returned"}

Leftover ==
  /\ SocketOpen
  /\ strays < MaxStray
  /\ strays' = strays + 1
  /\ \E d \in Reply({"earlier"}) \union {PunchReq} : inbox' = Append(inbox, d)
  /\ UNCHANGED <<server, Outside>>

LibraryStep == Socket \/ Bind \/ Resolve \/ Send \/ Read \/ ReadFails
               \/ Check \/ Walk \/ WalkEnds
ClientStep == ResolveHost \/ SendRequest \/ Receive \/ Parse \/ ParseAttribute
              \/ ParseEnds
Network == Answer \/ Lose \/ Leftover

Next == LibraryStep \/ ClientStep \/ ReceiveFails \/ Network

Spec == Init /\ [][Next]_vars

\* The programs run, a timeout runs out, and what is not lost is answered.
LiveSpec == Spec /\ WF_vars(LibraryStep) /\ WF_vars(ClientStep) /\ WF_vars(Answer)

-----------------------------------------------------------------------------
Returned == pc = "returned"

\* Every way out of the library closes the socket and frees what had been
\* allocated by then.
NothingHeld == Returned => held = {}

\* An endpoint is only ever made of a response, the library's only of the
\* response to this very request; and a response that reports one gives it,
\* whatever attributes come before it, unless the library meets a padded one.
ReplyUsed ==
  Returned =>
    /\ code = 0 => datagram.type = "response" /\ (Library => datagram.identifier = "mine")
    /\ (datagram.type = "response" /\ (Library => datagram.identifier = "mine")
          /\ HasMapped(datagram.attributes) /\ Walkable(Client, datagram.attributes))
         => code = 0 /\ found = "mapped"

\* The library's query returns, whatever is lost; the client's returns unless
\* its request or the reply is lost, when its receive may wait for ever.
QueryReturns == <>(Returned \/ (Client /\ server = "lost"))

\* "A non-null buffer to store the public IPv4 address": that address, with its
\* octets in the order the server sent them.
AddressIsMapped == Returned /\ found = "mapped" => address = MappedOctets

\* The client's conversions, ntohl and the cookie in the host's order, htonl and
\* inet_ntop, cancel out: it prints the address the server meant.
ClientPrintsMapped == Client => AddressIsMapped
=============================================================================
