----------------------------- MODULE StunProofs -----------------------------
(***************************************************************************)
(* The two STUN queries, for every number of attributes in a reply, every  *)
(* length of their values, any number of stray datagrams and both byte     *)
(* orders.                                                                 *)
(***************************************************************************)
EXTENDS StunQuery, SequenceTheorems, TLAPS

\* What is open or allocated before each call of the library; the client holds
\* nothing of its own.
HeldInv ==
  /\ Client \/ pc \in {"socket", "returned"} => held = {}
  /\ pc = "bind" => held \subseteq {"socketd", "localAddress"}
  /\ pc = "resolve" => held \subseteq {"socketd", "localAddress", "hints"}
  /\ pc = "send" => held \subseteq Resource \ {"buffer"}

\* Nothing is read before the receive, and nothing found before the return.
ReadInv ==
  /\ pc \in {"socket", "bind", "resolve", "send", "read"} => datagram = PunchReq
  /\ ~Returned => found = "nothing"

\* The query's own reply, as far as it looks.
Usable == datagram.type = "response" /\ (Library => datagram.identifier = "mine")

\* While no padding can lead the pointer astray, it stands before the attribute
\* looked for if there is one.
WalkInv ==
  pc = "walk" =>
    /\ Usable
    /\ Walkable(Client, datagram.attributes) =>
         /\ aligned
         /\ Walkable(Client, todo)
         /\ HasMapped(datagram.attributes) => HasMapped(todo)

QueryInv ==
  TypeOK /\ HeldInv /\ ReadInv /\ WalkInv /\ ReplyUsed

-----------------------------------------------------------------------------
\* Attributes and datagrams.

LEMMA AttributesAreSeqs == Attributes \subseteq Seq(Attribute)
<1> SUFFICES ASSUME NEW s \in Attributes
             PROVE  s \in Seq(Attribute)
  OBVIOUS
<1>1. PICK m \in 0 .. MaxAttributes : s \in [1 .. m -> Attribute]
  BY DEF Attributes, SeqOf
<1>2. m \in Nat
  BY LengthsAreNatural
<1> QED BY <1>1, <1>2, SeqDef

LEMMA DatagramFacts ==
  /\ PunchReq \in Datagram /\ PunchReq.type = "other"
  /\ Reply({"earlier"}) \subseteq Datagram /\ Reply({"mine"}) \subseteq Datagram
  /\ \A d \in Datagram : d.attributes \in Seq(Attribute)
<1>1. PunchReq \in Datagram /\ PunchReq.type = "other"
  BY DEF Datagram, PunchReq
<1>2. Reply({"earlier"}) \subseteq Datagram /\ Reply({"mine"}) \subseteq Datagram
  BY DEF Datagram, Reply
<1>3. ASSUME NEW d \in Reply({"mine", "earlier"})
      PROVE  d.attributes \in Seq(Attribute)
  BY AttributesAreSeqs DEF Reply
<1>4. PunchReq.attributes \in Seq(Attribute)
  BY EmptySeq DEF PunchReq
<1> QED BY <1>1, <1>2, <1>3, <1>4 DEF Datagram

\* Past an attribute that is not the one looked for.
LEMMA TailFacts ==
  ASSUME NEW s \in Seq(Attribute), s # <<>>, NEW skips
  PROVE  /\ Head(s) \in Attribute /\ Tail(s) \in Seq(Attribute)
         /\ Walkable(skips, s) => /\ skips \/ Padding(Head(s).length) = 0
                                  /\ Walkable(skips, Tail(s))
         /\ HasMapped(s) /\ Head(s) # Mapped => HasMapped(Tail(s))
<1>1. /\ Head(s) \in Attribute /\ Head(s) = s[1] /\ Tail(s) \in Seq(Attribute)
      /\ Len(s) \in Nat /\ Len(s) > 0 /\ Len(Tail(s)) = Len(s) - 1
      /\ DOMAIN s = 1 .. Len(s) /\ DOMAIN Tail(s) = 1 .. Len(Tail(s))
      /\ \A i \in 1 .. Len(Tail(s)) : Tail(s)[i] = s[i + 1]
  BY HeadTailProperties, LenProperties, EmptySeq
<1>2. ASSUME HasMapped(s), Head(s) # Mapped
      PROVE  HasMapped(Tail(s))
  <2>1. PICK i \in 1 .. Len(s) : s[i] = Mapped
    BY <1>2 DEF HasMapped, Contains
  <2>2. i # 1
    BY <1>1, <1>2, <2>1
  <2>3. i - 1 \in 1 .. Len(Tail(s)) /\ (i - 1) + 1 = i
    BY <1>1, <2>2
  <2>4. Tail(s)[i - 1] = Mapped
    BY <1>1, <2>1, <2>3
  <2> QED BY <2>3, <2>4 DEF HasMapped, Contains
<1>3. ASSUME Walkable(skips, s), ~skips
      PROVE  Padding(Head(s).length) = 0 /\ Walkable(skips, Tail(s))
  <2>1. \A i \in 1 .. Len(s) : Padding(s[i].length) = 0
    BY <1>1, <1>3 DEF Walkable
  <2>2. Padding(Head(s).length) = 0
    BY <1>1, <2>1
  <2>3. \A i \in 1 .. Len(Tail(s)) : Padding(Tail(s)[i].length) = 0
    <3> SUFFICES ASSUME NEW i \in 1 .. Len(Tail(s))
                 PROVE  Padding(Tail(s)[i].length) = 0
      OBVIOUS
    <3>1. i + 1 \in 1 .. Len(s) /\ Tail(s)[i] = s[i + 1]
      BY <1>1
    <3> QED BY <2>1, <3>1
  <2> QED BY <1>1, <2>2, <2>3 DEF Walkable
<1> QED BY <1>1, <1>2, <1>3 DEF Walkable

-----------------------------------------------------------------------------
\* The address printed.

\* One more octet.
LEMMA OctetAbove ==
  ASSUME NEW n \in Nat, NEW k \in Nat, n < k, NEW o \in Octets
  PROVE  /\ o + Octet * n \in Nat
         /\ o + Octet * n < Octet * k
<1>1. Octet \in Nat \ {0} /\ o \in Nat /\ o < Octet
  BY OctetsAreOctets DEF Octets
<1>2. Octet * n \in Nat /\ Octet * k \in Nat /\ Octet * (n + 1) = Octet * n + Octet
  BY <1>1
<1>3. n + 1 \in Nat /\ n + 1 <= k
  OBVIOUS
<1>4. Octet * (n + 1) <= Octet * k
  BY <1>1, <1>3
<1> QED BY <1>1, <1>2, <1>4

\* A quotient and a remainder, recognised.
LEMMA DivMod ==
  ASSUME NEW b \in Nat \ {0}, NEW q \in Nat, NEW r \in 0 .. b - 1
  PROVE  /\ (r + b * q) \div b = q
         /\ (r + b * q) % b = r
<1> DEFINE a == r + b * q
           d == a \div b
           m == a % b
<1>1. a \in Nat /\ r \in Nat /\ r < b
  OBVIOUS
<1>2. d \in Nat /\ m \in 0 .. b - 1 /\ a = d * b + m
  BY <1>1
<1> HIDE DEF d, m
<1>3. ASSUME d + 1 <= q
      PROVE  FALSE
  <2>1. (d + 1) * b <= q * b /\ (d + 1) * b = d * b + b
    BY <1>2, <1>3
  <2>2. d * b \in Nat /\ q * b \in Nat /\ b * q = q * b
    BY <1>2
  <2> QED BY <1>1, <1>2, <2>1, <2>2
<1>4. ASSUME q + 1 <= d
      PROVE  FALSE
  <2>1. (q + 1) * b <= d * b /\ (q + 1) * b = q * b + b
    BY <1>2, <1>4
  <2>2. d * b \in Nat /\ q * b \in Nat /\ b * q = q * b
    BY <1>2
  <2> QED BY <1>1, <1>2, <2>1, <2>2
<1>5. d = q
  BY <1>2, <1>3, <1>4
<1>6. m = r
  <2>1. b * q = d * b /\ b * q \in Nat
    BY <1>5
  <2> QED BY <1>1, <1>2, <2>1
<1> QED BY <1>5, <1>6 DEF d, m

LEMMA QuadFacts ==
  ASSUME NEW o \in Quad
  PROVE  /\ o[1] \in Octets /\ o[2] \in Octets /\ o[3] \in Octets /\ o[4] \in Octets
         /\ o = <<o[1], o[2], o[3], o[4]>>
BY DEF Quad

LEMMA QuadOf ==
  ASSUME NEW w \in Octets, NEW x \in Octets, NEW y \in Octets, NEW z \in Octets
  PROVE  <<w, x, y, z>> \in Quad
BY DEF Quad

LEMMA MemoryFacts ==
  ASSUME NEW o \in Quad
  PROVE  InMemory(o) \in Quad /\ InMemory(InMemory(o)) = o
<1> DEFINE r == <<o[4], o[3], o[2], o[1]>>
<1>1. r \in Quad
  BY QuadFacts, QuadOf
<1>2. <<r[4], r[3], r[2], r[1]>> = o
  BY QuadFacts
<1> HIDE DEF r
<1>3. LittleEndian => InMemory(o) = r /\ InMemory(r) = <<r[4], r[3], r[2], r[1]>>
  BY DEF InMemory, r
<1>4. ~LittleEndian => InMemory(o) = o
  BY DEF InMemory
<1> QED BY <1>1, <1>2, <1>3, <1>4, HostKind

\* Four octets make an integer, and the integer shows them again.
LEMMA DottedJoined ==
  ASSUME NEW o \in Quad
  PROVE  Dotted(Joined(o)) = o
<1> SUFFICES ASSUME NEW w \in Octets, NEW x \in Octets, NEW y \in Octets, NEW z \in Octets,
                    o = <<w, x, y, z>>
             PROVE  Dotted(Joined(o)) = <<w, x, y, z>>
  BY QuadFacts
<1> DEFINE Square == Octet * Octet
           Cube == Octet * Octet * Octet
           n == z + Octet * (y + Octet * (x + Octet * w))
<1>1. /\ Octet \in Nat \ {0} /\ Square \in Nat \ {0} /\ Cube \in Nat \ {0}
      /\ w \in Nat /\ x \in Nat /\ y \in Nat /\ z \in Nat
      /\ w < Octet /\ x < Octet /\ y < Octet /\ z < Octet
      /\ {w, x, y, z} \subseteq 0 .. Octet - 1
  BY OctetsAreOctets DEF Octets
<1>2. Joined(o) = n
  BY DEF Joined
<1>3. /\ x + Octet * w \in Nat
      /\ y + Octet * (x + Octet * w) \in Nat
      /\ y + Octet * x \in Nat
  BY <1>1
<1>4. z + Octet * y \in 0 .. Square - 1
  <2>1. z + Octet * y \in Nat /\ z + Octet * y < Square
    BY <1>1, OctetAbove
  <2> HIDE DEF Square
  <2> QED BY <1>1, <2>1
<1>5. z + Octet * (y + Octet * x) \in 0 .. Cube - 1
  <2>1. y + Octet * x < Octet * Octet /\ Octet * Octet \in Nat
    BY <1>1, OctetAbove
  <2>2. /\ z + Octet * (y + Octet * x) \in Nat
        /\ z + Octet * (y + Octet * x) < Octet * (Octet * Octet)
    BY <1>3, <2>1, OctetAbove
  <2>3. Cube = Octet * (Octet * Octet)
    BY <1>1
  <2> HIDE DEF Cube
  <2> QED BY <1>1, <2>2, <2>3
<1>6. n % Octet = z /\ n \div Octet = y + Octet * (x + Octet * w)
  BY <1>1, <1>3, DivMod
<1>7. (n \div Octet) % Octet = y
  <2>1. (y + Octet * (x + Octet * w)) % Octet = y
    BY <1>1, <1>3, DivMod
  <2> HIDE DEF n
  <2> QED BY <1>6, <2>1
<1>8. (n \div Square) % Octet = x
  <2>1. n = (z + Octet * y) + Square * (x + Octet * w)
    BY <1>1
  <2> HIDE DEF n, Square
  <2>2. n \div Square = x + Octet * w
    BY <1>1, <1>3, <1>4, <2>1, DivMod
  <2> QED BY <1>1, <2>2, DivMod
<1>9. n \div Cube = w
  <2>1. n = (z + Octet * (y + Octet * x)) + Cube * w
    BY <1>1
  <2>2. Cube \in Nat \ {0} /\ w \in Nat
    BY <1>1
  <2> HIDE DEF n, Cube
  <2>3. ((z + Octet * (y + Octet * x)) + Cube * w) \div Cube = w
    BY <1>5, <2>2, DivMod, Zenon
  <2> QED BY <2>1, <2>3, Zenon
<1> QED BY <1>2, <1>6, <1>7, <1>8, <1>9 DEF Dotted

Xored(o, p) == [i \in 1 .. 4 |-> XorOctet(o[i], p[i])]

LEMMA XoredQuad ==
  ASSUME NEW o \in Quad, NEW p \in Quad
  PROVE  /\ Xored(o, p) \in Quad
         /\ Xored(Xored(o, p), p) = o
<1>1. \A i \in 1 .. 4 : o[i] \in Octets /\ p[i] \in Octets
  BY DEF Quad
<1>2. \A i \in 1 .. 4 : XorOctet(o[i], p[i]) \in Octets
                       /\ XorOctet(XorOctet(o[i], p[i]), p[i]) = o[i]
  BY <1>1, XorUndoesItself
<1>3. \A i \in 1 .. 4 : Xored(o, p)[i] = XorOctet(o[i], p[i])
  BY DEF Xored
<1>4. Xored(Xored(o, p), p) = [i \in 1 .. 4 |-> o[i]]
  BY <1>2, <1>3 DEF Xored
<1>5. o = [i \in 1 .. 4 |-> o[i]]
  BY DEF Quad
<1> QED BY <1>2, <1>4, <1>5 DEF Xored, Quad

\* The cookie is undone octet by octet, in whatever order both integers are read.
LEMMA XorJoined ==
  ASSUME NEW o \in Quad, NEW p \in Quad
  PROVE  ExclusiveOr(Joined(o), Joined(p)) = Joined(Xored(o, p))
<1>1. Dotted(Joined(o)) = o /\ Dotted(Joined(p)) = p
  BY DottedJoined
<1> QED BY <1>1, Zenon DEF ExclusiveOr, Xored

LEMMA XoredInMemory ==
  ASSUME NEW o \in Quad, NEW p \in Quad
  PROVE  Xored(InMemory(o), InMemory(p)) = InMemory(Xored(o, p))
<1>1. CASE LittleEndian
  <2> DEFINE q == Xored(o, p)
             r == Xored(<<o[4], o[3], o[2], o[1]>>, <<p[4], p[3], p[2], p[1]>>)
  <2>1. /\ r[1] = XorOctet(o[4], p[4]) /\ r[2] = XorOctet(o[3], p[3])
        /\ r[3] = XorOctet(o[2], p[2]) /\ r[4] = XorOctet(o[1], p[1])
    BY DEF Xored
  <2>2. /\ q[1] = XorOctet(o[1], p[1]) /\ q[2] = XorOctet(o[2], p[2])
        /\ q[3] = XorOctet(o[3], p[3]) /\ q[4] = XorOctet(o[4], p[4])
    BY DEF Xored
  <2>3. r \in Quad
    BY QuadFacts, QuadOf, XoredQuad
  <2> HIDE DEF q, r
  <2>4. r = <<r[1], r[2], r[3], r[4]>>
    BY <2>3, QuadFacts
  <2>5. r = <<q[4], q[3], q[2], q[1]>>
    BY <2>1, <2>2, <2>4
  <2> QED BY <1>1, <2>5 DEF InMemory, q, r
<1>2. CASE ~LittleEndian
  BY <1>2 DEF InMemory
<1> QED BY <1>1, <1>2

\* ntohl, htonl and the memory between them.
LEMMA Conversions ==
  ASSUME NEW o \in Quad
  PROVE  /\ Store(Load(o)) = o
         /\ Ntohl(Load(o)) = Joined(o)
         /\ Htonl(Joined(o)) = Load(o)
<1>1. Store(Load(o)) = o
  BY MemoryFacts, DottedJoined DEF Store, Load
<1>2. Htonl(Joined(o)) = Load(o)
  BY DottedJoined DEF Htonl
<1> QED BY <1>1, <1>2 DEF Ntohl

\* What the two programs print: the client the octets the server meant, the library
\* those octets as the host's memory has an integer's.
LEMMA PrintedFacts ==
  /\ ParsedAddress = MappedOctets
  /\ NumAddress = InMemory(MappedOctets)
  /\ MappedOctets \in Quad /\ InMemory(MappedOctets) \in Quad
<1>1. /\ MappedOctets \in Quad /\ Cookie \in Quad
      /\ InMemory(MappedOctets) \in Quad /\ InMemory(Cookie) \in Quad
  BY OctetsAreOctets, MemoryFacts
<1>2. /\ WireOctets \in Quad /\ InMemory(WireOctets) \in Quad
      /\ Xored(WireOctets, Cookie) = MappedOctets
  <2>1. WireOctets = Xored(MappedOctets, Cookie)
    BY DEF WireOctets, Xored
  <2> QED BY <1>1, <2>1, XoredQuad, MemoryFacts
<1>3. ParsedAddress = MappedOctets
  <2>1. ExclusiveOr(Ntohl(Load(WireOctets)), Joined(Cookie)) = Joined(MappedOctets)
    BY <1>1, <1>2, Conversions, XorJoined
  <2> QED BY <1>1, <2>1, Conversions DEF ParsedAddress
<1>4. NumAddress = InMemory(MappedOctets)
  <2>1. /\ Load(WireOctets) = Joined(InMemory(WireOctets))
        /\ Htonl(Joined(Cookie)) = Joined(InMemory(Cookie))
    BY <1>1, Conversions DEF Load
  <2>2. ExclusiveOr(Load(WireOctets), Htonl(Joined(Cookie))) = Joined(InMemory(MappedOctets))
    BY <1>1, <1>2, <2>1, XorJoined, XoredInMemory
  <2> QED BY <1>1, <2>2, DottedJoined DEF NumAddress
<1> QED BY <1>1, <1>3, <1>4

-----------------------------------------------------------------------------
\* Types.

\* Check, without its CASE.
LEMMA CheckCases ==
  Check =>
    /\ Library /\ pc = "check"
    /\ UNCHANGED <<program, datagram, address, netVars>>
    /\ \/ ~Usable /\ Return(-5, Resource) /\ UNCHANGED walkVars
       \/ ~Usable /\ Return(-1, Resource) /\ UNCHANGED walkVars
       \/ /\ Usable /\ Continue("walk") /\ Acquire({})
          /\ StartWalk(datagram.attributes)
<1> SUFFICES ASSUME Check
             PROVE  /\ Library /\ pc = "check"
                    /\ UNCHANGED <<program, datagram, address, netVars>>
                    /\ \/ ~Usable /\ Return(-5, Resource) /\ UNCHANGED walkVars
                       \/ ~Usable /\ Return(-1, Resource) /\ UNCHANGED walkVars
                       \/ /\ Usable /\ Continue("walk") /\ Acquire({})
                          /\ StartWalk(datagram.attributes)
  OBVIOUS
<1>1. Library /\ pc = "check" /\ UNCHANGED <<program, datagram, address, netVars>>
  BY Zenon DEF Check
<1>2. CASE datagram.type # "response"
  BY <1>1, <1>2, Zenon DEF Check, Usable
<1>3. CASE datagram.type = "response" /\ datagram.identifier # "mine"
  BY <1>1, <1>3, Zenon DEF Check, Usable
<1>4. CASE datagram.type = "response" /\ datagram.identifier = "mine"
  BY <1>1, <1>4, Zenon DEF Check, Usable
<1> QED BY <1>1, <1>2, <1>3, <1>4

\* One attribute, or what is taken for one.
LEMMA WalkTypes ==
  ASSUME WalkTypeOK, NEW skips \in BOOLEAN, WalkStep(skips)
  PROVE  WalkTypeOK'
<1>1. todo \in Seq(Attribute) /\ aligned \in BOOLEAN
  BY DEF WalkTypeOK
<1>2. CASE Match
  BY <1>1, <1>2 DEF WalkTypeOK, Match
<1>3. CASE SkipAttribute(skips)
  <2>1. Tail(todo) \in Seq(Attribute)
    BY <1>1, <1>3, TailFacts DEF SkipAttribute
  <2> QED BY <1>1, <1>3, <2>1 DEF WalkTypeOK, SkipAttribute
<1>4. CASE Stray
  <2>1. ASSUME NEW n \in 2 .. Len(todo)
        PROVE  SubSeq(todo, n, Len(todo)) \in Seq(Attribute)
    <3>1. Len(todo) \in Nat /\ n \in Nat
      BY <1>1, LenProperties
    <3>2. \A j \in n .. Len(todo) : j \in 1 .. Len(todo)
      BY <3>1
    <3> QED BY <1>1, <3>1, <3>2, SubSeqProperties
  <2>2. <<>> \in Seq(Attribute)
    BY EmptySeq
  <2>3. todo' \in Seq(Attribute)
    BY <1>1, <1>4, <2>1, <2>2 DEF Stray
  <2> QED BY <1>1, <1>4, <2>3 DEF WalkTypeOK, Stray
<1> QED BY <1>2, <1>3, <1>4 DEF WalkStep

\* A call that goes well or fails, and takes nothing off the queue.
Plain ==
  /\ UNCHANGED <<program, datagram, address, inbox, strays, walkVars>>
  /\ server' \in {server, "asked"}
  /\ held' \subseteq Resource
  /\ \/ pc' \in Step /\ UNCHANGED code
     \/ pc' = "returned" /\ code' \in -5 .. 0

LEMMA TypeStep == TypeOK /\ [Next]_vars => TypeOK'
<1> SUFFICES ASSUME TypeOK, [Next]_vars
             PROVE  TypeOK'
  OBVIOUS
<1> USE DEF Library, Client, Resource, Step
<1>1. /\ WalkTypeOK /\ TypeOK
      /\ datagram.attributes \in Seq(Attribute)
      /\ inbox \in Seq(Datagram) /\ strays \in 0 .. MaxStray /\ MaxStray \in Nat
  BY DatagramFacts, StraysAreCounted DEF TypeOK
<1>2. WalkTypeOK /\ UNCHANGED walkVars => WalkTypeOK'
  BY DEF WalkTypeOK, walkVars
<1>3. Plain => TypeOK'
  BY <1>1, <1>2 DEF TypeOK, Plain
<1>4. CASE Socket \/ Bind \/ Resolve \/ Send \/ ReadFails \/ WalkEnds
  <2>1. held \subseteq Resource
    BY DEF TypeOK
  <2>2. /\ UNCHANGED <<program, datagram, address, inbox, strays, walkVars>>
        /\ server' \in {server, "asked"}
    BY <1>4 DEF Socket, Bind, Resolve, Send, ReadFails, WalkEnds, Rest, netVars, Ask
  <2>3. held' \subseteq Resource
    BY <1>4, <2>1
    DEF Socket, Bind, Resolve, Send, ReadFails, WalkEnds, Return, Acquire
  <2>4. \/ pc' \in Step /\ UNCHANGED code
        \/ pc' = "returned" /\ code' \in -5 .. 0
    BY <1>4
    DEF Socket, Bind, Resolve, Send, ReadFails, WalkEnds, Return, End, Continue
  <2> QED BY <1>3, <2>2, <2>3, <2>4 DEF Plain
<1>5. CASE Read \/ Receive
  <2>1. Head(inbox) \in Datagram /\ Tail(inbox) \in Seq(Datagram)
    BY <1>1, <1>5, HeadTailProperties DEF Read, Receive, TakeFirst
  <2> QED BY <1>1, <1>2, <1>5, <2>1 DEF Read, Receive, TakeFirst, Continue, TypeOK
<1>6. CASE Check
  <2>1. WalkTypeOK'
    BY <1>1, <1>2, <1>6, CheckCases DEF StartWalk, WalkTypeOK
  <2>2. /\ UNCHANGED <<program, datagram, address, server, inbox, strays>>
        /\ pc' \in {"walk", "returned"} /\ held' \subseteq Resource
        /\ code' \in {code, -5, -1}
    BY <1>1, <1>6, CheckCases DEF Return, End, Continue, Acquire, netVars, TypeOK
  <2> QED BY <1>1, <2>1, <2>2 DEF TypeOK
<1>7. CASE Walk
  <2>1. WalkTypeOK'
    BY <1>1, <1>7, WalkTypes DEF Walk
  <2>2. address' = address \/ address' \in Quad
    BY <1>7, PrintedFacts DEF Walk
  <2> HIDE DEF Resource
  <2>3. /\ UNCHANGED <<program, datagram, server, inbox, strays>>
        /\ pc' \in {pc, "returned"} /\ held' \subseteq held
        /\ code' \in {code, 0}
    BY <1>7 DEF Walk, Return, End, netVars
  <2> QED BY <1>1, <2>1, <2>2, <2>3 DEF TypeOK
<1>8. CASE ResolveHost \/ ReceiveFails \/ ParseEnds
  <2>1. held' \subseteq Resource /\ server' \in {server, "asked"}
    BY <1>8 DEF TypeOK, ResolveHost, ReceiveFails, ParseEnds, Rest, netVars
  <2>2. UNCHANGED <<program, datagram, address, inbox, strays, walkVars>>
    BY <1>8 DEF ResolveHost, ReceiveFails, ParseEnds, Rest, netVars
  <2>3. \/ pc' \in Step /\ UNCHANGED code
        \/ pc' = "returned" /\ code' \in -5 .. 0
    BY <1>8 DEF ResolveHost, ReceiveFails, ParseEnds, End, Continue
  <2> QED BY <1>3, <2>1, <2>2, <2>3 DEF Plain
<1>9. CASE SendRequest
  BY <1>1, <1>2, <1>9 DEF SendRequest, Ask, Continue, End, netVars, TypeOK
<1>10. CASE Parse
  <2>1. WalkTypeOK'
    BY <1>1, <1>2, <1>10 DEF Parse, StartWalk, WalkTypeOK
  <2> QED BY <1>1, <1>10, <2>1 DEF Parse, Continue, End, netVars, TypeOK
<1>11. CASE ParseAttribute
  <2>1. WalkTypeOK'
    BY <1>1, <1>11, WalkTypes DEF ParseAttribute
  <2> QED BY <1>1, <1>11, <2>1, PrintedFacts DEF ParseAttribute, End, netVars, TypeOK
<1>12. CASE Network
  <2>1. \A d \in Datagram : Append(inbox, d) \in Seq(Datagram)
    BY <1>1, AppendProperties
  <2>2. inbox' \in Seq(Datagram)
    BY <1>1, <1>12, <2>1, DatagramFacts DEF Network, Answer, Lose, Leftover
  <2>3. strays' \in 0 .. MaxStray
    BY <1>1, <1>12 DEF Network, Answer, Lose, Leftover
  <2>4. UNCHANGED Outside /\ server' \in {server, "answered", "lost"}
    BY <1>12 DEF Network, Answer, Lose, Leftover
  <2> QED BY <1>1, <1>2, <2>2, <2>3, <2>4 DEF Outside, TypeOK
<1>13. CASE UNCHANGED vars
  BY <1>1, <1>2, <1>13 DEF vars, netVars, TypeOK
<1> QED
  BY <1>3, <1>4, <1>5, <1>6, <1>7, <1>8, <1>9, <1>10, <1>11, <1>12, <1>13
  DEF Next, LibraryStep, ClientStep

-----------------------------------------------------------------------------
\* What is held, read and found.

\* The network, and nothing at all, leave the query alone.
LEMMA Asides == Network \/ UNCHANGED vars => UNCHANGED Outside
BY DEF Network, Answer, Lose, Leftover, Outside, vars

LEMMA HeldStep == TypeOK /\ HeldInv /\ [Next]_vars => HeldInv'
<1> SUFFICES ASSUME TypeOK, HeldInv, [Next]_vars
             PROVE  HeldInv'
  OBVIOUS
<1> USE DEF Library, Client, HeldInv
<1>1. held \subseteq Resource
  BY DEF TypeOK
<1>2. CASE Socket \/ Bind \/ Resolve
  BY <1>2 DEF Socket, Bind, Resolve, Continue, Return, End, Acquire, Rest, Resource
<1>3. CASE Send \/ ReadFails \/ WalkEnds
  BY <1>1, <1>3 DEF Send, ReadFails, WalkEnds, Continue, Return, End, Acquire, Rest
<1>4. CASE Read \/ Receive
  BY <1>4 DEF Read, Receive, TakeFirst, Continue
<1>5. CASE Check
  BY <1>1, <1>5, CheckCases DEF Continue, Return, End, Acquire
<1>6. CASE Walk
  BY <1>1, <1>6 DEF Walk, Return, End
<1>7. CASE ResolveHost \/ SendRequest \/ ReceiveFails \/ Parse \/ ParseAttribute \/ ParseEnds
  BY <1>7
  DEF ResolveHost, SendRequest, ReceiveFails, Parse, ParseAttribute, ParseEnds, Continue,
      End, Rest
<1>8. CASE Network \/ UNCHANGED vars
  BY <1>8, Asides DEF Outside
<1> QED
  BY <1>2, <1>3, <1>4, <1>5, <1>6, <1>7, <1>8 DEF Next, LibraryStep, ClientStep

\* found only changes as the query returns.
LEMMA ReadStep == ReadInv /\ [Next]_vars => ReadInv'
<1> SUFFICES ASSUME ReadInv, [Next]_vars
             PROVE  ReadInv'
  OBVIOUS
<1> USE DEF ReadInv, Returned
<1>1. CASE Socket \/ Bind \/ Resolve \/ Send \/ ReadFails \/ WalkEnds
  BY <1>1
  DEF Socket, Bind, Resolve, Send, ReadFails, WalkEnds, Continue, Return, End, Rest, walkVars
<1>2. CASE Read \/ Receive
  BY <1>2 DEF Read, Receive, TakeFirst, Continue, walkVars
<1>3. CASE Check
  BY <1>3, CheckCases DEF Continue, Return, End, StartWalk
<1>4. CASE Walk
  BY <1>4 DEF Walk, Return, End
<1>5. CASE ResolveHost \/ SendRequest \/ ReceiveFails \/ ParseEnds
  BY <1>5
  DEF ResolveHost, SendRequest, ReceiveFails, ParseEnds, Continue, End, Rest, walkVars
<1>6. CASE Parse
  BY <1>6 DEF Parse, Continue, End, StartWalk
<1>7. CASE ParseAttribute
  BY <1>7 DEF ParseAttribute, End
<1>8. CASE Network \/ UNCHANGED vars
  BY <1>8, Asides DEF Outside, walkVars
<1> QED
  BY <1>1, <1>2, <1>3, <1>4, <1>5, <1>6, <1>7, <1>8 DEF Next, LibraryStep, ClientStep

-----------------------------------------------------------------------------
\* The walk.

\* Where nothing leads it astray, a step finds the attribute or passes another.
LEMMA WalkKeeps ==
  ASSUME WalkTypeOK, found = "nothing", NEW skips \in BOOLEAN, WalkStep(skips)
  PROVE  /\ found' \in {"nothing", "mapped", "junk"}
         /\ aligned /\ Walkable(skips, todo) =>
              \/ found' = "mapped"
              \/ /\ found' = "nothing" /\ aligned' /\ Walkable(skips, todo')
                 /\ HasMapped(todo) => HasMapped(todo')
<1>1. todo \in Seq(Attribute)
  BY DEF WalkTypeOK
<1>2. CASE Match
  BY <1>2 DEF Match
<1>3. CASE SkipAttribute(skips)
  <2>1. todo # <<>> /\ Head(todo) # Mapped /\ todo' = Tail(todo) /\ found' = "nothing"
    BY <1>3 DEF SkipAttribute
  <2>2. aligned' = (skips \/ Padding(Head(todo).length) = 0)
    BY <1>3 DEF SkipAttribute
  <2> QED BY <1>1, <2>1, <2>2, TailFacts
<1>4. CASE Stray
  BY <1>4 DEF Stray
<1> QED BY <1>2, <1>3, <1>4 DEF WalkStep

LEMMA NoneMapped == ~HasMapped(<<>>)
BY EmptySeq DEF HasMapped, Contains

LEMMA WalkInvStep == TypeOK /\ ReadInv /\ WalkInv /\ [Next]_vars => WalkInv'
<1> SUFFICES ASSUME TypeOK, ReadInv, WalkInv, [Next]_vars, pc' = "walk"
             PROVE  WalkInv'
  BY DEF WalkInv
<1>1. WalkTypeOK
  BY DEF TypeOK
<1>2. CASE Check \/ Parse
  <2>1. /\ Usable /\ UNCHANGED <<program, datagram>>
        /\ todo' = datagram.attributes /\ aligned' = TRUE
    BY <1>2, CheckCases DEF Parse, Return, End, StartWalk, Usable, Library, Client
  <2>2. Usable' /\ Client' = Client
    BY <2>1 DEF Usable, Library, Client
  <2> QED BY <2>1, <2>2 DEF WalkInv
<1>3. CASE Walk \/ ParseAttribute
  <2>1. /\ pc = "walk" /\ UNCHANGED <<program, datagram>> /\ found' = "nothing"
        /\ WalkStep(Client) /\ Client \in BOOLEAN
    BY <1>3 DEF Walk, ParseAttribute, Return, End, Library, Client
  <2>2. Usable' /\ Client' = Client
    BY <2>1 DEF WalkInv, Usable, Library, Client
  <2>3. found = "nothing"
    BY <2>1 DEF ReadInv, Returned
  <2>4. aligned /\ Walkable(Client, todo) =>
          /\ aligned' /\ Walkable(Client, todo')
          /\ HasMapped(todo) => HasMapped(todo')
    BY <1>1, <2>1, <2>3, WalkKeeps
  <2>5. Walkable(Client, datagram.attributes) =>
          /\ aligned' /\ Walkable(Client, todo')
          /\ HasMapped(datagram.attributes) => HasMapped(todo')
    BY <2>1, <2>4 DEF WalkInv
  <2> QED BY <2>1, <2>2, <2>5 DEF WalkInv
<1>4. CASE Network \/ UNCHANGED vars
  BY <1>4, Asides DEF WalkInv, Usable, Library, Client, Outside, walkVars
<1> QED
  BY <1>2, <1>3, <1>4
  DEF Next, LibraryStep, ClientStep, Socket, Bind, Resolve, Send, Read, ReadFails, WalkEnds,
      ResolveHost, SendRequest, Receive, ReceiveFails, ParseEnds, TakeFirst, Continue,
      Return, End

LEMMA ReplyStep == TypeOK /\ ReadInv /\ WalkInv /\ ReplyUsed /\ [Next]_vars => ReplyUsed'
<1> SUFFICES ASSUME TypeOK, ReadInv, WalkInv, ReplyUsed, [Next]_vars, pc' = "returned"
             PROVE  /\ code' = 0 => Usable'
                    /\ (Usable /\ HasMapped(datagram.attributes)
                          /\ Walkable(Client, datagram.attributes))'
                         => code' = 0 /\ found' = "mapped"
  BY DEF ReplyUsed, Returned, Usable
<1>1. CASE Socket \/ Bind \/ Resolve \/ Send \/ ReadFails \/ ResolveHost \/ SendRequest \/ ReceiveFails
  <2>1. /\ pc \in {"socket", "bind", "resolve", "send", "read"} /\ datagram' = datagram
        /\ code' \in {-1, -2, -3, -4}
    BY <1>1
    DEF Socket, Bind, Resolve, Send, ReadFails, ResolveHost, SendRequest, ReceiveFails,
        Continue, Return, End, Rest
  <2>2. ~Usable'
    BY <2>1, DatagramFacts DEF ReadInv, Usable
  <2> QED BY <2>1, <2>2
<1>2. CASE Check \/ Parse
  <2>1. ~Usable /\ UNCHANGED <<program, datagram>> /\ code' \in {-1, -5}
    BY <1>2, CheckCases DEF Parse, Continue, Return, End, Usable
  <2>2. ~Usable'
    BY <2>1 DEF Usable, Library
  <2> QED BY <2>1, <2>2
<1>3. CASE Walk \/ ParseAttribute
  <2>1. /\ pc = "walk" /\ UNCHANGED <<program, datagram>>
        /\ found' # "nothing" /\ code' = 0
        /\ WalkStep(Client) /\ Client \in BOOLEAN
    BY <1>3 DEF Walk, ParseAttribute, Return, End, Library, Client
  <2>2. Usable' /\ Client' = Client
    BY <2>1 DEF WalkInv, Usable, Library, Client
  <2>3. found = "nothing" /\ WalkTypeOK
    BY <2>1 DEF ReadInv, Returned, TypeOK
  <2>4. aligned /\ Walkable(Client, todo) => found' = "mapped"
    BY <2>1, <2>3, WalkKeeps
  <2>5. Walkable(Client, datagram.attributes) => found' = "mapped"
    BY <2>1, <2>4 DEF WalkInv
  <2> QED BY <2>1, <2>2, <2>5
<1>4. CASE WalkEnds \/ ParseEnds
  <2>1. /\ pc = "walk" /\ UNCHANGED <<program, datagram>> /\ code' \in {-1, -5}
        /\ todo = <<>>
    BY <1>4 DEF WalkEnds, ParseEnds, AtEnd, Return, End, Rest
  <2>2. Walkable(Client, datagram.attributes) => ~HasMapped(datagram.attributes)
    BY <2>1, NoneMapped DEF WalkInv
  <2>3. Client' = Client
    BY <2>1 DEF Client
  <2> QED BY <2>1, <2>2, <2>3
<1>5. CASE Network \/ UNCHANGED vars
  BY <1>5, Asides DEF ReplyUsed, Returned, Usable, Library, Client, Outside, walkVars
<1> QED
  BY <1>1, <1>2, <1>3, <1>4, <1>5
  DEF Next, LibraryStep, ClientStep, Read, Receive, TakeFirst, Continue

-----------------------------------------------------------------------------
\* What holds of every query.

LEMMA QueryInvHolds == Spec => []QueryInv
<1>1. Init => QueryInv
  <2> SUFFICES ASSUME Init
               PROVE  QueryInv
    OBVIOUS
  <2>1. TypeOK
    BY DatagramFacts, StraysAreCounted, EmptySeq DEF Init, NoWalk, TypeOK, WalkTypeOK, Step
  <2>2. HeldInv /\ ReadInv /\ WalkInv
    BY DEF Init, NoWalk, HeldInv, ReadInv, WalkInv, Client, Returned
  <2>3. ReplyUsed
    BY DEF Init, ReplyUsed, Returned
  <2> QED BY <2>1, <2>2, <2>3 DEF QueryInv
<1>2. QueryInv /\ [Next]_vars => QueryInv'
  BY TypeStep, HeldStep, ReadStep, WalkInvStep, ReplyStep DEF QueryInv
<1> QED BY <1>1, <1>2, PTL DEF Spec

\* Every variable of the two queries stays within its type: the value returned
\* within the six the header names, the address within four octets, whatever the
\* datagrams and however far astray the walk is led.
THEOREM QueryTypeCorrect == Spec => []TypeOK
<1>1. QueryInv => TypeOK
  BY DEF QueryInv
<1> QED BY <1>1, QueryInvHolds, PTL

\* getPublicIPAddressAndPort closes its socket and frees what it allocated on each
\* of its ways out.
THEOREM EverythingFreed == Spec => []NothingHeld
<1>1. QueryInv => NothingHeld
  BY DEF QueryInv, HeldInv, NothingHeld, Returned
<1> QED BY <1>1, QueryInvHolds, PTL

\* For every reply, of any number of attributes of any length: an endpoint comes of
\* a response only, and of every response that reports one where no padding leads
\* the library's pointer astray.
THEOREM ReplyIsUsed == Spec => []ReplyUsed
<1>1. QueryInv => ReplyUsed
  BY DEF QueryInv
<1> QED BY <1>1, QueryInvHolds, PTL

-----------------------------------------------------------------------------
\* The byte order.

Printed ==
  Returned /\ found = "mapped" =>
    address = IF Client THEN MappedOctets ELSE InMemory(MappedOctets)

LEMMA PrintedHolds == Spec => []Printed
<1>1. Init => Printed
  BY DEF Init, Printed, Returned
<1>2. QueryInv /\ Printed /\ [Next]_vars => Printed'
  <2> SUFFICES ASSUME QueryInv, Printed, [Next]_vars, pc' = "returned", found' = "mapped"
               PROVE  address' = IF Client' THEN MappedOctets ELSE InMemory(MappedOctets)
    BY DEF Printed, Returned
  <2>1. program' = program /\ Client' = Client
    BY CheckCases, Asides
    DEF Next, LibraryStep, ClientStep, Socket, Bind, Resolve, Send, Read, ReadFails, Walk,
        WalkEnds, ResolveHost, SendRequest, Receive, ReceiveFails, Parse, ParseAttribute,
        ParseEnds, TakeFirst, Rest, Outside, Client
  <2>2. CASE pc = "returned"
    <3>1. UNCHANGED Outside
      BY <2>2, Asides, CheckCases
      DEF Next, LibraryStep, ClientStep, Socket, Bind, Resolve, Send, Read, ReadFails, Walk,
          WalkEnds, ResolveHost, SendRequest, Receive, ReceiveFails, Parse, ParseAttribute,
          ParseEnds, TakeFirst
    <3> QED BY <2>1, <2>2, <3>1 DEF Printed, Returned, Outside, walkVars
  <2>3. CASE pc # "returned"
    <3>1. found = "nothing"
      BY <2>3 DEF QueryInv, ReadInv, Returned
    <3>2. Walk \/ ParseAttribute
      BY <2>3, <3>1, CheckCases, Asides
      DEF Next, LibraryStep, ClientStep, Socket, Bind, Resolve, Send, Read, ReadFails,
          WalkEnds, ResolveHost, SendRequest, Receive, ReceiveFails, Parse, ParseEnds,
          TakeFirst, Rest, StartWalk, Outside, walkVars
    <3>3. CASE Walk
      BY <2>1, <3>3, PrintedFacts DEF Walk, Library, Client
    <3>4. CASE ParseAttribute
      BY <2>1, <3>4, PrintedFacts DEF ParseAttribute
    <3> QED BY <3>2, <3>3, <3>4
  <2> QED BY <2>2, <2>3
<1> QED BY <1>1, <1>2, QueryInvHolds, PTL DEF Spec

\* parse_stun_response prints the address the server meant, for every address and
\* cookie and in both byte orders: its ntohl, exclusive or, htonl and inet_ntop cancel
\* out.
THEOREM AddressRight == Spec => []ClientPrintsMapped
<1>1. Printed => ClientPrintsMapped
  BY DEF Printed, ClientPrintsMapped, AddressIsMapped
<1> QED BY <1>1, PrintedHolds, PTL

\* getPublicIPAddressAndPort prints the address of the reply as the host's memory has
\* an integer's octets: right in the network's byte order, in reverse in the other,
\* and for no other reason.
THEOREM LibraryPrints ==
  Spec => [](Library /\ Returned /\ found = "mapped" => address = InMemory(MappedOctets))
<1> DEFINE Prints == Library /\ Returned /\ found = "mapped" => address = InMemory(MappedOctets)
<1>1. Printed => Prints
  BY DEF Printed, Library, Client
<1> HIDE DEF Prints
<1>2. Spec => []Prints
  BY <1>1, PrintedHolds, PTL
<1> QED BY <1>2 DEF Prints
=============================================================================
