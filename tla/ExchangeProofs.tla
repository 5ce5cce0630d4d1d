--------------------------- MODULE ExchangeProofs ---------------------------
(***************************************************************************)
(* The UDP exchanges and the TCP programs, for every number of lines, of   *)
(* TCP clients and of starts of their server.                              *)
(***************************************************************************)
EXTENDS MCExchange, UdpNatProofs, FiniteSetTheorems

-----------------------------------------------------------------------------
\* UDP: a program reads no more than the other one sends.

\* Each program passes through some of the phases only.
InPhase(p) ==
  /\ program = "none" => phase[p] = "prompt"
  /\ program = "message" => phase[p] # "loop"
  /\ program = "talk" => phase[p] \in {"prompt", "loop", "failed"}
  /\ program = "echo" /\ p = B => phase[p] \in {"prompt", "loop", "failed"}
  /\ program = "echo" /\ p = A => phase[p] \in {"prompt", "wait", "done", "failed"}

\* The most that p has sent: one datagram when it starts, and one a line; the
\* server of "echo" sends what it has heard.
Sent ==
  [p \in Peers |-> IF program = "echo" /\ p = B THEN heard[B]
                  ELSE IF phase[p] \in {"prompt", "bound"} THEN 0 ELSE lines[p] + 1]

\* What has been sent to p.
Reached == [p \in Peers |-> heard[p] + Len(inbox[p]) + Len(wire[p])]

\* TypeOK without its bounds, which follow from what can have been sent.
Words ==
  /\ program \in {"message", "talk", "echo", "none"}
  /\ phase \in [Peers -> Phase] /\ lines \in [Peers -> 0 .. MaxLines]
  /\ heard \in [Peers -> Nat] /\ due \in [Peers -> Nat]
  /\ NetTypeOK(Message)

PeerInv(p) ==
  /\ InPhase(p)
  /\ program # "talk" \/ phase[p] = "prompt" => lines[p] = 0
  /\ Reached[p] <= Sent[Other(p)]
  /\ due[p] <= Sent[Other(p)]

UdpInv == Words /\ \A p \in Peers : PeerInv(p)

LEMMA PeerIsOther ==
  ASSUME NEW p \in Peers, NEW q \in Peers
  PROVE  q = p \/ q = Other(p)
BY DEF Peers, Other

AreNatural ==
  \A p \in Peers : /\ Len(inbox[p]) \in Nat /\ Len(wire[p]) \in Nat
                  /\ heard[p] \in Nat /\ due[p] \in Nat /\ lines[p] \in Nat
                  /\ Sent[p] \in Nat /\ Reached[p] \in Nat

LEMMA WordsNatural == Words => AreNatural
<1> SUFFICES ASSUME Words, NEW p \in Peers
             PROVE  /\ Len(inbox[p]) \in Nat /\ Len(wire[p]) \in Nat
                    /\ heard[p] \in Nat /\ due[p] \in Nat /\ lines[p] \in Nat
                    /\ Sent[p] \in Nat /\ Reached[p] \in Nat
  BY DEF AreNatural
<1>1. /\ inbox[p] \in Seq(Message) /\ wire[p] \in Seq(Message)
      /\ heard[p] \in Nat /\ due[p] \in Nat /\ lines[p] \in 0 .. MaxLines
      /\ heard \in [Peers -> Nat]
  BY DEF Words, NetTypeOK
<1>2. Len(inbox[p]) \in Nat /\ Len(wire[p]) \in Nat
  BY <1>1, LenProperties
<1>3. B \in Peers
  BY DEF Peers
<1>4. Sent[p] \in Nat
  BY <1>1, <1>3, LinesAreCounted DEF Sent
<1>5. Reached[p] \in Nat
  BY <1>1, <1>2 DEF Reached
<1> QED BY <1>1, <1>2, <1>4, <1>5

LEMMA WordsNaturalNext == Words' => AreNatural'
BY WordsNatural, PTL

LEMMA UdpInvType == UdpInv => TypeOK
<1> SUFFICES ASSUME UdpInv
             PROVE  TypeOK
  OBVIOUS
<1>1. Words
  BY DEF UdpInv
<1>2. ASSUME NEW p \in Peers
      PROVE  heard[p] <= Sent[Other(p)] /\ due[p] <= Sent[Other(p)]
  <2>1. Other(p) \in Peers
    BY OtherPeer
  <2> QED BY <1>1, <2>1, WordsNatural DEF AreNatural, UdpInv, PeerInv, Reached
<1>3. ASSUME NEW p \in Peers
      PROVE  Sent[p] <= MaxLines + 1
  <2>1. lines[p] \in 0 .. MaxLines /\ MaxLines \in Nat
    BY <1>1, LinesAreCounted DEF Words
  <2>2. CASE ~(program = "echo" /\ p = B)
    BY <2>1, <2>2 DEF Sent
  <2>3. CASE program = "echo" /\ p = B
    <3>1. Other(B) = A /\ A \in Peers /\ A # B
      BY PeersDiffer DEF Other, Peers
    <3>2. heard[p] <= Sent[A]
      BY <1>2, <2>3, <3>1
    <3>3. lines[A] \in 0 .. MaxLines
      BY <1>1, <3>1 DEF Words
    <3>4. Sent[A] <= MaxLines + 1 /\ Sent[A] \in Nat
      BY <2>1, <3>1, <3>3 DEF Sent
    <3>5. Sent[p] = heard[p] /\ heard[p] \in Nat
      BY <1>1, <2>3 DEF Sent, Words
    <3> QED BY <2>1, <3>2, <3>4, <3>5
  <2> QED BY <2>2, <2>3
<1>4. ASSUME NEW p \in Peers
      PROVE  heard[p] \in 0 .. MaxLines + 1 /\ due[p] \in 0 .. MaxLines + 1
  <2>1. Other(p) \in Peers
    BY OtherPeer
  <2>2. Sent[Other(p)] <= MaxLines + 1 /\ Sent[Other(p)] \in Nat
    BY <1>1, <1>3, <2>1, WordsNatural DEF AreNatural
  <2> QED BY <1>1, <1>2, <2>2, WordsNatural, LinesAreCounted DEF AreNatural
<1> QED BY <1>1, <1>4 DEF Words, TypeOK

\* What the other side of p has been sent grows by the datagram, and nothing else.
LEMMA PostFacts ==
  ASSUME Words, NEW p \in Peers, NEW m \in Message, Post(p, m)
  PROVE  /\ wire' \in [Peers -> Seq(Message)] /\ opened' \in [Peers -> BOOLEAN]
         /\ dups' = dups
         /\ wire'[p] = wire[p] /\ Len(wire'[Other(p)]) = Len(wire[Other(p)]) + 1
<1>1. /\ Other(p) \in Peers /\ Other(p) # p
      /\ wire \in [Peers -> Seq(Message)] /\ opened \in [Peers -> BOOLEAN]
      /\ wire[Other(p)] \in Seq(Message)
  BY OtherPeer DEF Words, NetTypeOK
<1>2. /\ Append(wire[Other(p)], m) \in Seq(Message)
      /\ Len(Append(wire[Other(p)], m)) = Len(wire[Other(p)]) + 1
  BY <1>1, AppendFacts
<1> QED BY <1>1, <1>2 DEF Post

LEMMA SendToFacts ==
  ASSUME Words, NEW p \in Peers, NEW m \in Message, SendTo(p, m)
  PROVE  /\ wire' \in [Peers -> Seq(Message)] /\ opened' \in [Peers -> BOOLEAN]
         /\ dups' = dups /\ due' \in [Peers -> Nat]
         /\ wire'[p] = wire[p] /\ Len(wire'[Other(p)]) = Len(wire[Other(p)]) + 1
         /\ due'[p] = due[p] /\ due'[Other(p)] <= due[Other(p)] + 1
<1>1. Other(p) \in Peers /\ Other(p) # p /\ due \in [Peers -> Nat]
  BY OtherPeer DEF Words
<1>2. /\ due' \in [Peers -> Nat]
      /\ due'[p] = due[p] /\ due'[Other(p)] <= due[Other(p)] + 1
  BY <1>1 DEF SendTo
<1> QED BY <1>2, PostFacts DEF SendTo

LEMMA ReceiveFacts ==
  ASSUME Words, NEW p \in Peers, ReceiveFrom(p)
  PROVE  /\ inbox' \in [Peers -> Seq(Message)] /\ heard' \in [Peers -> Nat]
         /\ heard'[p] + Len(inbox'[p]) = heard[p] + Len(inbox[p])
         /\ heard'[p] = heard[p] + 1
         /\ \A q \in Peers : q # p => heard'[q] = heard[q] /\ inbox'[q] = inbox[q]
<1>1. /\ inbox \in [Peers -> Seq(Message)] /\ heard \in [Peers -> Nat]
      /\ inbox[p] \in Seq(Message) /\ inbox[p] # <<>>
  BY DEF Words, NetTypeOK, ReceiveFrom, Take
<1>2. Tail(inbox[p]) \in Seq(Message) /\ Len(Tail(inbox[p])) = Len(inbox[p]) - 1
  BY <1>1, HeadTailProperties
<1>3. /\ heard' = [heard EXCEPT ![p] = heard[p] + 1]
      /\ inbox' = [inbox EXCEPT ![p] = Tail(inbox[p])]
  BY DEF ReceiveFrom, Take
<1>4. /\ inbox' \in [Peers -> Seq(Message)] /\ heard' \in [Peers -> Nat]
      /\ inbox'[p] = Tail(inbox[p]) /\ heard'[p] = heard[p] + 1
      /\ \A q \in Peers : q # p => heard'[q] = heard[q] /\ inbox'[q] = inbox[q]
  BY <1>1, <1>2, <1>3
<1>5. Len(inbox[p]) \in Nat /\ heard[p] \in Nat
  BY <1>1, LenProperties
<1>6. Len(inbox'[p]) = Len(inbox[p]) - 1
  BY <1>2, <1>4
<1>7. heard'[p] + Len(inbox'[p]) = heard[p] + Len(inbox[p])
  BY <1>4, <1>5, <1>6
<1> QED BY <1>4, <1>7

LEMMA ExitFacts ==
  ASSUME Words, NEW p \in Peers, NEW label \in Phase, Exit(p, label)
  PROVE  /\ phase' = [phase EXCEPT ![p] = label] /\ UNCHANGED <<wire, opened, dups>>
         /\ inbox' \in [Peers -> Seq(Message)]
         /\ inbox'[p] = <<>> /\ Len(inbox'[p]) <= Len(inbox[p])
         /\ \A q \in Peers : q # p => inbox'[q] = inbox[q]
<1>1. inbox \in [Peers -> Seq(Message)] /\ inbox[p] \in Seq(Message)
  BY DEF Words, NetTypeOK
<1>2. <<>> \in Seq(Message) /\ Len(<<>>) = 0 /\ Len(inbox[p]) \in Nat
  BY <1>1, EmptySeq, LenProperties
<1> QED BY <1>1, <1>2 DEF Exit, Goto

\* A datagram that arrives is in the socket's queue or is lost.
LEMMA ArriveFacts ==
  ASSUME Words, NEW p \in Peers, NEW isOpen, Arrive(p, isOpen)
  PROVE  /\ NetTypeOK(Message)'
         /\ Len(inbox'[p]) + Len(wire'[p]) <= Len(inbox[p]) + Len(wire[p])
         /\ \A q \in Peers : q # p => inbox'[q] = inbox[q] /\ wire'[q] = wire[q]
<1>1. /\ wire \in [Peers -> Seq(Message)] /\ inbox \in [Peers -> Seq(Message)]
      /\ wire[p] \in Seq(Message) /\ inbox[p] \in Seq(Message)
      /\ NetTypeOK(Message)
  BY DEF Words, NetTypeOK
<1>2. NetTypeOK(Message)' /\ \A q \in Peers : q # p => inbox'[q] = inbox[q] /\ wire'[q] = wire[q]
  BY <1>1, NetFacts, PeerIsOther
<1>3. PICK i \in DOMAIN wire[p] :
        /\ wire' = [wire EXCEPT ![p] = RemoveAt(@, i)]
        /\ \/ inbox' = [inbox EXCEPT ![p] = Append(@, wire[p][i])]
           \/ inbox' = inbox
  BY DEF Arrive, Deliverable
<1>4. wire[p][i] \in Message
  BY <1>1, LenProperties, ElementOfSeq
<1>5. /\ Len(RemoveAt(wire[p], i)) = Len(wire[p]) - 1
      /\ Len(Append(inbox[p], wire[p][i])) = Len(inbox[p]) + 1
      /\ Len(wire[p]) \in Nat /\ Len(inbox[p]) \in Nat
  BY <1>1, <1>4, RemoveAtFacts, AppendFacts, LenProperties
<1>6. wire'[p] = RemoveAt(wire[p], i)
  BY <1>1, <1>3
<1>7. inbox'[p] = Append(inbox[p], wire[p][i]) \/ inbox'[p] = inbox[p]
  BY <1>1, <1>3
<1>8. Len(wire'[p]) = Len(wire[p]) - 1
  BY <1>5, <1>6
<1>9. Len(inbox'[p]) = Len(inbox[p]) + 1 \/ Len(inbox'[p]) = Len(inbox[p])
  BY <1>5, <1>7
<1>10. Len(inbox'[p]) + Len(wire'[p]) <= Len(inbox[p]) + Len(wire[p])
  <2>1. \A a, b, c, d \in Int : a = b - 1 /\ (c = d + 1 \/ c = d) => c + a <= d + b
    OBVIOUS
  <2>2. /\ Len(wire'[p]) \in Int /\ Len(wire[p]) \in Int
        /\ Len(inbox'[p]) \in Int /\ Len(inbox[p]) \in Int
    BY <1>5, <1>8, <1>9
  <2> QED BY <1>8, <1>9, <2>1, <2>2
<1> QED BY <1>2, <1>10

\* What a step of p may do: p goes on, reads what has arrived and sends what Sent
\* allows it, while q waits.
StepBy(p, q, sent) ==
  /\ program' = program
  /\ phase'[q] = phase[q] /\ lines'[q] = lines[q] /\ heard'[q] = heard[q]
  /\ inbox'[q] = inbox[q] /\ wire'[p] = wire[p] /\ due'[p] = due[p]
  /\ InPhase(p)'
  /\ program # "talk" \/ phase'[p] = "prompt" => lines'[p] = 0
  /\ heard'[p] + Len(inbox'[p]) <= heard[p] + Len(inbox[p])
  /\ Sent[p] + sent <= Sent'[p]
  /\ Len(wire'[q]) <= Len(wire[q]) + sent
  /\ due'[q] <= due[q] + sent

LEMMA StepKeepsInv ==
  ASSUME UdpInv, Words', NEW p \in Peers, NEW q \in Peers, q = Other(p),
         NEW sent \in 0 .. 1, StepBy(p, q, sent)
  PROVE  UdpInv'
<1>1. q # p /\ Other(q) = p /\ \A x \in Peers : x = p \/ x = q
  BY OtherPeer, PeerIsOther
<1>2. PeerInv(p) /\ PeerInv(q) /\ AreNatural /\ AreNatural'
  BY WordsNatural, WordsNaturalNext DEF UdpInv
<1>3. Sent'[q] >= Sent[q]
  <2>1. /\ program' = program
        /\ phase'[q] = phase[q] /\ lines'[q] = lines[q] /\ heard'[q] = heard[q]
    BY DEF StepBy
  <2>2. Sent'[q] = Sent[q]
    <3>1. program = "echo" /\ q = B => Sent'[q] = heard'[q] /\ Sent[q] = heard[q]
      BY <2>1 DEF Sent
    <3>2. ~(program = "echo" /\ q = B) => Sent'[q] = Sent[q]
      BY <2>1 DEF Sent
    <3> QED BY <2>1, <3>1, <3>2
  <2> QED BY <1>2, <2>2 DEF AreNatural
<1>4. PeerInv(p)'
  <2>1. Reached[p] <= Sent[q] /\ due[p] <= Sent[q]
    BY <1>2 DEF PeerInv
  <2>2. Reached'[p] <= Reached[p]
    <3>1. /\ wire'[p] = wire[p]
          /\ heard'[p] + Len(inbox'[p]) <= heard[p] + Len(inbox[p])
      BY DEF StepBy
    <3>2. /\ Reached[p] = heard[p] + Len(inbox[p]) + Len(wire[p])
          /\ Reached'[p] = heard'[p] + Len(inbox'[p]) + Len(wire'[p])
      BY DEF Reached
    <3>3. \A a, b, c, d, w \in Nat : a + b <= c + d => a + b + w <= c + d + w
      OBVIOUS
    <3>4. /\ heard[p] \in Nat /\ Len(inbox[p]) \in Nat /\ Len(wire[p]) \in Nat
          /\ heard'[p] \in Nat /\ Len(inbox'[p]) \in Nat
      BY <1>2 DEF AreNatural
    <3> QED BY <3>1, <3>2, <3>3, <3>4
  <2>3. Reached'[p] <= Sent'[q] /\ due'[p] <= Sent'[q]
    <3>1. due'[p] = due[p]
      BY DEF StepBy
    <3> QED BY <1>2, <1>3, <2>1, <2>2, <3>1 DEF AreNatural
  <2>4. InPhase(p)' /\ (program' # "talk" \/ phase'[p] = "prompt" => lines'[p] = 0)
    BY DEF StepBy
  <2> QED BY <2>3, <2>4 DEF PeerInv
<1>5. PeerInv(q)'
  <2>1. Reached[q] <= Sent[p] /\ due[q] <= Sent[p]
    BY <1>1, <1>2 DEF PeerInv
  <2>2. Reached'[q] <= Reached[q] + sent
    <3>1. /\ heard'[q] = heard[q] /\ inbox'[q] = inbox[q]
          /\ Len(wire'[q]) <= Len(wire[q]) + sent
      BY DEF StepBy
    <3>2. /\ Reached[q] = heard[q] + Len(inbox[q]) + Len(wire[q])
          /\ Reached'[q] = heard'[q] + Len(inbox'[q]) + Len(wire'[q])
      BY DEF Reached
    <3>3. \A a, b, w, v \in Nat : v <= w + sent => a + b + v <= a + b + w + sent
      OBVIOUS
    <3>4. /\ heard[q] \in Nat /\ Len(inbox[q]) \in Nat /\ Len(wire[q]) \in Nat
          /\ Len(wire'[q]) \in Nat
      BY <1>2 DEF AreNatural
    <3> QED BY <3>1, <3>2, <3>3, <3>4
  <2>3. Reached'[q] <= Sent'[p] /\ due'[q] <= Sent'[p]
    <3>1. Sent[p] + sent <= Sent'[p] /\ due'[q] <= due[q] + sent
      BY DEF StepBy
    <3> QED BY <1>2, <2>1, <2>2, <3>1 DEF AreNatural
  <2>4. InPhase(q)' /\ (program' # "talk" \/ phase'[q] = "prompt" => lines'[q] = 0)
    BY <1>2 DEF StepBy, PeerInv, InPhase
  <2> QED BY <1>1, <2>3, <2>4 DEF PeerInv
<1> QED BY <1>1, <1>4, <1>5 DEF UdpInv

\* p sends its first datagram or one more line.
LEMMA SendKeepsInv ==
  ASSUME UdpInv, NEW p \in Peers, NEW m \in Message, SendTo(p, m),
         UNCHANGED <<program, heard, inbox>>,
         phase' \in [Peers -> Phase], lines' \in [Peers -> 0 .. MaxLines],
         \A q \in Peers : q # p => phase'[q] = phase[q] /\ lines'[q] = lines[q],
         ~(program = "echo" /\ p = B), InPhase(p)',
         phase'[p] \notin {"prompt", "bound"},
         \/ phase[p] \in {"prompt", "bound"} /\ lines'[p] = lines[p]
         \/ phase[p] \notin {"prompt", "bound"} /\ lines'[p] = lines[p] + 1,
         program # "talk" => lines'[p] = lines[p]
  PROVE  UdpInv'
<1> DEFINE q == Other(p)
<1>1. q \in Peers /\ q # p /\ Words /\ PeerInv(p) /\ AreNatural
  BY OtherPeer, WordsNatural DEF UdpInv
<1>2. /\ wire' \in [Peers -> Seq(Message)] /\ opened' \in [Peers -> BOOLEAN]
      /\ dups' = dups /\ due' \in [Peers -> Nat]
      /\ wire'[p] = wire[p] /\ Len(wire'[q]) = Len(wire[q]) + 1
      /\ due'[p] = due[p] /\ due'[q] <= due[q] + 1
  BY <1>1, SendToFacts
<1> HIDE DEF q
<1>3. Words'
  BY <1>1, <1>2 DEF Words, NetTypeOK
<1>4. StepBy(p, q, 1)
  <2>1. Sent[p] + 1 <= Sent'[p]
    <3>1. Sent[p] = IF phase[p] \in {"prompt", "bound"} THEN 0 ELSE lines[p] + 1
      BY DEF Sent
    <3>2. Sent'[p] = lines'[p] + 1
      BY DEF Sent
    <3>3. lines[p] \in Nat /\ lines'[p] \in Nat
      BY <1>1, <1>3, WordsNaturalNext DEF AreNatural
    <3> QED BY <3>1, <3>2, <3>3
  <2>2. heard'[p] + Len(inbox'[p]) <= heard[p] + Len(inbox[p])
    <3>1. heard[p] + Len(inbox[p]) \in Nat
      BY <1>1 DEF AreNatural
    <3> QED BY <3>1
  <2>3. program # "talk" \/ phase'[p] = "prompt" => lines'[p] = 0
    BY <1>1 DEF PeerInv
  <2>4. Len(wire'[q]) <= Len(wire[q]) + 1
    BY <1>1, <1>2 DEF AreNatural
  <2>5. phase'[q] = phase[q] /\ lines'[q] = lines[q]
    BY <1>1
  <2> QED BY <1>2, <2>1, <2>2, <2>3, <2>4, <2>5 DEF StepBy
<1> QED BY <1>1, <1>3, <1>4, StepKeepsInv DEF q

\* p goes on without sending, and what it has read or dropped was in its queue.
LEMMA ReadKeepsInv ==
  ASSUME UdpInv, Words', NEW p \in Peers, UNCHANGED <<program, lines, due, wire>>,
         \A q \in Peers : q # p => /\ phase'[q] = phase[q] /\ heard'[q] = heard[q]
                                   /\ inbox'[q] = inbox[q],
         heard'[p] + Len(inbox'[p]) <= heard[p] + Len(inbox[p]),
         heard[p] <= heard'[p], InPhase(p)',
         phase[p] \in {"prompt", "bound"} \/ phase'[p] \notin {"prompt", "bound"},
         phase'[p] = "prompt" => phase[p] = "prompt"
  PROVE  UdpInv'
<1> DEFINE q == Other(p)
<1>1. q \in Peers /\ q # p /\ PeerInv(p) /\ AreNatural /\ AreNatural'
  BY OtherPeer, WordsNatural, WordsNaturalNext DEF UdpInv
<1> HIDE DEF q
<1>2. StepBy(p, q, 0)
  <2>1. Sent[p] + 0 <= Sent'[p]
    <3>1. CASE program = "echo" /\ p = B
      <4>1. Sent[p] = heard[p] /\ Sent'[p] = heard'[p]
        BY <3>1 DEF Sent
      <4> QED BY <1>1, <4>1 DEF AreNatural
    <3>2. CASE ~(program = "echo" /\ p = B)
      <4>1. /\ Sent[p] = IF phase[p] \in {"prompt", "bound"} THEN 0 ELSE lines[p] + 1
            /\ Sent'[p] = IF phase'[p] \in {"prompt", "bound"} THEN 0 ELSE lines[p] + 1
        BY <3>2 DEF Sent
      <4> QED BY <1>1, <4>1 DEF AreNatural
    <3> QED BY <3>1, <3>2
  <2>2. Len(wire'[q]) <= Len(wire[q]) + 0 /\ due'[q] <= due[q] + 0
    BY <1>1 DEF AreNatural
  <2>3. program # "talk" \/ phase'[p] = "prompt" => lines'[p] = 0
    BY <1>1 DEF PeerInv
  <2>4. phase'[q] = phase[q] /\ heard'[q] = heard[q] /\ inbox'[q] = inbox[q]
    BY <1>1
  <2> QED BY <2>1, <2>2, <2>3, <2>4 DEF StepBy
<1> QED BY <1>1, <1>2, StepKeepsInv DEF q

LEMMA UdpInvInit == Init => UdpInv
<1> SUFFICES ASSUME Init
             PROVE  UdpInv
  OBVIOUS
<1>1. <<>> \in Seq(Message) /\ Len(<<>>) = 0
  BY EmptySeq
<1>2. Words
  BY <1>1, LinesAreCounted, NetworkKind DEF Init, Words, NetTypeOK, Phase, Ended
<1>3. ASSUME NEW p \in Peers
      PROVE  PeerInv(p)
  <2>1. Other(p) \in Peers /\ B \in Peers
    BY OtherPeer DEF Peers
  <2>2. heard[p] = 0 /\ due[p] = 0 /\ inbox[p] = <<>> /\ wire[p] = <<>>
        /\ phase[p] = "prompt" /\ lines[p] = 0
    BY DEF Init
  <2>3. Sent[Other(p)] = 0
    BY <2>1 DEF Init, Sent
  <2>4. Reached[p] = 0
    BY <1>1, <2>2 DEF Reached
  <2> QED BY <2>2, <2>3, <2>4 DEF PeerInv, InPhase
<1> QED BY <1>2, <1>3 DEF UdpInv

LEMMA UdpInvStep == UdpInv /\ [Next]_vars => UdpInv'
<1> SUFFICES ASSUME UdpInv, [Next]_vars
             PROVE  UdpInv'
  OBVIOUS
<1> USE DEF Phase, Ended
<1>1. Words /\ AreNatural /\ \A p \in Peers : PeerInv(p)
  BY WordsNatural DEF UdpInv
<1>2. /\ "TEXT" \in Message /\ "NAT_PUNCH" \in Message
      /\ A \in Peers /\ B \in Peers /\ A # B /\ \A p \in Peers : p = A \/ p = B
  BY PeersDiffer DEF Message, Peers
<1>3. /\ phase \in [Peers -> Phase] /\ lines \in [Peers -> 0 .. MaxLines]
      /\ heard \in [Peers -> Nat] /\ due \in [Peers -> Nat]
  BY <1>1 DEF Words
<1>a. ASSUME NEW p \in Peers, NEW label \in Phase, Goto(p, label)
      PROVE  /\ phase' \in [Peers -> Phase] /\ phase'[p] = label
             /\ \A q \in Peers : q # p => phase'[q] = phase[q]
  BY <1>3, <1>a DEF Goto
\* The socket is closed, or was not there yet.
<1>b. ASSUME NEW p \in Peers, NEW label \in {"failed", "done"}, Exit(p, label),
             UNCHANGED <<program, lines, heard, due>>,
             phase[p] # "prompt", InPhase(p)'
      PROVE  UdpInv'
  <2>1. /\ inbox' \in [Peers -> Seq(Message)] /\ Len(inbox'[p]) <= Len(inbox[p])
        /\ \A q \in Peers : q # p => inbox'[q] = inbox[q]
        /\ Goto(p, label) /\ UNCHANGED <<wire, opened, dups>>
    BY <1>1, <1>b, ExitFacts DEF Exit
  <2>2. Words'
    BY <1>1, <1>a, <1>b, <2>1 DEF Words, NetTypeOK
  <2>3. heard'[p] + Len(inbox'[p]) <= heard[p] + Len(inbox[p]) /\ heard[p] <= heard'[p]
    <3>1. /\ heard[p] \in Nat /\ Len(inbox[p]) \in Nat
          /\ Len(inbox'[p]) \in Nat /\ heard'[p] = heard[p]
      BY <1>1, <1>b, <2>2, WordsNaturalNext DEF AreNatural
    <3> QED BY <2>1, <3>1
  <2>4. phase'[p] = label /\ \A q \in Peers : q # p => phase'[q] = phase[q]
    BY <1>a, <2>1
  <2> QED BY <1>b, <2>1, <2>2, <2>3, <2>4, ReadKeepsInv
\* The first datagram of the queue is read.
<1>c. ASSUME NEW p \in Peers, ReceiveFrom(p),
             UNCHANGED <<program, lines, due, wire, opened, dups>>,
             phase' \in [Peers -> Phase],
             \A q \in Peers : q # p => phase'[q] = phase[q],
             phase'[p] \notin {"prompt", "bound"}, InPhase(p)'
      PROVE  UdpInv'
  <2>1. /\ inbox' \in [Peers -> Seq(Message)] /\ heard' \in [Peers -> Nat]
        /\ heard'[p] + Len(inbox'[p]) = heard[p] + Len(inbox[p])
        /\ heard'[p] = heard[p] + 1
        /\ \A q \in Peers : q # p => heard'[q] = heard[q] /\ inbox'[q] = inbox[q]
    BY <1>1, <1>c, ReceiveFacts
  <2>2. Words'
    BY <1>1, <1>c, <2>1 DEF Words, NetTypeOK
  <2>3. heard'[p] + Len(inbox'[p]) <= heard[p] + Len(inbox[p]) /\ heard[p] <= heard'[p]
    <3>1. heard[p] + Len(inbox[p]) \in Nat /\ heard[p] \in Nat
      BY <1>1 DEF AreNatural
    <3> QED BY <2>1, <3>1
  <2> QED BY <1>c, <2>1, <2>2, <2>3, ReadKeepsInv
\* Nothing but the phase changes.
<1>d. ASSUME NEW p \in Peers, NEW label \in Phase, Goto(p, label),
             UNCHANGED <<program, lines, heard, due, netVars>>,
             phase[p] = "prompt", InPhase(p)'
      PROVE  UdpInv'
  <2>1. /\ phase' \in [Peers -> Phase] /\ phase'[p] = label
        /\ \A q \in Peers : q # p => phase'[q] = phase[q]
    BY <1>a, <1>d
  <2>2. Words'
    BY <1>1, <1>d, <2>1 DEF Words, NetTypeOK, netVars
  <2>3. heard'[p] + Len(inbox'[p]) <= heard[p] + Len(inbox[p]) /\ heard[p] <= heard'[p]
    <3>1. heard[p] + Len(inbox[p]) \in Nat /\ heard[p] \in Nat
      BY <1>1 DEF AreNatural
    <3> QED BY <1>d, <3>1 DEF netVars
  <2>4. UNCHANGED <<program, lines, heard, due, wire, inbox>>
    BY <1>d DEF netVars
  <2> QED BY <1>d, <2>1, <2>2, <2>3, <2>4, ReadKeepsInv
<1>4. ASSUME NEW p \in Peers, Bind(p)
      PROVE  UdpInv'
  <2>1. PICK label \in {"bound", "failed"} : Goto(p, label)
    BY <1>4 DEF Bind
  <2>2. InPhase(p)'
    BY <1>4, <1>a, <2>1 DEF Bind, InPhase
  <2> QED BY <1>4, <1>d, <2>1, <2>2 DEF Bind
<1>5. ASSUME NEW p \in Peers, SendMessage(p)
      PROVE  UdpInv'
  <2>1. CASE SendTo(p, "TEXT") /\ Goto(p, "wait") /\ UNCHANGED inbox
    <3>1. /\ phase' \in [Peers -> Phase] /\ phase'[p] = "wait"
          /\ \A q \in Peers : q # p => phase'[q] = phase[q]
      BY <1>a, <2>1
    <3>2. InPhase(p)'
      BY <1>5, <3>1 DEF SendMessage, InPhase
    <3> QED BY <1>2, <1>3, <1>5, <2>1, <3>1, <3>2, SendKeepsInv DEF SendMessage
  <2>2. CASE Exit(p, "failed") /\ UNCHANGED due
    <3>1. InPhase(p)'
      BY <1>5, <1>a, <2>2 DEF SendMessage, InPhase, Exit
    <3> QED BY <1>5, <1>b, <2>2, <3>1 DEF SendMessage
  <2> QED BY <1>5, <2>1, <2>2 DEF SendMessage
<1>6. ASSUME NEW p \in Peers, ReadMessage(p)
      PROVE  UdpInv'
  <2>1. /\ phase' \in [Peers -> Phase] /\ phase'[p] = "done"
        /\ \A q \in Peers : q # p => phase'[q] = phase[q]
    BY <1>6, <1>a DEF ReadMessage
  <2>2. InPhase(p)'
    BY <1>6, <2>1 DEF ReadMessage, InPhase
  <2> QED BY <1>6, <1>c, <2>1, <2>2 DEF ReadMessage
<1>7. ASSUME NEW p \in Peers, Start(p)
      PROVE  UdpInv'
  <2>1. /\ phase' \in [Peers -> Phase] /\ phase'[p] = "loop"
        /\ \A q \in Peers : q # p => phase'[q] = phase[q]
    BY <1>7, <1>a DEF Start
  <2>2. InPhase(p)'
    BY <1>7, <2>1 DEF Start, InPhase
  <2> QED BY <1>2, <1>3, <1>7, <2>1, <2>2, SendKeepsInv DEF Start
<1>8. ASSUME NEW p \in Peers, Say(p)
      PROVE  UdpInv'
  <2>1. /\ lines' \in [Peers -> 0 .. MaxLines] /\ lines'[p] = lines[p] + 1
        /\ \A q \in Peers : q # p => lines'[q] = lines[q]
    BY <1>3, <1>8, LinesAreCounted DEF Say
  <2>2. InPhase(p)'
    BY <1>1, <1>8 DEF Say, InPhase, PeerInv
  <2> QED BY <1>2, <1>3, <1>8, <2>1, <2>2, SendKeepsInv DEF Say
<1>9. ASSUME NEW p \in Peers, Hear(p)
      PROVE  UdpInv'
  <2>1. InPhase(p)'
    BY <1>1, <1>9 DEF Hear, InPhase, PeerInv
  <2> QED BY <1>3, <1>9, <1>c, <2>1 DEF Hear
<1>10. ASSUME NEW p \in Peers, SelectFails(p) \/ WaitFails(p)
       PROVE  UdpInv'
  <2>1. /\ Exit(p, "failed") /\ UNCHANGED <<program, lines, heard, due>>
        /\ phase[p] # "prompt"
    BY <1>10 DEF SelectFails, WaitFails
  <2>2. InPhase(p)'
    BY <1>1, <1>2, <1>a, <2>1 DEF InPhase, PeerInv, Exit
  <2> QED BY <1>b, <2>1, <2>2
<1>11. CASE Listen
  <2>1. PICK label \in {"loop", "failed"} : Goto(B, label)
    BY <1>11 DEF Listen
  <2>2. InPhase(B)'
    BY <1>2, <1>11, <1>a, <2>1 DEF Listen, InPhase
  <2> QED BY <1>2, <1>11, <1>d, <2>1, <2>2 DEF Listen
<1>12. CASE Echo
  <2>1. /\ program = "echo" /\ phase[B] = "loop" /\ ReceiveFrom(B) /\ SendTo(B, "TEXT")
        /\ UNCHANGED <<program, phase, lines>>
    BY <1>12 DEF Echo
  <2>2. /\ inbox' \in [Peers -> Seq(Message)] /\ heard' \in [Peers -> Nat]
        /\ heard'[B] + Len(inbox'[B]) = heard[B] + Len(inbox[B])
        /\ heard'[B] = heard[B] + 1
        /\ \A q \in Peers : q # B => heard'[q] = heard[q] /\ inbox'[q] = inbox[q]
    BY <1>1, <1>2, <2>1, ReceiveFacts
  <2>3. /\ wire' \in [Peers -> Seq(Message)] /\ opened' \in [Peers -> BOOLEAN]
        /\ dups' = dups /\ due' \in [Peers -> Nat]
        /\ wire'[B] = wire[B] /\ Len(wire'[Other(B)]) = Len(wire[Other(B)]) + 1
        /\ due'[B] = due[B] /\ due'[Other(B)] <= due[Other(B)] + 1
    BY <1>1, <1>2, <2>1, SendToFacts
  <2>4. Words'
    BY <1>1, <2>1, <2>2, <2>3 DEF Words, NetTypeOK
  <2>5. Other(B) = A
    BY <1>2 DEF Other
  <2>6. StepBy(B, A, 1)
    <3>1. Sent[B] + 1 <= Sent'[B]
      <4>1. Sent[B] = heard[B] /\ Sent'[B] = heard'[B]
        BY <1>2, <2>1 DEF Sent
      <4> QED BY <1>1, <1>2, <2>2, <4>1 DEF AreNatural
    <3>2. heard'[B] + Len(inbox'[B]) <= heard[B] + Len(inbox[B])
      <4>1. heard[B] + Len(inbox[B]) \in Nat
        BY <1>1, <1>2 DEF AreNatural
      <4> QED BY <2>2, <4>1
    <3>3. Len(wire'[A]) <= Len(wire[A]) + 1
      BY <1>1, <1>2, <2>3, <2>5 DEF AreNatural
    <3>4. InPhase(B)'
      BY <1>1, <1>2, <2>1 DEF PeerInv, InPhase
    <3>5. /\ program' = program /\ phase' = phase /\ lines' = lines
          /\ heard'[A] = heard[A] /\ inbox'[A] = inbox[A]
          /\ wire'[B] = wire[B] /\ due'[B] = due[B] /\ due'[A] <= due[A] + 1
      BY <1>2, <2>1, <2>2, <2>3, <2>5
    <3>6. lines'[B] = 0
      BY <1>1, <1>2, <2>1 DEF PeerInv
    <3> QED BY <3>1, <3>2, <3>3, <3>4, <3>5, <3>6 DEF StepBy
  <2> QED BY <1>2, <2>4, <2>5, <2>6, StepKeepsInv
<1>13. CASE ServerFails
  <2>1. InPhase(B)'
    BY <1>1, <1>2, <1>13, <1>a DEF InPhase, PeerInv, Exit, ServerFails
  <2> QED BY <1>2, <1>b, <1>13, <2>1 DEF ServerFails
<1>14. CASE Hello
  <2>1. CASE SendTo(A, "TEXT") /\ Goto(A, "wait")
    <3>1. /\ phase' \in [Peers -> Phase] /\ phase'[A] = "wait"
          /\ \A q \in Peers : q # A => phase'[q] = phase[q]
      BY <1>2, <1>a, <2>1
    <3>2. InPhase(A)'
      BY <1>2, <1>14, <3>1 DEF Hello, InPhase
    <3> QED BY <1>2, <1>3, <1>14, <2>1, <3>1, <3>2, SendKeepsInv DEF Hello
  <2>2. CASE Goto(A, "failed") /\ UNCHANGED <<due, wire, opened, dups>>
    <3>1. InPhase(A)'
      BY <1>2, <1>14, <1>a, <2>2 DEF Hello, InPhase
    <3> QED BY <1>2, <1>14, <1>d, <2>2, <3>1 DEF Hello, netVars
  <2> QED BY <1>14, <2>1, <2>2 DEF Hello
<1>15. CASE ReadEcho
  <2>1. /\ phase' \in [Peers -> Phase] /\ phase'[A] = "done"
        /\ \A q \in Peers : q # A => phase'[q] = phase[q]
    BY <1>2, <1>15, <1>a DEF ReadEcho
  <2>2. InPhase(A)'
    BY <1>2, <1>15, <2>1 DEF ReadEcho, InPhase
  <2> QED BY <1>2, <1>15, <1>c, <2>1, <2>2 DEF ReadEcho
<1>16. ASSUME NEW p \in Peers, Deliver(p)
       PROVE  UdpInv'
  <2>1. /\ NetTypeOK(Message)'
        /\ Len(inbox'[p]) + Len(wire'[p]) <= Len(inbox[p]) + Len(wire[p])
        /\ \A q \in Peers : q # p => inbox'[q] = inbox[q] /\ wire'[q] = wire[q]
        /\ UNCHANGED <<program, phase, lines, heard, due>>
    BY <1>1, <1>16, ArriveFacts DEF Deliver
  <2>2. Words'
    BY <1>1, <2>1 DEF Words
  <2>3. Sent' = Sent
    BY <2>1 DEF Sent
  <2>4. ASSUME NEW x \in Peers
        PROVE  Reached'[x] <= Reached[x]
    <3>1. /\ Reached[x] = heard[x] + Len(inbox[x]) + Len(wire[x])
          /\ Reached'[x] = heard[x] + Len(inbox'[x]) + Len(wire'[x])
      BY <2>1 DEF Reached
    <3>2. /\ heard[x] \in Nat /\ Len(inbox[x]) \in Nat /\ Len(wire[x]) \in Nat
          /\ Len(inbox'[x]) \in Nat /\ Len(wire'[x]) \in Nat
      BY <1>1, <2>2, WordsNaturalNext DEF AreNatural
    <3>3. Len(inbox'[x]) + Len(wire'[x]) <= Len(inbox[x]) + Len(wire[x])
      <4>1. CASE x = p
        BY <2>1, <4>1
      <4>2. CASE x # p
        <5>1. inbox'[x] = inbox[x] /\ wire'[x] = wire[x]
          BY <2>1, <4>2
        <5> QED BY <3>2, <5>1
      <4> QED BY <4>1, <4>2
    <3>4. \A h, a, b, c, d \in Nat : a + b <= c + d => h + a + b <= h + c + d
      OBVIOUS
    <3> QED BY <3>1, <3>2, <3>3, <3>4
  <2>5. ASSUME NEW x \in Peers
        PROVE  PeerInv(x)'
    <3>1. Reached'[x] <= Sent'[Other(x)]
      <4>1. Reached[x] <= Sent[Other(x)] /\ Other(x) \in Peers
        BY <1>1, OtherPeer DEF PeerInv
      <4>2. /\ Reached[x] \in Nat /\ Reached'[x] \in Nat /\ Sent[Other(x)] \in Nat
        BY <1>1, <2>2, <4>1, WordsNaturalNext DEF AreNatural
      <4> QED BY <2>3, <2>4, <4>1, <4>2
    <3> QED BY <1>1, <2>1, <2>3, <3>1 DEF PeerInv, InPhase
  <2> QED BY <2>2, <2>5 DEF UdpInv
<1>17. CASE UNCHANGED vars
  <2>1. UNCHANGED <<program, phase, lines, heard, due, wire, inbox, opened, dups>>
    BY <1>17 DEF vars, netVars
  <2> QED BY <2>1 DEF UdpInv, Words, NetTypeOK, PeerInv, InPhase, Sent, Reached
<1> QED
  BY <1>4, <1>5, <1>6, <1>7, <1>8, <1>9, <1>10, <1>11, <1>12, <1>13, <1>14, <1>15,
     <1>16, <1>17
  DEF Next, Server, EchoClient, Peer, Error

-----------------------------------------------------------------------------
\* TCP: what is in the streams.

\* Only the two parts of one greeting have been sent.
FewParts(s) == \A i \in 1 .. Len(s) : s[i] = "part" => i <= 2

\* A greeting, or what is left of it, is there to be read and will not be lost.
Fresh(s) == s # <<>> /\ s[1] = "part" /\ ~Contains(s, "RST")

\* The server serves one client at a time.
OneOpen ==
  \A c \in Clients :
    conn[c] = "open" => /\ server \in {"recv", "send", "close"}
                        /\ \A d \in Clients : conn[d] = "open" => d = c

\* Nothing has been said in a connection yet, by the one side or the other.
ServerSilent(c) == \/ conn[c] \in {"none", "queued"}
                   \/ conn[c] = "open" /\ server \in {"recv", "send"}
ClientSilent(c) == client[c] \in {"off", "refused", "send", "SIGPIPE"}

StreamInv ==
  \A c \in Clients :
    /\ FewParts(up[c]) /\ FewParts(down[c])
    /\ ServerSilent(c) => down[c] = <<>>
    /\ ClientSilent(c) => up[c] = <<>>

\* How far the two ends of a connection can be apart.
StepInv ==
  /\ pair = "tcp_test" => /\ server \notin {"recv", "send"}
                          /\ \A c \in Clients : read[c] = 0
  /\ \A c \in Clients :
       /\ client[c] \in {"off", "refused", "SIGPIPE"} => conn[c] = "none"
       /\ ServerSilent(c) /\ conn[c] # "none" /\ pair # "tcp_test"
            => client[c] \in {"send", "recv", "killed"}

\* A client whose whole greeting has been read by a server that was not killed:
\* its own greeting is to be sent, can be read, or has been.
Answered(c) ==
  /\ client[c] \in {"recv", "close", "done", "killed"}
  /\ ~Contains(up[c], "part")
  /\ \/ conn[c] = "open" /\ server \in {"send", "close"}
     \/ conn[c] = "closed"
  /\ client[c] = "recv" => ServerSilent(c) \/ Fresh(down[c])
  /\ client[c] \in {"close", "done"} => got[c] > 0


TcpInv ==
  /\ TcpTypeOK
  /\ OneOpen
  /\ StreamInv
  /\ StepInv
  /\ \A c \in Clients : read[c] = 2 /\ ~cut[c] => Answered(c)
LEMMA GreetingFacts ==
  /\ Greeting \in Stream /\ FewParts(Greeting) /\ Fresh(Greeting)
  /\ <<>> \in Stream /\ FewParts(<<>>) /\ <<>> \o Greeting = Greeting
  /\ <<"RST">> \in Stream /\ FewParts(<<"RST">>)
<1>1. Greeting \in Stream /\ <<>> \in Stream /\ <<"RST">> \in Stream
  BY DEF Greeting, Stream
<1>2. <<>> \o Greeting = Greeting
  BY <1>1, ConcatEmptySeq DEF Stream
<1>3. Greeting # <<>> /\ Greeting[1] = "part" /\ Len(Greeting) = 2
  BY DEF Greeting
<1>4. ~Contains(Greeting, "RST")
  <2>1. Greeting[1] # "RST" /\ Greeting[2] # "RST"
    BY DEF Greeting
  <2> QED BY <1>3, <2>1 DEF Contains
<1>5. FewParts(Greeting) /\ FewParts(<<>>) /\ FewParts(<<"RST">>)
  BY <1>3 DEF FewParts
<1> QED BY <1>1, <1>2, <1>3, <1>4, <1>5 DEF Fresh

\* A close adds no part; a greeting stays readable if the other stream has been read.
LEMMA AfterCloseFacts ==
  ASSUME NEW s \in Stream, NEW unread
  PROVE  /\ AfterClose(s, unread) \in Stream
         /\ FewParts(s) => FewParts(AfterClose(s, unread))
         /\ Contains(AfterClose(s, unread), "part") => Contains(s, "part")
         /\ Fresh(s) /\ ~Contains(unread, "part") => Fresh(AfterClose(s, unread))
<1> DEFINE last == IF Contains(unread, "part") THEN "RST" ELSE "FIN"
           t == Append(s, last)
<1>1. t = AfterClose(s, unread)
  BY DEF AfterClose
<1>2. last \in {"part", "FIN", "RST"} /\ last # "part"
  OBVIOUS
<1>3. ~Contains(unread, "part") => last # "RST"
  OBVIOUS
<1> HIDE DEF last
<1>4. /\ t \in Stream /\ Len(t) = Len(s) + 1 /\ Len(s) \in Nat
      /\ \A j \in 1 .. Len(s) : t[j] = s[j]
      /\ t[Len(s) + 1] = last
      /\ \A m : Contains(t, m) <=> Contains(s, m) \/ m = last
  BY <1>2, AppendFacts, LenProperties DEF Stream
<1> HIDE DEF t
<1>5. ASSUME FewParts(s)
      PROVE  FewParts(t)
  <2> SUFFICES ASSUME NEW i \in 1 .. Len(t), t[i] = "part"
               PROVE  i <= 2
    BY DEF FewParts
  <2>1. i \in 1 .. Len(s)
    BY <1>2, <1>4
  <2> QED BY <1>4, <1>5, <2>1 DEF FewParts
<1>6. ASSUME Fresh(s), ~Contains(unread, "part")
      PROVE  Fresh(t)
  <2>1. Len(s) # 0
    BY <1>6, EmptySeq DEF Fresh, Stream
  <2>2. 1 \in 1 .. Len(s) /\ Len(t) # 0
    BY <1>4, <2>1
  <2>3. t # <<>>
    BY <1>4, <2>2, EmptySeq DEF Stream
  <2> QED BY <1>3, <1>4, <1>6, <2>2, <2>3 DEF Fresh
<1> QED BY <1>1, <1>2, <1>4, <1>5, <1>6

\* What one recv returns is at most the greeting, and at least its beginning if
\* the greeting is there; nothing is left of a greeting that was read.
LEMMA RecvFacts ==
  ASSUME NEW s \in Stream, s # <<>>, FewParts(s), NEW n \in Readable(s)
  PROVE  /\ n \in 0 .. 2
         /\ SubSeq(s, n + 1, Len(s)) \in Stream /\ FewParts(SubSeq(s, n + 1, Len(s)))
         /\ n = 2 => ~Contains(SubSeq(s, n + 1, Len(s)), "part")
         /\ Contains(SubSeq(s, n + 1, Len(s)), "part") => Contains(s, "part")
         /\ Fresh(s) => n > 0
         /\ n > 0 => Contains(s, "part")
<1>1. /\ Len(s) \in Nat /\ n \in 0 .. Len(s)
      /\ \A i \in 1 .. n : s[i] = "part"
      /\ n = 0 => s[1] # "part" \/ Contains(s, "RST")
  BY LenProperties DEF Readable, Stream
<1>2. n \in 0 .. 2
  <2>1. CASE n > 2
    <3>1. s[3] = "part" /\ 3 \in 1 .. Len(s)
      BY <1>1, <2>1
    <3> QED BY <3>1 DEF FewParts
  <2> QED BY <1>1, <2>1
<1> DEFINE t == SubSeq(s, n + 1, Len(s))
<1>3. /\ t \in Stream /\ Len(t) = Len(s) - n
      /\ \A j \in 1 .. Len(s) - n : t[j] = s[n + j]
  <2>1. \A i \in 1 .. Len(s) : s[i] \in {"part", "FIN", "RST"}
    BY ElementOfSeq DEF Stream
  <2>2. n + 1 \in 1 .. Len(s) + 1 /\ Len(s) \in n .. Len(s)
    BY <1>1
  <2> QED BY <1>1, <2>1, <2>2, SubSeqProperties DEF Stream
<1> HIDE DEF t
<1>4. \A j \in 1 .. Len(t) : t[j] = "part" => n + j <= 2
  BY <1>1, <1>3 DEF FewParts
<1>5. FewParts(t)
  BY <1>1, <1>3, <1>4 DEF FewParts
<1>6. n = 2 => ~Contains(t, "part")
  BY <1>1, <1>3, <1>4 DEF Contains
<1>7. Fresh(s) => n > 0
  BY <1>1 DEF Fresh
<1>8. n > 0 => Contains(s, "part")
  BY <1>1 DEF Contains
<1>9. Contains(t, "part") => Contains(s, "part")
  <2> SUFFICES ASSUME NEW j \in 1 .. Len(t), t[j] = "part"
               PROVE  Contains(s, "part")
    BY DEF Contains
  <2>1. s[n + j] = "part" /\ n + j \in 1 .. Len(s)
    BY <1>1, <1>3
  <2> QED BY <2>1 DEF Contains
<1> QED BY <1>2, <1>3, <1>5, <1>6, <1>7, <1>8, <1>9 DEF t

LEMMA CloseServerFacts ==
  ASSUME TcpInv, CloseServer
  PROVE  /\ conn' \in [Clients -> {"none", "queued", "open", "closed"}]
         /\ down' \in [Clients -> Stream] /\ up' = up
         /\ port' \in {"free", "held", "lingering"}
         /\ \A c \in Clients :
              /\ conn'[c] = IF conn[c] = "none" THEN "none" ELSE "closed"
              /\ FewParts(down'[c])
              /\ conn[c] = "none" => down'[c] = <<>>
              /\ conn[c] = "closed" => down'[c] = down[c]
              /\ conn[c] = "open" => down'[c] = AfterClose(down[c], up[c])
<1>1. /\ conn \in [Clients -> {"none", "queued", "open", "closed"}]
      /\ down \in [Clients -> Stream] /\ port \in {"free", "held", "lingering"}
  BY DEF TcpInv, TcpTypeOK, HostTypeOK
<1>2. ASSUME NEW c \in Clients
      PROVE  /\ conn[c] = "open" => down'[c] = AfterClose(down[c], up[c])
             /\ conn[c] = "queued" => down'[c] = <<"RST">>
             /\ conn[c] \notin {"open", "queued"} => down'[c] = down[c]
  BY Zenon DEF CloseServer
<1>3. ASSUME NEW c \in Clients
      PROVE  down'[c] \in Stream /\ FewParts(down'[c])
  <2>1. down[c] \in Stream /\ FewParts(down[c])
    BY <1>1 DEF TcpInv, StreamInv
  <2>2. AfterClose(down[c], up[c]) \in Stream /\ FewParts(AfterClose(down[c], up[c]))
    BY <2>1, AfterCloseFacts
  <2> QED BY <1>2, <2>1, <2>2, GreetingFacts
<1>4. down' \in [Clients -> Stream]
  <2>1. down' = [c \in Clients |-> down'[c]]
    BY Zenon DEF CloseServer
  <2> QED BY <1>3, <2>1
<1>5. ASSUME NEW c \in Clients, conn[c] = "none"
      PROVE  down'[c] = <<>>
  BY <1>2, <1>5 DEF TcpInv, StreamInv, ServerSilent
<1>6. /\ conn' = [c \in Clients |-> IF conn[c] = "none" THEN "none" ELSE "closed"]
      /\ up' = up /\ port' \in {"lingering", "free", port}
  BY Zenon DEF CloseServer
<1> QED BY <1>1, <1>2, <1>3, <1>4, <1>5, <1>6

LEMMA TcpInvInit == TcpInit => TcpInv
BY GreetingFacts, StartsAreCounted
DEF TcpInit, HostInit, TcpInv, TcpTypeOK, HostTypeOK, OneOpen,
    StreamInv, StepInv, ServerSilent, ClientSilent, AtEnd

\* A step that leaves every connection and what is said in it alone.
LEMMA QuietKeepsInv ==
  ASSUME TcpInv, TcpTypeOK', UNCHANGED <<conn, up, down, read, got, cut, pair>>,
         \/ server' = server
         \/ {server, server'} \cap {"recv", "send", "close"} = {},
         \A c \in Clients : \/ client'[c] = client[c]
                            \/ client[c] \in {"off", "refused"}
                               /\ client'[c] \in {"refused", "done", "SIGPIPE"}
  PROVE  TcpInv'
<1>1. \A c \in Clients : ServerSilent(c)' <=> ServerSilent(c)
  BY DEF ServerSilent
<1>2. OneOpen'
  BY DEF TcpInv, OneOpen
<1>3. StreamInv'
  BY <1>1 DEF TcpInv, StreamInv, ClientSilent
<1>4. StepInv'
  BY <1>1 DEF TcpInv, StepInv
<1>5. ASSUME NEW c \in Clients, read'[c] = 2, ~cut'[c]
      PROVE  Answered(c)'
  BY <1>1, <1>5 DEF TcpInv, Answered
<1> QED BY <1>2, <1>3, <1>4, <1>5 DEF TcpInv

\* The server's sockets are closed: whoever is served is answered, or cut.
LEMMA CloseKeepsInv ==
  ASSUME TcpInv, CloseServer, server' = "off", UNCHANGED <<pair, client, starts, read, got>>,
         \/ server = "close" /\ UNCHANGED cut
         \/ (\A c \in Clients : conn[c] # "open") /\ UNCHANGED cut
         \/ cut' = [c \in Clients |-> cut[c] \/ conn[c] = "open"]
  PROVE  TcpInv'
<1>1. /\ conn' \in [Clients -> {"none", "queued", "open", "closed"}]
      /\ down' \in [Clients -> Stream] /\ up' = up
      /\ port' \in {"free", "held", "lingering"}
      /\ \A c \in Clients :
           /\ conn'[c] = IF conn[c] = "none" THEN "none" ELSE "closed"
           /\ FewParts(down'[c])
           /\ conn[c] = "none" => down'[c] = <<>>
           /\ conn[c] = "closed" => down'[c] = down[c]
           /\ conn[c] = "open" => down'[c] = AfterClose(down[c], up[c])
  BY CloseServerFacts
<1>2. TcpTypeOK'
  BY <1>1 DEF TcpInv, TcpTypeOK, HostTypeOK
<1>3. OneOpen'
  BY <1>1 DEF OneOpen
<1>4. StreamInv'
  BY <1>1 DEF TcpInv, StreamInv, ServerSilent, ClientSilent
<1>5. StepInv'
  BY <1>1 DEF TcpInv, StepInv, ServerSilent
<1>6. ASSUME NEW c \in Clients, read'[c] = 2, ~cut'[c]
      PROVE  Answered(c)'
  <2>1. read[c] = 2 /\ ~cut[c]
    BY <1>6
  <2>2. Answered(c)
    BY <2>1 DEF TcpInv
  <2>3. CASE conn[c] = "open"
    <3>1. server = "close"
      BY <1>6, <2>3
    <3>2. client[c] = "recv" => Fresh(down[c])
      BY <2>2, <2>3, <3>1 DEF Answered, ServerSilent
    <3>3. down[c] \in Stream /\ ~Contains(up[c], "part")
      BY <2>2 DEF Answered, TcpInv, TcpTypeOK, HostTypeOK
    <3>4. client[c] = "recv" => Fresh(down'[c])
      BY <1>1, <2>3, <3>2, <3>3, AfterCloseFacts
    <3> QED BY <1>1, <2>2, <2>3, <3>4 DEF Answered
  <2>4. CASE conn[c] = "closed"
    BY <1>1, <2>2, <2>4 DEF Answered, ServerSilent
  <2> QED BY <2>2, <2>3, <2>4 DEF Answered
<1> QED BY <1>2, <1>3, <1>4, <1>5, <1>6 DEF TcpInv

\* A client closes its socket, at its end or because it is killed.
LEMMA CloseClientKeepsInv ==
  ASSUME TcpInv, NEW c \in Clients, CloseClient(c), NEW end \in {"done", "killed"},
         client' = [client EXCEPT ![c] = end],
         \/ client[c] = "close"
         \/ client[c] \in {"send", "recv"} /\ end = "killed",
         UNCHANGED <<pair, server, starts, read, got, cut>>
  PROVE  TcpInv'
<1>1. /\ up \in [Clients -> Stream] /\ client'[c] = end
      /\ \A d \in Clients : d # c => client'[d] = client[d]
  BY DEF TcpInv, TcpTypeOK, HostTypeOK
<1>2. /\ UNCHANGED <<port, conn, down>>
      /\ up' = up \/ up' = [up EXCEPT ![c] = AfterClose(@, down[c])]
  BY DEF CloseClient
<1>3. /\ AfterClose(up[c], down[c]) \in Stream
      /\ FewParts(up[c]) => FewParts(AfterClose(up[c], down[c]))
      /\ Contains(AfterClose(up[c], down[c]), "part") => Contains(up[c], "part")
  BY <1>1, AfterCloseFacts
<1>4. /\ up' \in [Clients -> Stream]
      /\ FewParts(up[c]) => FewParts(up'[c])
      /\ Contains(up'[c], "part") => Contains(up[c], "part")
      /\ \A d \in Clients : d # c => up'[d] = up[d]
  BY <1>1, <1>2, <1>3
<1>5. TcpTypeOK'
  BY <1>2, <1>4 DEF TcpInv, TcpTypeOK, HostTypeOK, AtEnd
<1>6. OneOpen'
  BY <1>2 DEF TcpInv, OneOpen
<1>7. \A d \in Clients : ServerSilent(d)' <=> ServerSilent(d)
  BY <1>2 DEF ServerSilent
<1>8. StreamInv'
  <2> SUFFICES ASSUME NEW d \in Clients
               PROVE  /\ FewParts(up'[d]) /\ FewParts(down'[d])
                      /\ ServerSilent(d)' => down'[d] = <<>>
                      /\ ClientSilent(d)' => up'[d] = <<>>
    BY DEF StreamInv
  <2>1. /\ FewParts(up[d]) /\ FewParts(down[d])
        /\ ServerSilent(d) => down[d] = <<>>
        /\ ClientSilent(d) => up[d] = <<>>
    BY DEF TcpInv, StreamInv
  <2>2. FewParts(up'[d])
    BY <1>4, <2>1
  <2>3. ClientSilent(d)' => d # c /\ ClientSilent(d)
    BY <1>1 DEF ClientSilent
  <2> QED BY <1>2, <1>4, <1>7, <2>1, <2>2, <2>3
<1>9. StepInv'
  <2>1. ASSUME ServerSilent(c), conn[c] # "none", pair # "tcp_test"
        PROVE  client'[c] = "killed"
    BY <1>1, <2>1 DEF TcpInv, StepInv
  <2>2. client'[c] \notin {"off", "refused", "SIGPIPE"}
    BY <1>1
  <2> QED BY <1>1, <1>2, <1>7, <2>1, <2>2 DEF TcpInv, StepInv
<1>10. ASSUME NEW d \in Clients, read'[d] = 2, ~cut'[d]
       PROVE  Answered(d)'
  <2>1. Answered(d)
    BY <1>10 DEF TcpInv
  <2>2. ~Contains(up'[d], "part")
    BY <1>4, <2>1 DEF Answered
  <2>3. client'[d] = client[d] \/ (client'[d] = "killed") \/ (client[d] = "close" /\ client'[d] = "done")
    BY <1>1
  <2> QED BY <1>2, <1>7, <2>1, <2>2, <2>3 DEF Answered
<1> QED BY <1>5, <1>6, <1>8, <1>9, <1>10 DEF TcpInv

LEMMA AcceptKeepsInv ==
  ASSUME TcpInv, NEW c \in Clients, Accept(c)
  PROVE  TcpInv'
<1>1. /\ server = "accept" /\ conn[c] = "queued"
      /\ server' = IF pair = "tcp_test" THEN "close" ELSE "recv"
      /\ conn' = [conn EXCEPT ![c] = "open"]
      /\ UNCHANGED <<pair, client, starts, read, got, cut, port, up, down>>
  BY DEF Accept, historyVars
<1>2. TcpTypeOK'
  BY <1>1 DEF TcpInv, TcpTypeOK, HostTypeOK
<1>3. OneOpen'
  BY <1>1 DEF TcpInv, TcpTypeOK, HostTypeOK, OneOpen
<1>4. \A d \in Clients : ServerSilent(d)' => ServerSilent(d)
  BY <1>1 DEF TcpInv, TcpTypeOK, HostTypeOK, OneOpen, ServerSilent
<1>5. StreamInv'
  BY <1>1, <1>4 DEF TcpInv, StreamInv, ClientSilent
<1>6. StepInv'
  BY <1>1, <1>4 DEF TcpInv, TcpTypeOK, HostTypeOK, StepInv, ServerSilent
<1>7. ASSUME NEW d \in Clients, read'[d] = 2, ~cut'[d]
      PROVE  Answered(d)'
  <2>1. Answered(d)
    BY <1>1, <1>7 DEF TcpInv
  <2>2. d # c /\ conn[d] = "closed"
    BY <1>1, <2>1 DEF Answered
  <2> QED BY <1>1, <2>1, <2>2 DEF TcpInv, TcpTypeOK, HostTypeOK, Answered, ServerSilent
<1> QED BY <1>2, <1>3, <1>5, <1>6, <1>7 DEF TcpInv

LEMMA ServerRecvKeepsInv ==
  ASSUME TcpInv, NEW c \in Clients, ServerRecv(c)
  PROVE  TcpInv'
<1>1. PICK n \in Readable(up[c]) :
        /\ server = "recv" /\ conn[c] = "open" /\ up[c] # <<>> /\ server' = "send"
        /\ read' = [read EXCEPT ![c] = n]
        /\ up' = [up EXCEPT ![c] = SubSeq(up[c], n + 1, Len(up[c]))]
        /\ UNCHANGED <<pair, client, starts, got, cut, port, conn, down>>
  BY DEF ServerRecv
<1>2. /\ up \in [Clients -> Stream] /\ read \in [Clients -> 0 .. 2]
      /\ up[c] \in Stream /\ FewParts(up[c])
  BY DEF TcpInv, TcpTypeOK, HostTypeOK, StreamInv
<1>3. /\ n \in 0 .. 2
      /\ SubSeq(up[c], n + 1, Len(up[c])) \in Stream
      /\ FewParts(SubSeq(up[c], n + 1, Len(up[c])))
      /\ n = 2 => ~Contains(SubSeq(up[c], n + 1, Len(up[c])), "part")
      /\ n > 0 => Contains(up[c], "part")
  BY <1>1, <1>2, RecvFacts
<1>4. /\ up' \in [Clients -> Stream] /\ FewParts(up'[c])
      /\ n = 2 => ~Contains(up'[c], "part")
      /\ \A d \in Clients : d # c => up'[d] = up[d] /\ read'[d] = read[d]
      /\ read' \in [Clients -> 0 .. 2] /\ read'[c] = n
  BY <1>1, <1>2, <1>3
<1>5. TcpTypeOK'
  BY <1>1, <1>4 DEF TcpInv, TcpTypeOK, HostTypeOK
<1>6. OneOpen'
  BY <1>1 DEF TcpInv, OneOpen
<1>7. \A d \in Clients : ServerSilent(d)' <=> ServerSilent(d)
  BY <1>1 DEF ServerSilent
\* What there is to be read has been sent.
<1>8. client[c] \in {"recv", "killed"}
  <2>1. pair # "tcp_test" /\ ServerSilent(c) /\ ~ClientSilent(c)
    BY <1>1 DEF TcpInv, StepInv, StreamInv, ServerSilent
  <2> QED BY <1>1, <2>1 DEF TcpInv, StepInv, ClientSilent
<1>9. StreamInv'
  BY <1>1, <1>4, <1>7, <1>8 DEF TcpInv, StreamInv, ClientSilent
<1>10. StepInv'
  BY <1>1, <1>4, <1>7 DEF TcpInv, StepInv
<1>11. ASSUME NEW d \in Clients, read'[d] = 2, ~cut'[d]
       PROVE  Answered(d)'
  <2>1. CASE d = c
    BY <1>1, <1>4, <1>8, <1>11, <2>1 DEF Answered, ServerSilent
  <2>2. CASE d # c
    <3>1. Answered(d) /\ conn[d] = "closed"
      BY <1>1, <1>4, <1>11, <2>2 DEF TcpInv, OneOpen, Answered
    <3> QED BY <1>1, <1>4, <1>7, <2>2, <3>1 DEF Answered
  <2> QED BY <2>1, <2>2
<1> QED BY <1>5, <1>6, <1>9, <1>10, <1>11 DEF TcpInv

LEMMA ServerSendKeepsInv ==
  ASSUME TcpInv, NEW c \in Clients, ServerSend(c)
  PROVE  TcpInv'
<1>1. /\ server = "send" /\ conn[c] = "open" /\ server' = "close"
      /\ down' = [down EXCEPT ![c] = down[c] \o Greeting]
      /\ UNCHANGED <<pair, client, starts, read, got, cut, port, conn, up>>
  BY DEF ServerSend, historyVars
<1>2. down \in [Clients -> Stream] /\ down[c] = <<>>
  BY <1>1 DEF TcpInv, TcpTypeOK, HostTypeOK, StreamInv, ServerSilent
<1>3. /\ down' \in [Clients -> Stream] /\ down'[c] = Greeting
      /\ \A d \in Clients : d # c => down'[d] = down[d]
  BY <1>1, <1>2, GreetingFacts
<1>4. TcpTypeOK'
  BY <1>1, <1>3 DEF TcpInv, TcpTypeOK, HostTypeOK
<1>5. OneOpen'
  BY <1>1 DEF TcpInv, OneOpen
<1>6. \A d \in Clients : ServerSilent(d)' <=> d # c /\ ServerSilent(d)
  BY <1>1 DEF TcpInv, OneOpen, ServerSilent
<1>7. StreamInv'
  BY <1>1, <1>3, <1>6, GreetingFacts DEF TcpInv, StreamInv, ClientSilent
<1>8. StepInv'
  BY <1>1, <1>6 DEF TcpInv, StepInv
<1>9. ASSUME NEW d \in Clients, read'[d] = 2, ~cut'[d]
      PROVE  Answered(d)'
  <2>1. Answered(d)
    BY <1>1, <1>9 DEF TcpInv
  <2>2. client'[d] = "recv" => Fresh(down'[d]) \/ ServerSilent(d)'
    BY <1>1, <1>3, <1>6, <2>1, GreetingFacts DEF Answered
  <2> QED BY <1>1, <2>1, <2>2 DEF Answered
<1> QED BY <1>4, <1>5, <1>7, <1>8, <1>9 DEF TcpInv

LEMMA QueueKeepsInv ==
  ASSUME TcpInv, NEW c \in Clients, client[c] = "off", Queue(c),
         client' = [client EXCEPT ![c] = AfterConnect],
         UNCHANGED <<pair, server, starts, read, got, cut>>
  PROVE  TcpInv'
<1>1. /\ conn[c] = "none" /\ conn' = [conn EXCEPT ![c] = "queued"]
      /\ UNCHANGED <<port, up, down>>
      /\ down[c] = <<>> /\ up[c] = <<>>
  BY DEF TcpInv, StepInv, StreamInv, ServerSilent, ClientSilent, Queue
<1>2. /\ client'[c] = IF pair = "tcp_test" THEN "close" ELSE "send"
      /\ \A d \in Clients : d # c => client'[d] = client[d] /\ conn'[d] = conn[d]
      /\ conn'[c] = "queued"
  BY <1>1 DEF TcpInv, TcpTypeOK, HostTypeOK, AfterConnect
<1>3. TcpTypeOK'
  BY <1>1, <1>2 DEF TcpInv, TcpTypeOK, HostTypeOK, AfterConnect
<1>4. OneOpen'
  BY <1>1, <1>2 DEF TcpInv, OneOpen
<1>5. \A d \in Clients : d # c => (ServerSilent(d)' <=> ServerSilent(d))
  BY <1>2 DEF ServerSilent
<1>6. StreamInv'
  BY <1>1, <1>2, <1>5 DEF TcpInv, StreamInv, ClientSilent
<1>7. StepInv'
  BY <1>2, <1>5 DEF TcpInv, StepInv
<1>8. ASSUME NEW d \in Clients, read'[d] = 2, ~cut'[d]
      PROVE  Answered(d)'
  <2>1. Answered(d)
    BY <1>8 DEF TcpInv
  <2>2. d # c
    BY <1>1, <2>1 DEF Answered
  <2> QED BY <1>1, <1>2, <1>5, <2>1, <2>2 DEF Answered
<1> QED BY <1>3, <1>4, <1>6, <1>7, <1>8 DEF TcpInv

LEMMA ClientSendKeepsInv ==
  ASSUME TcpInv, NEW c \in Clients, ClientSend(c)
  PROVE  TcpInv'
<1>1. /\ client[c] = "send" /\ client' = [client EXCEPT ![c] = "recv"]
      /\ up' = IF conn[c] = "closed" THEN up ELSE [up EXCEPT ![c] = up[c] \o Greeting]
      /\ UNCHANGED <<pair, server, starts, read, got, cut, port, conn, down>>
  BY DEF ClientSend, historyVars
<1>2. up \in [Clients -> Stream] /\ up[c] = <<>>
  BY <1>1 DEF TcpInv, TcpTypeOK, HostTypeOK, StreamInv, ClientSilent
<1>3. /\ up' \in [Clients -> Stream] /\ FewParts(up'[c])
      /\ client'[c] = "recv"
      /\ \A d \in Clients : d # c => up'[d] = up[d] /\ client'[d] = client[d]
  BY <1>1, <1>2, GreetingFacts DEF TcpInv, TcpTypeOK
<1>4. TcpTypeOK'
  BY <1>1, <1>3 DEF TcpInv, TcpTypeOK, HostTypeOK
<1>5. OneOpen'
  BY <1>1 DEF TcpInv, OneOpen
<1>6. \A d \in Clients : ServerSilent(d)' <=> ServerSilent(d)
  BY <1>1 DEF ServerSilent
<1>7. StreamInv'
  BY <1>1, <1>3, <1>6 DEF TcpInv, StreamInv, ClientSilent
<1>8. StepInv'
  BY <1>1, <1>3, <1>6 DEF TcpInv, StepInv
<1>9. ASSUME NEW d \in Clients, read'[d] = 2, ~cut'[d]
      PROVE  Answered(d)'
  <2>1. Answered(d)
    BY <1>1, <1>9 DEF TcpInv
  <2>2. d # c
    BY <1>1, <2>1 DEF Answered
  <2> QED BY <1>1, <1>3, <1>6, <2>1, <2>2 DEF Answered
<1> QED BY <1>4, <1>5, <1>7, <1>8, <1>9 DEF TcpInv

LEMMA ClientRecvKeepsInv ==
  ASSUME TcpInv, NEW c \in Clients, ClientRecv(c)
  PROVE  TcpInv'
<1>1. PICK n \in Readable(down[c]) :
        /\ client[c] = "recv" /\ down[c] # <<>>
        /\ client' = [client EXCEPT ![c] = "close"]
        /\ got' = [got EXCEPT ![c] = n]
        /\ down' = [down EXCEPT ![c] = SubSeq(down[c], n + 1, Len(down[c]))]
        /\ UNCHANGED <<pair, server, starts, read, cut, port, conn, up>>
  BY DEF ClientRecv
<1>2. /\ down \in [Clients -> Stream] /\ got \in [Clients -> 0 .. 2]
      /\ client \in [Clients -> {"off", "refused", "send", "recv", "close"} \union AtEnd]
      /\ down[c] \in Stream /\ FewParts(down[c])
  BY DEF TcpInv, TcpTypeOK, HostTypeOK, StreamInv
<1>3. /\ n \in 0 .. 2
      /\ SubSeq(down[c], n + 1, Len(down[c])) \in Stream
      /\ FewParts(SubSeq(down[c], n + 1, Len(down[c])))
      /\ Fresh(down[c]) => n > 0
  BY <1>1, <1>2, RecvFacts
<1>4. /\ down' \in [Clients -> Stream] /\ FewParts(down'[c])
      /\ got' \in [Clients -> 0 .. 2] /\ got'[c] = n /\ client'[c] = "close"
      /\ \A d \in Clients : d # c => /\ down'[d] = down[d] /\ got'[d] = got[d]
                                     /\ client'[d] = client[d]
  BY <1>1, <1>2, <1>3
<1>5. TcpTypeOK'
  BY <1>1, <1>4 DEF TcpInv, TcpTypeOK, HostTypeOK
<1>6. OneOpen'
  BY <1>1 DEF TcpInv, OneOpen
<1>7. ~ServerSilent(c) /\ \A d \in Clients : ServerSilent(d)' <=> ServerSilent(d)
  BY <1>1 DEF TcpInv, StreamInv, ServerSilent
<1>8. StreamInv'
  BY <1>1, <1>4, <1>7 DEF TcpInv, StreamInv, ClientSilent
<1>9. StepInv'
  BY <1>1, <1>4, <1>7 DEF TcpInv, StepInv
<1>10. ASSUME NEW d \in Clients, read'[d] = 2, ~cut'[d]
       PROVE  Answered(d)'
  <2>1. Answered(d)
    BY <1>1, <1>10 DEF TcpInv
  <2>2. CASE d = c
    <3>1. n > 0
      BY <1>1, <1>3, <1>7, <2>1, <2>2 DEF Answered
    <3> QED BY <1>1, <1>4, <2>1, <2>2, <3>1 DEF Answered
  <2>3. CASE d # c
    BY <1>1, <1>4, <1>7, <2>1, <2>3 DEF Answered
  <2> QED BY <2>2, <2>3
<1> QED BY <1>5, <1>6, <1>8, <1>9, <1>10 DEF TcpInv

LEMMA TcpInvStep == TcpInv /\ [TcpNext]_tcpVars => TcpInv'
<1> SUFFICES ASSUME TcpInv, [TcpNext]_tcpVars
             PROVE  TcpInv'
  OBVIOUS
<1> USE DEF tcpHostVars, historyVars
<1>1. TcpTypeOK
  BY DEF TcpInv
<1>2. CASE StartServer
  <2>1. TcpTypeOK'
    BY <1>1, <1>2, StartsAreCounted
    DEF StartServer, TcpTypeOK, HostTypeOK
  <2> QED BY <1>2, <2>1, QuietKeepsInv DEF StartServer
<1>3. CASE BindChecked \/ BindUnchecked
  <2>1. TcpTypeOK'
    BY <1>1, <1>3
    DEF BindChecked, BindUnchecked, TcpTypeOK, HostTypeOK
  <2> QED BY <1>3, <2>1, QuietKeepsInv DEF BindChecked, BindUnchecked
<1>4. CASE ServerClose
  BY <1>4, CloseKeepsInv DEF ServerClose
<1>5. CASE ServerError
  <2>1. \A c \in Clients : conn[c] # "open"
    BY <1>5 DEF ServerError, TcpInv, OneOpen
  <2> QED BY <1>5, <2>1, CloseKeepsInv DEF ServerError
<1>6. CASE KillServer
  <2>1. TcpInv /\ CloseServer /\ server' = "off" /\ UNCHANGED <<pair, client, starts, read, got>>
        /\ cut' = [c \in Clients |-> cut[c] \/ conn[c] = "open"]
    BY <1>6 DEF KillServer
  <2> QED BY <2>1, CloseKeepsInv
<1>7. CASE PortLingers
  <2>1. TcpTypeOK'
    BY <1>1, <1>7 DEF PortLingers, LingerEnds, TcpTypeOK, HostTypeOK
  <2> QED BY <1>7, <2>1, QuietKeepsInv DEF PortLingers, LingerEnds
<1>8. ASSUME NEW c \in Clients, Connect(c)
      PROVE  TcpInv'
  <2>1. CASE Queue(c) /\ client' = [client EXCEPT ![c] = AfterConnect]
    BY <1>8, <2>1, QueueKeepsInv DEF Connect
  <2>2. CASE client' = [client EXCEPT ![c] = "refused"] /\ UNCHANGED tcpHostVars
    <3>1. TcpTypeOK'
      BY <1>1, <1>8, <2>2 DEF Connect, TcpTypeOK, HostTypeOK
    <3> QED BY <1>1, <1>8, <2>2, <3>1, QuietKeepsInv DEF Connect, TcpTypeOK
  <2> QED BY <1>8, <2>1, <2>2 DEF Connect
<1>9. ASSUME NEW c \in Clients, Refused(c) \/ SendUnconnected(c)
      PROVE  TcpInv'
  <2>1. TcpTypeOK'
    BY <1>1, <1>9
    DEF Refused, SendUnconnected, TcpTypeOK, HostTypeOK, AtEnd
  <2> QED BY <1>1, <1>9, <2>1, QuietKeepsInv DEF Refused, SendUnconnected, TcpTypeOK
<1>10. ASSUME NEW c \in Clients, ClientClose(c) \/ KillClient(c)
       PROVE  TcpInv'
  BY <1>10, CloseClientKeepsInv DEF ClientClose, KillClient
<1>11. CASE UNCHANGED tcpVars
  BY <1>11
  DEF tcpVars, TcpInv, TcpTypeOK, HostTypeOK, OneOpen, StreamInv,
      StepInv, ServerSilent, ClientSilent, Answered
<1> QED
  BY <1>2, <1>3, <1>4, <1>5, <1>6, <1>7, <1>8, <1>9, <1>10, <1>11, AcceptKeepsInv,
     ServerRecvKeepsInv, ServerSendKeepsInv, ClientSendKeepsInv, ClientRecvKeepsInv
  DEF TcpNext, ServerStep, ClientStep

-----------------------------------------------------------------------------
\* TCP: how many clients are served.

\* The clients that a server has taken from its queue and that are still with it,
\* have been heard, or have an answer to read or have read it.
Accepted ==
  {c \in Clients : \/ conn[c] = "open" \/ Contains(down[c], "part")
                   \/ read[c] > 0 \/ got[c] > 0}

\* Every start takes up one client, and has not done so before accept.
SeatsInv ==
  /\ IsFiniteSet(Accepted)
  /\ Cardinality(Accepted) <= starts
  /\ server \in {"bind", "accept"} => Cardinality(Accepted) < starts

LEMMA SeatsInvInit == TcpInit => SeatsInv
<1> SUFFICES ASSUME TcpInit
             PROVE  SeatsInv
  OBVIOUS
<1>1. \A c \in Clients : ~Contains(<<>>, "part") /\ ~(0 > 0)
  BY DEF Contains
<1>2. Accepted = {}
  BY <1>1 DEF TcpInit, HostInit, Accepted
<1> QED BY <1>2, FS_EmptySet DEF TcpInit, SeatsInv

\* A step that takes up nobody.
LEMMA NobodyKeepsSeats ==
  ASSUME TcpInv, SeatsInv, Accepted' \subseteq Accepted,
         \/ starts' = starts /\ (server' = server \/ server' \notin {"bind", "accept"})
         \/ starts' = starts /\ server = "bind"
         \/ starts' = starts + 1
  PROVE  SeatsInv'
<1>1. /\ IsFiniteSet(Accepted') /\ Cardinality(Accepted') <= Cardinality(Accepted)
      /\ Cardinality(Accepted') \in Nat /\ Cardinality(Accepted) \in Nat
  BY FS_Subset, FS_CardinalityType DEF SeatsInv
<1>2. starts \in Nat
  BY StartsAreCounted DEF TcpInv, TcpTypeOK
<1> HIDE DEF Accepted
<1> QED BY <1>1, <1>2 DEF SeatsInv

\* Accept takes up one.
LEMMA AcceptKeepsSeats ==
  ASSUME TcpInv, SeatsInv, NEW c \in Clients, Accept(c)
  PROVE  SeatsInv'
<1>1. /\ server = "accept" /\ server' \in {"close", "recv"} /\ starts' = starts
      /\ conn' = [conn EXCEPT ![c] = "open"]
      /\ UNCHANGED <<down, read, got>>
  BY DEF Accept, historyVars
<1>2. Accepted' \subseteq Accepted \union {c}
  BY <1>1 DEF Accepted, TcpInv, TcpTypeOK, HostTypeOK
<1>3. /\ IsFiniteSet(Accepted \union {c})
      /\ Cardinality(Accepted \union {c}) <= Cardinality(Accepted) + 1
      /\ Cardinality(Accepted) \in Nat
  <2>1. IsFiniteSet(Accepted) /\ Cardinality(Accepted) \in Nat
    BY FS_CardinalityType DEF SeatsInv
  <2>2. /\ IsFiniteSet(Accepted \union {c})
        /\ Cardinality(Accepted \union {c})
             = IF c \in Accepted THEN Cardinality(Accepted) ELSE Cardinality(Accepted) + 1
    BY <2>1, FS_AddElement, Zenon
  <2> HIDE DEF Accepted
  <2> QED BY <2>1, <2>2
<1>4. /\ IsFiniteSet(Accepted')
      /\ Cardinality(Accepted') <= Cardinality(Accepted \union {c})
      /\ Cardinality(Accepted') \in Nat /\ Cardinality(Accepted \union {c}) \in Nat
  BY <1>2, <1>3, FS_Subset, FS_CardinalityType
<1>5. starts \in Nat /\ Cardinality(Accepted) < starts
  BY <1>1, StartsAreCounted DEF TcpInv, TcpTypeOK, SeatsInv
<1> QED BY <1>1, <1>3, <1>4, <1>5 DEF SeatsInv

\* What the server's sockets leave behind when they are closed is no answer.
LEMMA CloseTakesNobody ==
  ASSUME TcpInv, CloseServer, UNCHANGED <<read, got>>
  PROVE  Accepted' \subseteq Accepted
<1> SUFFICES ASSUME NEW c \in Clients, c \in Accepted', c \notin Accepted
             PROVE  FALSE
  BY DEF Accepted
<1>1. down[c] \in Stream /\ conn[c] # "open" /\ ~Contains(down[c], "part")
  BY DEF Accepted, TcpInv, TcpTypeOK, HostTypeOK
<1>2. /\ conn[c] = "queued" => down'[c] = <<"RST">>
      /\ conn[c] \notin {"open", "queued"} => down'[c] = down[c]
      /\ conn'[c] # "open"
  BY Zenon DEF CloseServer
<1>3. ~Contains(<<"RST">>, "part")
  BY DEF Contains
<1>4. Contains(down'[c], "part")
  BY <1>1, <1>2 DEF Accepted
<1> QED BY <1>1, <1>2, <1>3, <1>4

LEMMA SeatsInvStep == TcpInv /\ SeatsInv /\ [TcpNext]_tcpVars => SeatsInv'
<1> SUFFICES ASSUME TcpInv, SeatsInv, [TcpNext]_tcpVars
             PROVE  SeatsInv'
  OBVIOUS
<1> USE DEF tcpHostVars, historyVars
\* The steps that do not touch what Accepted is made of.
<1>1. ASSUME UNCHANGED <<conn, down, read, got>>,
             \/ starts' = starts /\ (server' = server \/ server' \notin {"bind", "accept"})
             \/ starts' = starts /\ server = "bind"
             \/ starts' = starts + 1
      PROVE  SeatsInv'
  <2>1. Accepted' \subseteq Accepted
    BY <1>1 DEF Accepted
  <2> QED BY <1>1, <2>1, NobodyKeepsSeats
<1>2. CASE StartServer \/ BindChecked \/ BindUnchecked \/ PortLingers
  BY <1>1, <1>2 DEF StartServer, BindChecked, BindUnchecked, PortLingers, LingerEnds
<1>3. CASE ServerError \/ ServerClose \/ KillServer
  <2>1. /\ CloseServer /\ server' = "off" /\ UNCHANGED <<starts, read, got>>
    BY <1>3 DEF ServerError, ServerClose, KillServer
  <2> QED BY <2>1, CloseTakesNobody, NobodyKeepsSeats
<1>4. ASSUME NEW c \in Clients, ServerRecv(c)
      PROVE  SeatsInv'
  <2>1. /\ conn[c] = "open" /\ server' = "send" /\ UNCHANGED <<starts, conn, down, got>>
        /\ \A d \in Clients : d # c => read'[d] = read[d]
    BY <1>4 DEF ServerRecv, TcpInv, TcpTypeOK
  <2>2. Accepted' \subseteq Accepted
    BY <2>1 DEF Accepted
  <2> QED BY <2>1, <2>2, NobodyKeepsSeats
<1>5. ASSUME NEW c \in Clients, ServerSend(c)
      PROVE  SeatsInv'
  <2>1. /\ conn[c] = "open" /\ server' = "close" /\ UNCHANGED <<starts, conn, read, got>>
        /\ \A d \in Clients : d # c => down'[d] = down[d]
    BY <1>5 DEF ServerSend, TcpInv, TcpTypeOK, HostTypeOK
  <2>2. Accepted' \subseteq Accepted
    BY <2>1 DEF Accepted
  <2> QED BY <2>1, <2>2, NobodyKeepsSeats
<1>6. ASSUME NEW c \in Clients, Connect(c)
      PROVE  SeatsInv'
  <2>1. /\ UNCHANGED <<server, starts, down, read, got>>
        /\ conn' = [conn EXCEPT ![c] = "queued"] \/ conn' = conn
    BY <1>6 DEF Connect, Queue
  <2>2. Accepted' \subseteq Accepted
    BY <2>1 DEF Accepted, TcpInv, TcpTypeOK, HostTypeOK
  <2> QED BY <2>1, <2>2, NobodyKeepsSeats
<1>7. ASSUME NEW c \in Clients, ClientRecv(c)
      PROVE  SeatsInv'
  <2>1. PICK n \in Readable(down[c]) :
          /\ down[c] # <<>>
          /\ got' = [got EXCEPT ![c] = n]
          /\ down' = [down EXCEPT ![c] = SubSeq(down[c], n + 1, Len(down[c]))]
          /\ UNCHANGED <<server, starts, read, conn>>
    BY <1>7 DEF ClientRecv
  <2>2. down[c] \in Stream /\ FewParts(down[c])
    BY DEF TcpInv, TcpTypeOK, HostTypeOK, StreamInv
  <2>3. n \in 0 .. 2 /\ (n > 0 => Contains(down[c], "part"))
    BY <2>1, <2>2, RecvFacts
  <2>4. Contains(SubSeq(down[c], n + 1, Len(down[c])), "part") => Contains(down[c], "part")
    BY <2>1, <2>2, RecvFacts
  <2>5. /\ got'[c] = n /\ down'[c] = SubSeq(down[c], n + 1, Len(down[c]))
        /\ \A d \in Clients : d # c => down'[d] = down[d] /\ got'[d] = got[d]
    BY <2>1 DEF TcpInv, TcpTypeOK, HostTypeOK
  <2>6. Accepted' \subseteq Accepted
    <3> SUFFICES ASSUME NEW d \in Clients, d \in Accepted'
                 PROVE  d \in Accepted
      BY DEF Accepted
    <3>1. CASE d = c
      BY <2>1, <2>3, <2>4, <2>5, <3>1 DEF Accepted
    <3>2. CASE d # c
      BY <2>1, <2>5, <3>2 DEF Accepted
    <3> QED BY <3>1, <3>2
  <2> QED BY <2>1, <2>6, NobodyKeepsSeats
<1>8. ASSUME NEW c \in Clients,
             \/ Refused(c) \/ SendUnconnected(c) \/ ClientSend(c)
             \/ ClientClose(c) \/ KillClient(c)
      PROVE  SeatsInv'
  BY <1>1, <1>8
  DEF Refused, SendUnconnected, ClientSend, ClientClose, KillClient, CloseClient
<1>9. CASE UNCHANGED tcpVars
  BY <1>1, <1>9 DEF tcpVars
<1> QED
  BY <1>2, <1>3, <1>4, <1>5, <1>6, <1>7, <1>8, <1>9, AcceptKeepsSeats
  DEF TcpNext, ServerStep, ClientStep

-----------------------------------------------------------------------------
\* The two families of programs side by side.
LEMMA BothInvariant == LiveSpec => [](UdpInv /\ TcpInv /\ SeatsInv)
<1>1. AllInit => UdpInv /\ TcpInv /\ SeatsInv
  BY UdpInvInit, TcpInvInit, SeatsInvInit DEF AllInit
<1>2. UdpInv /\ TcpInv /\ SeatsInv /\ [AllNext]_allVars
        => (UdpInv /\ TcpInv /\ SeatsInv)'
  <2>1. [AllNext]_allVars => [Next]_vars /\ [TcpNext]_tcpVars
    BY DEF AllNext, allVars
  <2> QED BY <2>1, UdpInvStep, TcpInvStep, SeatsInvStep
<1> QED BY <1>1, <1>2, PTL DEF LiveSpec

\* However the programs proceed, a program of the UDP exchanges reads, and is
\* sent while it is ready, no more datagrams than the other one sends, and a
\* program over TCP reads no more than one greeting.
THEOREM ExchangeTypes == LiveSpec => []AllTypeOK
<1>1. UdpInv /\ TcpInv => AllTypeOK
  BY UdpInvType DEF TcpInv, AllTypeOK
<1> QED BY <1>1, BothInvariant, PTL

\* However many clients come, and whatever is killed, as many are heard or
\* answered at most as the server has been started: what the others' connect and
\* send report as done stays in a queue.
THEOREM ServesOneEach == LiveSpec => []OneClientEach
<1>1. TcpInv /\ SeatsInv => OneClientEach
  <2> SUFFICES ASSUME TcpInv, SeatsInv
               PROVE  OneClientEach
    OBVIOUS
  <2>1. Served \subseteq Accepted
    BY DEF Served, Accepted
  <2>2. /\ Cardinality(Served) <= Cardinality(Accepted)
        /\ Cardinality(Served) \in Nat /\ Cardinality(Accepted) \in Nat
    BY <2>1, FS_Subset, FS_CardinalityType DEF SeatsInv
  <2>3. starts \in Nat /\ Cardinality(Accepted) <= starts
    BY StartsAreCounted DEF TcpInv, TcpTypeOK, SeatsInv
  <2> QED BY <2>2, <2>3 DEF OneClientEach
<1> QED BY <1>1, BothInvariant, PTL

\* Whatever is killed and restarted, a client whose whole greeting was read by a
\* server that was not killed ends with at least the beginning of the server's.
THEOREM GreetingIsRead == LiveSpec => []GreetingArrives
<1>1. TcpInv => GreetingArrives
  BY DEF TcpInv, GreetingArrives, Answered
<1> QED BY <1>1, BothInvariant, PTL
=============================================================================
