-------------------------- MODULE AckPunchProofs --------------------------
(***************************************************************************)
(* No client of stun/ ever gets through create_hole_punch, for every       *)
(* number of attempts and every kind of network.                           *)
(***************************************************************************)
EXTENDS AckPunch, UdpNatProofs

Inv == NetTypeOK(Datagram) /\ phase \in [Peers -> Phase] /\ NeverAcked

LEMMA InvInit == Init => Inv
<1>1. <<>> \in Seq(Datagram) /\ \A m : ~Contains(<<>>, m)
  BY EmptySeq DEF Contains
<1> QED
  BY <1>1, NetworkKind
  DEF Init, NetInit, NetTypeOK, Inv, NeverAcked, Pending, Phase

\* Where a hole_punch is posted, no ack turns up.
LEMMA SendStep ==
  ASSUME Inv, NEW p \in Peers, Send(p)
  PROVE  Inv'
<1> DEFINE o == Other(p)
<1>1. o \in Peers /\ wire[o] \in Seq(Datagram) /\ "hole_punch" \in Datagram
  BY OtherPeer DEF Inv, NetTypeOK, Datagram
<1>2. /\ Append(wire[o], "hole_punch") \in Seq(Datagram)
      /\ Contains(Append(wire[o], "hole_punch"), "ack") => Contains(wire[o], "ack")
  BY <1>1, AppendFacts
<1>3. /\ wire' = [wire EXCEPT ![o] = Append(@, "hole_punch")]
      /\ opened' = [opened EXCEPT ![p] = TRUE]
      /\ UNCHANGED <<inbox, dups>>
      /\ phase' = [phase EXCEPT ![p] = "recv"]
  BY DEF Send, Post, Goto
<1> HIDE DEF o
<1>4. NetTypeOK(Datagram)'
  BY <1>1, <1>2, <1>3 DEF Inv, NetTypeOK
<1>5. phase' \in [Peers -> Phase] /\ \A q \in Peers : phase'[q] # "connected"
  BY <1>3 DEF Inv, Phase, NeverAcked
<1>6. ASSUME NEW q \in Peers
      PROVE  ~Pending(q, "ack")'
  <2>1. wire \in [Peers -> Seq(Datagram)] /\ ~Contains(inbox[q], "ack")
        /\ ~Contains(wire[q], "ack")
    BY DEF Inv, NetTypeOK, NeverAcked, Pending
  <2>2. ~Contains(wire'[q], "ack")
    BY <1>1, <1>2, <1>3, <2>1
  <2> QED BY <1>3, <2>1, <2>2 DEF Pending
<1> QED BY <1>4, <1>5, <1>6 DEF Inv, NeverAcked

\* No ack is waiting, so whatever is read is no ack.
LEMMA RecvStep ==
  ASSUME Inv, NEW p \in Peers, Recv(p)
  PROVE  Inv'
<1>1. inbox[p] # <<>> /\ inbox[p] \in Seq(Datagram) /\ ~Contains(inbox[p], "ack")
  BY DEF Recv, Take, Inv, NetTypeOK, NeverAcked, Pending
<1>2. /\ Head(inbox[p]) # "ack" /\ Tail(inbox[p]) \in Seq(Datagram)
      /\ ~Contains(Tail(inbox[p]), "ack")
  BY <1>1, TailFacts
<1>3. /\ inbox' = [inbox EXCEPT ![p] = Tail(@)]
      /\ phase' = [phase EXCEPT ![p] = "sleep"]
      /\ UNCHANGED <<wire, opened, dups>>
  BY <1>2 DEF Recv, Take, Goto
<1>4. NetTypeOK(Datagram)'
  BY <1>2, <1>3 DEF Inv, NetTypeOK
<1>5. \A q \in Peers : ~Contains(inbox'[q], "ack")
  BY <1>2, <1>3 DEF Inv, NetTypeOK, NeverAcked, Pending
<1> QED BY <1>3, <1>4, <1>5 DEF Inv, NeverAcked, Pending, Phase

LEMMA GiveUpStep ==
  ASSUME Inv, NEW p \in Peers, GiveUp(p)
  PROVE  Inv'
<1>1. <<>> \in Seq(Datagram) /\ ~Contains(<<>>, "ack")
  BY EmptySeq DEF Contains
<1>2. /\ inbox' = [inbox EXCEPT ![p] = <<>>]
      /\ phase' = [phase EXCEPT ![p] = "failed"]
      /\ UNCHANGED <<wire, opened, dups>>
  BY DEF GiveUp, Goto
<1>3. NetTypeOK(Datagram)'
  BY <1>1, <1>2 DEF Inv, NetTypeOK
<1>4. \A q \in Peers : ~Contains(inbox'[q], "ack")
  BY <1>1, <1>2 DEF Inv, NetTypeOK, NeverAcked, Pending
<1> QED BY <1>2, <1>3, <1>4 DEF Inv, NeverAcked, Pending, Phase

LEMMA InvStep == Inv /\ [Next]_vars => Inv'
<1> SUFFICES ASSUME Inv, [Next]_vars
             PROVE  Inv'
  OBVIOUS
<1>1. ASSUME NEW p \in Peers, Enter(p) \/ RecvTimeout(p) \/ Sleep(p)
      PROVE  Inv'
  BY <1>1 DEF Enter, RecvTimeout, Sleep, Goto, netVars, Inv, NetTypeOK, NeverAcked,
              Pending, Phase
<1>2. ASSUME NEW p \in Peers, Network(p)
      PROVE  Inv'
  <2>1. /\ Arrive(p, SocketOpen(p)) \/ Lose(p) \/ Duplicate(p)
        /\ UNCHANGED phase
    BY <1>2 DEF Network, Deliver
  <2>2. /\ NetTypeOK(Datagram)' /\ ~Pending(p, "ack")'
        /\ wire'[Other(p)] = wire[Other(p)] /\ inbox'[Other(p)] = inbox[Other(p)]
    BY <2>1, NetFacts DEF Inv, NeverAcked
  <2>3. \A q \in Peers : q = p \/ q = Other(p)
    BY DEF Peers, Other
  <2> QED BY <2>1, <2>2, <2>3 DEF Inv, NeverAcked, Pending
<1>3. CASE UNCHANGED vars
  BY <1>3 DEF vars, netVars, Inv, NetTypeOK, NeverAcked, Pending
<1> QED BY <1>1, <1>2, <1>3, SendStep, RecvStep, GiveUpStep DEF Next, HolePunch

\* The ack that ends create_hole_punch is never sent: both clients always fail.
THEOREM NobodyIsAcked == Spec => []NeverAcked
<1>1. Inv => NeverAcked
  BY DEF Inv
<1> QED BY <1>1, InvInit, InvStep, PTL DEF Spec

-----------------------------------------------------------------------------
\* An attempt is only under way while there are attempts left.
Counted ==
  /\ attempt \in [Peers -> 0 .. MaxAttempts]
  /\ \A p \in Peers : phase[p] \in {"recv", "sleep"} => attempt[p] < MaxAttempts

LEMMA CountedStep == Inv /\ Counted /\ [Next]_vars => Counted'
<1> SUFFICES ASSUME Inv, Counted, [Next]_vars
             PROVE  Counted'
  OBVIOUS
<1>1. phase \in [Peers -> Phase] /\ MaxAttempts \in Nat
  BY AttemptsArePositive DEF Inv
<1>2. ASSUME NEW p \in Peers, Send(p)
      PROVE  Counted'
  BY <1>1, <1>2 DEF Send, Goto, Counted
<1>3. ASSUME NEW p \in Peers, Enter(p) \/ GiveUp(p) \/ Recv(p) \/ RecvTimeout(p)
      PROVE  Counted'
  BY <1>1, <1>3 DEF Enter, GiveUp, Recv, RecvTimeout, Goto, Counted
<1>4. ASSUME NEW p \in Peers, Sleep(p)
      PROVE  Counted'
  <2>1. attempt[p] + 1 \in 0 .. MaxAttempts
    BY <1>1, <1>4 DEF Sleep, Counted
  <2> QED BY <1>1, <1>4, <2>1 DEF Sleep, Goto, Counted
<1>5. ASSUME NEW p \in Peers, Network(p)
      PROVE  Counted'
  BY <1>5 DEF Network, Deliver, Counted
<1>6. CASE UNCHANGED vars
  BY <1>6 DEF vars, Counted
<1> QED BY <1>2, <1>3, <1>4, <1>5, <1>6 DEF Next, HolePunch

\* create_hole_punch makes max_attempts attempts at most, and a client reads nothing
\* but the two kinds of datagram, on every kind of network.
THEOREM PunchTypeCorrect == Spec => []TypeOK
<1>1. Init => Counted
  BY AttemptsArePositive DEF Init, Counted
<1>2. Inv /\ Counted => TypeOK
  BY DEF Inv, Counted, TypeOK
<1> QED BY <1>1, <1>2, InvInit, InvStep, CountedStep, PTL DEF Spec
=============================================================================
