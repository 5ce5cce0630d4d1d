---------------------------- MODULE PunchProofs ----------------------------
(***************************************************************************)
(* Theorems about hole punching, for every timeout, skew, number of lines  *)
(* and kind of network.                                                    *)
(***************************************************************************)
EXTENDS Punch, UdpNatProofs

-----------------------------------------------------------------------------
\* What a step does to the queues.

\* Posting a datagram adds it to what its receiver has to read.
LEMMA PostFacts ==
  ASSUME TypeOK, NEW p \in Peers, NEW m \in Datagram, Post(p, m)
  PROVE  /\ wire' \in [Peers -> Seq(Datagram)]
         /\ opened' \in [Peers -> BOOLEAN]
         /\ dups' = dups
         /\ wire'[p] = wire[p]
         /\ wire'[Other(p)] = Append(wire[Other(p)], m)
         /\ \A q \in Peers : opened'[q] <=> opened[q] \/ q = p
<1>1. Other(p) \in Peers /\ Other(p) # p
  BY OtherPeer
<1>2. Append(wire[Other(p)], m) \in Seq(Datagram)
  BY <1>1, AppendFacts DEF TypeOK, NetTypeOK
<1> QED BY <1>1, <1>2 DEF TypeOK, NetTypeOK, Post

\* Reading takes the head of the reader's queue.
LEMMA TakeFacts ==
  ASSUME TypeOK, NEW p \in Peers, Take(p)
  PROVE  /\ inbox' \in [Peers -> Seq(Datagram)]
         /\ inbox[p] # <<>>
         /\ inbox'[p] = Tail(inbox[p])
         /\ inbox'[Other(p)] = inbox[Other(p)]
         /\ Head(inbox[p]) \in Datagram
<1>1. inbox[p] \in Seq(Datagram) /\ inbox[p] # <<>>
  BY DEF TypeOK, NetTypeOK, Take
<1>2. Tail(inbox[p]) \in Seq(Datagram) /\ Head(inbox[p]) \in Datagram
  BY <1>1, TailFacts
<1> QED BY <1>1, <1>2, OtherPeer DEF TypeOK, NetTypeOK, Take

LEMMA CloseFacts ==
  ASSUME TypeOK, NEW p \in Peers, CloseSocket(p)
  PROVE  /\ inbox' \in [Peers -> Seq(Datagram)]
         /\ inbox'[p] = <<>>
         /\ inbox'[Other(p)] = inbox[Other(p)]
<1>1. <<>> \in Seq(Datagram)
  BY EmptySeq
<1> QED BY <1>1, OtherPeer DEF TypeOK, NetTypeOK, CloseSocket

\* The network does not touch the programs either.
LEMMA NetworkFacts ==
  ASSUME TypeOK, NEW p \in Peers, Network(p)
  PROVE  /\ NetTypeOK(Datagram)'
         /\ UNCHANGED <<phase, elapsed, chats, heard, opened>>
         /\ wire'[Other(p)] = wire[Other(p)]
         /\ inbox'[Other(p)] = inbox[Other(p)]
         /\ \A m : Pending(p, m)' => Pending(p, m)
<1>1. /\ NetTypeOK(Datagram)
      /\ Arrive(p, SocketOpen(p)) \/ Lose(p) \/ Duplicate(p)
  BY DEF TypeOK, Network
<1> QED BY <1>1, NetFacts DEF Network

-----------------------------------------------------------------------------
\* Types: the clock of a peer never passes the timeout and the queues hold
\* nothing but the three kinds of datagram.

LEMMA TypeInit == Init => TypeOK
<1>1. <<>> \in Seq(Datagram)
  BY EmptySeq
<1> QED
  BY <1>1, TimeoutIsPositive, SchedulingKind, NetworkKind
  DEF Init, TypeOK, NetInit, NetTypeOK, Phase

\* TypeOK alone is not inductive: a clock that ticks during the sleep stays in
\* its range because the sleeper started its attempt in time.
LEMMA TypeStep == TypeOK /\ InTime /\ [Next]_vars => TypeOK'
<1> SUFFICES ASSUME TypeOK, InTime, [Next]_vars
             PROVE  TypeOK'
  OBVIOUS
<1> USE TimeoutIsPositive, SchedulingKind
<1>1. CASE Tick
  <2>1. \A p \in Peers : phase[p] = "sleep" => elapsed[p] + 1 \in 0 .. PunchTimeout
    BY DEF InTime, TimeLeft, TypeOK
  <2> QED BY <1>1, <2>1 DEF Tick, TypeOK, NetTypeOK, netVars, Phase
<1>2. ASSUME NEW p \in Peers, Enter(p)
      PROVE  TypeOK'
  BY <1>2 DEF Enter, Goto, TypeOK, NetTypeOK, netVars, Phase
<1>3. ASSUME NEW p \in Peers, SendReq(p)
      PROVE  TypeOK'
  <2>1. wire' \in [Peers -> Seq(Datagram)] /\ opened' \in [Peers -> BOOLEAN] /\ dups' = dups
    BY <1>3, PostFacts DEF SendReq, Datagram
  <2> QED BY <1>3, <2>1 DEF SendReq, Goto, TypeOK, NetTypeOK, Phase
<1>4. ASSUME NEW p \in Peers, GiveUp(p)
      PROVE  TypeOK'
  BY <1>4, CloseFacts DEF GiveUp, Goto, TypeOK, NetTypeOK, Phase
<1>5. ASSUME NEW p \in Peers, Sleep(p)
      PROVE  TypeOK'
  <2>1. PICK t \in Later(p) : elapsed' = [elapsed EXCEPT ![p] = t]
    BY <1>5 DEF Sleep
  <2>2. t \in 0 .. PunchTimeout
    BY DEF Later, TypeOK
  <2> QED BY <1>5, <2>1, <2>2 DEF Sleep, Goto, TypeOK, NetTypeOK, netVars, Phase
<1>6. ASSUME NEW p \in Peers, RecvNothing(p)
      PROVE  TypeOK'
  BY <1>6 DEF RecvNothing, Goto, TypeOK, NetTypeOK, netVars, Phase
<1>7. ASSUME NEW p \in Peers, RecvReq(p)
      PROVE  TypeOK'
  <2>1. wire' \in [Peers -> Seq(Datagram)] /\ opened' \in [Peers -> BOOLEAN] /\ dups' = dups
    BY <1>7, PostFacts DEF RecvReq, Datagram
  <2>2. inbox' \in [Peers -> Seq(Datagram)]
    BY <1>7, TakeFacts DEF RecvReq
  <2> QED BY <1>7, <2>1, <2>2 DEF RecvReq, Goto, TypeOK, NetTypeOK, Phase
<1>8. ASSUME NEW p \in Peers, RecvAck(p) \/ RecvOther(p)
      PROVE  TypeOK'
  <2>1. inbox' \in [Peers -> Seq(Datagram)]
    BY <1>8, TakeFacts DEF RecvAck, RecvOther
  <2> QED BY <1>8, <2>1 DEF RecvAck, RecvOther, Goto, TypeOK, NetTypeOK, Phase
<1>9. ASSUME NEW p \in Peers, ChatSend(p)
      PROVE  TypeOK'
  <2>1. wire' \in [Peers -> Seq(Datagram)] /\ opened' \in [Peers -> BOOLEAN] /\ dups' = dups
    BY <1>9, PostFacts DEF ChatSend, Datagram
  <2>2. chats' \in [Peers -> 0 .. MaxChat]
    BY <1>9 DEF ChatSend, TypeOK
  <2> QED BY <1>9, <2>1, <2>2 DEF ChatSend, TypeOK, NetTypeOK
<1>10. ASSUME NEW p \in Peers, ChatRecv(p)
       PROVE  TypeOK'
  BY <1>10, TakeFacts DEF ChatRecv, TypeOK, NetTypeOK
<1>11. ASSUME NEW p \in Peers, Quit(p)
       PROVE  TypeOK'
  BY <1>11, CloseFacts DEF Quit, Goto, TypeOK, NetTypeOK, Phase
<1>12. ASSUME NEW p \in Peers, Network(p)
       PROVE  TypeOK'
  BY <1>12, NetworkFacts DEF TypeOK
<1>13. CASE UNCHANGED vars
  BY <1>13 DEF vars, netVars, TypeOK, NetTypeOK
<1> QED
  BY <1>1, <1>2, <1>3, <1>4, <1>5, <1>6, <1>7, <1>8, <1>9, <1>10, <1>11, <1>12,
     <1>13 DEF Next, Punch, Chat

LEMMA InTimeInit == Init => InTime
BY DEF Init, InTime

LEMMA InTimeStep == TypeOK /\ InTime /\ [Next]_vars => InTime'
<1> SUFFICES ASSUME TypeOK, InTime, [Next]_vars
             PROVE  InTime'
  OBVIOUS
<1> USE DEF InTime, TimeLeft
<1>1. CASE Tick
  BY <1>1 DEF Tick
<1>2. ASSUME NEW p \in Peers, Enter(p) \/ GiveUp(p) \/ Sleep(p) \/ RecvAck(p) \/ Quit(p)
      PROVE  InTime'
  BY <1>2 DEF Enter, GiveUp, Sleep, RecvAck, Quit, Goto, TypeOK
<1>3. ASSUME NEW p \in Peers,
             SendReq(p) \/ RecvNothing(p) \/ RecvReq(p) \/ RecvOther(p)
      PROVE  InTime'
  BY <1>3 DEF SendReq, RecvNothing, RecvReq, RecvOther, Goto, TypeOK
<1>4. ASSUME NEW p \in Peers, ChatSend(p) \/ ChatRecv(p) \/ Network(p)
      PROVE  InTime'
  BY <1>4, NetworkFacts DEF ChatSend, ChatRecv
<1>5. CASE UNCHANGED vars
  BY <1>5 DEF vars
<1> QED BY <1>1, <1>2, <1>3, <1>4, <1>5 DEF Next, Punch, Chat

\* The peers stay within their states, and no attempt is under way once the time
\* is up.
THEOREM TypeCorrect == Spec => [](TypeOK /\ InTime)
<1>1. Init => TypeOK /\ InTime
  BY TypeInit, InTimeInit
<1>2. TypeOK /\ InTime /\ [Next]_vars => (TypeOK /\ InTime)'
  BY TypeStep, InTimeStep
<1> QED BY <1>1, <1>2, PTL DEF Spec

-----------------------------------------------------------------------------
\* The established path works both ways, on any network.

LEMMA TwoWayInit == Init => AckMeansHeard /\ TwoWayPath
<1>1. \A m : ~Contains(<<>>, m)
  BY EmptySeq DEF Contains
<1> QED
  BY <1>1 DEF Init, NetInit, AckMeansHeard, TwoWayPath, Pending, Established

\* A datagram just posted is all that a peer can find in addition.
LEMMA PostPending ==
  ASSUME TypeOK, NEW p \in Peers, NEW m \in Datagram, Post(p, m),
         NEW q \in Peers, NEW k, Contains(wire'[q], k)
  PROVE  Contains(wire[q], k) \/ (q = Other(p) /\ k = m)
<1>1. CASE q = p
  BY <1>1, PostFacts
<1>2. CASE q # p
  <2>1. q = Other(p)
    BY <1>2 DEF Peers, Other
  <2>2. wire[q] \in Seq(Datagram)
    BY DEF TypeOK, NetTypeOK
  <2>3. wire'[q] = Append(wire[q], m)
    BY <2>1, PostFacts
  <2> QED BY <2>1, <2>2, <2>3, AppendFacts
<1> QED BY <1>1, <1>2

LEMMA TakePending ==
  ASSUME TypeOK, NEW p \in Peers, Take(p),
         NEW q \in Peers, NEW k, Contains(inbox'[q], k)
  PROVE  Contains(inbox[q], k)
<1>1. CASE q = p
  <2>1. inbox[p] \in Seq(Datagram)
    BY DEF TypeOK, NetTypeOK
  <2> QED BY <1>1, <2>1, TakeFacts, TailFacts
<1>2. CASE q # p
  <2>1. q = Other(p)
    BY <1>2 DEF Peers, Other
  <2> QED BY <2>1, TakeFacts
<1> QED BY <1>1, <1>2

LEMMA ClosePending ==
  ASSUME TypeOK, NEW p \in Peers, CloseSocket(p),
         NEW q \in Peers, NEW k, Contains(inbox'[q], k)
  PROVE  Contains(inbox[q], k)
<1>1. CASE q = p
  BY <1>1, CloseFacts, EmptySeq DEF Contains
<1>2. CASE q # p
  <2>1. q = Other(p)
    BY <1>2 DEF Peers, Other
  <2> QED BY <2>1, CloseFacts
<1> QED BY <1>1, <1>2

\* What is at the head of the queue is pending.
LEMMA HeadPending ==
  ASSUME TypeOK, NEW p \in Peers, inbox[p] # <<>>
  PROVE  Pending(p, Head(inbox[p]))
<1>1. inbox[p] \in Seq(Datagram)
  BY DEF TypeOK, NetTypeOK
<1> QED BY <1>1, TailFacts DEF Pending

LEMMA AckMeansHeardStep ==
  TypeOK /\ AckMeansHeard /\ [Next]_vars => AckMeansHeard'
<1> SUFFICES ASSUME TypeOK, AckMeansHeard, [Next]_vars,
                    NEW q \in Peers, Pending(q, "ACK")'
             PROVE  heard'[Other(q)]
  BY DEF AckMeansHeard
<1>1. Other(q) \in Peers /\ Other(Other(q)) = q
  BY OtherPeer
<1>2. Pending(q, "ACK") => heard[Other(q)]
  BY DEF AckMeansHeard
<1>3. CASE Tick
  BY <1>2, <1>3 DEF Tick, netVars, Pending
<1>4. ASSUME NEW p \in Peers, Enter(p) \/ Sleep(p) \/ RecvNothing(p)
      PROVE  heard'[Other(q)]
  BY <1>2, <1>4 DEF Enter, Sleep, RecvNothing, netVars, Pending
<1>5. ASSUME NEW p \in Peers, SendReq(p)
      PROVE  heard'[Other(q)]
  BY <1>2, <1>5, PostPending DEF SendReq, Pending, Datagram
<1>6. ASSUME NEW p \in Peers, ChatSend(p)
      PROVE  heard'[Other(q)]
  BY <1>2, <1>6, PostPending DEF ChatSend, Pending, Datagram
<1>7. ASSUME NEW p \in Peers, GiveUp(p) \/ Quit(p)
      PROVE  heard'[Other(q)]
  BY <1>2, <1>7, ClosePending DEF GiveUp, Quit, Pending
<1>8. ASSUME NEW p \in Peers, RecvAck(p) \/ RecvOther(p) \/ ChatRecv(p)
      PROVE  heard'[Other(q)]
  BY <1>2, <1>8, TakePending DEF RecvAck, RecvOther, ChatRecv, Pending
<1>9. ASSUME NEW p \in Peers, RecvReq(p)
      PROVE  heard'[Other(q)]
  <2>1. heard' = [heard EXCEPT ![p] = TRUE] /\ Take(p) /\ Post(p, "ACK")
    BY <1>9 DEF RecvReq
  <2>2. CASE q = Other(p)
    BY <2>1, <2>2, OtherPeer DEF TypeOK
  <2>3. CASE q # Other(p)
    BY <1>1, <1>2, <2>1, <2>3, PostPending, TakePending DEF Pending, Datagram, TypeOK
  <2> QED BY <2>2, <2>3
<1>10. ASSUME NEW p \in Peers, Network(p)
       PROVE  heard'[Other(q)]
  <2>1. CASE q = p
    BY <1>2, <1>10, <2>1, NetworkFacts
  <2>2. CASE q # p
    <3>1. q = Other(p)
      BY <2>2 DEF Peers, Other
    <3> QED BY <1>2, <1>10, <3>1, NetworkFacts DEF Pending
  <2> QED BY <2>1, <2>2
<1>11. CASE UNCHANGED vars
  BY <1>2, <1>11 DEF vars, netVars, Pending
<1> QED
  BY <1>3, <1>4, <1>5, <1>6, <1>7, <1>8, <1>9, <1>10, <1>11 DEF Next, Punch, Chat

\* Only reading a PUNCH_ACK establishes, and that one answers a request heard.
LEMMA TwoWayStep ==
  TypeOK /\ AckMeansHeard /\ TwoWayPath /\ [Next]_vars => TwoWayPath'
<1> SUFFICES ASSUME TypeOK, AckMeansHeard, TwoWayPath, [Next]_vars,
                    NEW q \in Peers, Established(q)'
             PROVE  heard'[Other(q)]
  BY DEF TwoWayPath
<1>1. Established(q) => heard[Other(q)]
  BY DEF TwoWayPath
<1>2. Other(q) \in Peers
  BY OtherPeer
<1>3. CASE Tick
  BY <1>1, <1>3 DEF Tick, Established
<1>4. ASSUME NEW p \in Peers,
             \/ Enter(p) \/ SendReq(p) \/ GiveUp(p) \/ Sleep(p)
             \/ RecvNothing(p) \/ RecvOther(p) \/ Quit(p)
      PROVE  heard'[Other(q)]
  BY <1>1, <1>4 DEF Enter, SendReq, GiveUp, Sleep, RecvNothing, RecvOther, Quit,
                    Goto, Established, TypeOK
<1>5. ASSUME NEW p \in Peers, RecvReq(p)
      PROVE  heard'[Other(q)]
  BY <1>1, <1>2, <1>5 DEF RecvReq, Goto, Established, TypeOK
<1>6. ASSUME NEW p \in Peers, RecvAck(p)
      PROVE  heard'[Other(q)]
  <2>1. CASE q = p
    <3>1. Pending(p, "ACK")
      BY <1>6, HeadPending DEF RecvAck, Take
    <3> QED BY <1>6, <2>1, <3>1 DEF AckMeansHeard, RecvAck
  <2>2. CASE q # p
    BY <1>1, <1>6, <2>2 DEF RecvAck, Goto, Established, TypeOK
  <2> QED BY <2>1, <2>2
<1>7. ASSUME NEW p \in Peers, ChatSend(p) \/ ChatRecv(p) \/ Network(p)
      PROVE  heard'[Other(q)]
  BY <1>1, <1>7, NetworkFacts DEF ChatSend, ChatRecv, Established
<1>8. CASE UNCHANGED vars
  BY <1>1, <1>8 DEF vars, Established
<1> QED BY <1>3, <1>4, <1>5, <1>6, <1>7, <1>8 DEF Next, Punch, Chat

\* Whatever the network does, a peer that calls the path established has been
\* heard by the other one.
THEOREM PathIsTwoWay == Spec => []TwoWayPath
<1> DEFINE Inv == TypeOK /\ InTime /\ AckMeansHeard /\ TwoWayPath
<1>1. Init => Inv
  BY TypeInit, InTimeInit, TwoWayInit
<1>2. Inv /\ [Next]_vars => Inv'
  BY TypeStep, InTimeStep, AckMeansHeardStep, TwoWayStep
<1> QED BY <1>1, <1>2, PTL DEF Spec

\* On any network, an answer on its way to a peer comes of a request of that peer's
\* that its sender has read: nothing else makes a client send a PUNCH_ACK.
THEOREM AnswersAreHeard == Spec => []AckMeansHeard
<1> DEFINE Inv == TypeOK /\ InTime /\ AckMeansHeard
<1>1. Init => Inv
  BY TypeInit, InTimeInit, TwoWayInit
<1>2. Inv /\ [Next]_vars => Inv'
  BY TypeStep, InTimeStep, AckMeansHeardStep
<1> QED BY <1>1, <1>2, PTL DEF Spec

-----------------------------------------------------------------------------
\* Punching implements its contract.

LEMMA ContractInit == Init => Contract!Init
BY DEF Init, Contract!Init, Contract!Peers, Peers, Established, Failed

LEMMA ContractStep ==
  TypeOK /\ AckMeansHeard /\ [Next]_vars => [Contract!Next]_(Contract!vars)
<1> SUFFICES ASSUME TypeOK, AckMeansHeard, [Next]_vars
             PROVE  [Contract!Next]_(Contract!vars)
  OBVIOUS
<1> DEFINE Verdict(p) == IF Established(p) THEN "connected"
                         ELSE IF Failed(p) THEN "failed" ELSE "trying"
           status == [p \in Peers |-> Verdict(p)]
           reached == {p \in Peers : heard[p]}
<1>1. ASSUME UNCHANGED heard, \A p \in Peers : Verdict(p)' = Verdict(p)
      PROVE  UNCHANGED Contract!vars
  BY <1>1 DEF Contract!vars
<1>2. CASE Tick
  <2>1. UNCHANGED heard /\ \A p \in Peers : Verdict(p)' = Verdict(p)
    BY <1>2 DEF Tick, Established, Failed
  <2> QED BY <1>1, <2>1
<1>3. ASSUME NEW q \in Peers,
             \/ Enter(q) \/ SendReq(q) \/ Sleep(q) \/ RecvNothing(q)
             \/ RecvOther(q) \/ Quit(q)
      PROVE  UNCHANGED Contract!vars
  <2>1. UNCHANGED heard /\ \A p \in Peers : Verdict(p)' = Verdict(p)
    BY <1>3 DEF Enter, SendReq, Sleep, RecvNothing, RecvOther, Quit, Goto,
                Established, Failed, TypeOK
  <2> QED BY <1>1, <2>1
<1>4. ASSUME NEW q \in Peers, ChatSend(q) \/ ChatRecv(q) \/ Network(q)
      PROVE  UNCHANGED Contract!vars
  <2>1. UNCHANGED heard /\ \A p \in Peers : Verdict(p)' = Verdict(p)
    BY <1>4, NetworkFacts DEF ChatSend, ChatRecv, Established, Failed
  <2> QED BY <1>1, <2>1
<1>5. ASSUME NEW q \in Peers, GiveUp(q)
      PROVE  Contract!GiveUp(q)
  <2>1. Verdict(q) = "trying" /\ Verdict(q)' = "failed" /\ UNCHANGED heard
    BY <1>5 DEF GiveUp, Goto, Established, Failed, TypeOK
  <2>2. \A p \in Peers : p # q => Verdict(p)' = Verdict(p)
    BY <1>5 DEF GiveUp, Goto, Established, Failed, TypeOK
  <2>3. status' = [status EXCEPT ![q] = "failed"]
    BY <2>1, <2>2
  <2> QED BY <2>1, <2>3 DEF Contract!GiveUp
<1>6. ASSUME NEW q \in Peers, RecvAck(q)
      PROVE  Contract!Connect(q)
  <2>1. Verdict(q) = "trying" /\ Verdict(q)' = "connected" /\ UNCHANGED heard
    BY <1>6 DEF RecvAck, Goto, Established, Failed, TypeOK
  <2>2. \A p \in Peers : p # q => Verdict(p)' = Verdict(p)
    BY <1>6 DEF RecvAck, Goto, Established, Failed, TypeOK
  <2>3. status' = [status EXCEPT ![q] = "connected"]
    BY <2>1, <2>2
  <2>4. Pending(q, "ACK")
    BY <1>6, HeadPending DEF RecvAck, Take
  <2>5. Other(q) \in reached /\ Contract!Other(q) = Other(q)
    BY <2>4, OtherPeer DEF AckMeansHeard, Contract!Other, Other
  <2> QED BY <2>1, <2>3, <2>5 DEF Contract!Connect
<1>7. ASSUME NEW q \in Peers, RecvReq(q)
      PROVE  Contract!Hear(q)
  <2>1. Verdict(q) = "trying" /\ reached' = reached \union {q}
    BY <1>7 DEF RecvReq, Established, Failed, TypeOK
  <2>2. \A p \in Peers : Verdict(p)' = Verdict(p)
    BY <1>7 DEF RecvReq, Goto, Established, Failed, TypeOK
  <2> QED BY <2>1, <2>2 DEF Contract!Hear
<1>8. CASE UNCHANGED vars
  <2>1. UNCHANGED heard /\ \A p \in Peers : Verdict(p)' = Verdict(p)
    BY <1>8 DEF vars, Established, Failed
  <2> QED BY <1>1, <2>1
<1>9. Contract!Peers = Peers
  BY DEF Contract!Peers, Peers
<1> HIDE DEF Verdict, status, reached
<1> QED
  BY <1>2, <1>3, <1>4, <1>5, <1>6, <1>7, <1>8, <1>9
  DEF Next, Punch, Chat, Contract!Next

\* Punching is an implementation of PunchContract.
THEOREM PunchKeepsContract == Spec => KeepsContract
<1> DEFINE Inv == TypeOK /\ InTime /\ AckMeansHeard
<1>1. Init => Inv /\ Contract!Init
  BY TypeInit, InTimeInit, TwoWayInit, ContractInit
<1>2. Inv /\ [Next]_vars => Inv' /\ [Contract!Next]_(Contract!vars)
  BY TypeStep, InTimeStep, AckMeansHeardStep, ContractStep
<1> QED BY <1>1, <1>2, PTL DEF Spec, KeepsContract, Contract!Spec

-----------------------------------------------------------------------------
\* On a network that delivers everything in order, an established peer has left
\* the other one the answer it needs.

\* ReqFirst for one peer.
InOrder(q) ==
  /\ opened[Other(q)] => Pending(q, "REQ")
  /\ \A i \in DOMAIN inbox[q] : inbox[q][i] = "ACK" =>
       \E j \in DOMAIN inbox[q] : j < i /\ inbox[q][j] = "REQ"
  /\ \A i \in DOMAIN wire[q] : wire[q][i] = "ACK" =>
       \/ Contains(inbox[q], "REQ")
       \/ \E j \in DOMAIN wire[q] : j < i /\ wire[q][j] = "REQ"

LEMMA AckOrderInit == Init => ReqFirst /\ AnswerPending
<1>1. \A p \in Peers : Init => /\ DOMAIN inbox[p] = {} /\ DOMAIN wire[p] = {}
                               /\ Other(p) \in Peers
  BY OtherPeer DEF Init, NetInit
<1> QED BY <1>1 DEF Init, NetInit, ReqFirst, AnswerPending, Established, Failed

\* A post to q keeps q's order, if it is a request or q already had one unread.
LEMMA PostKeepsOrder ==
  ASSUME TypeOK, NEW p \in Peers, NEW m \in Datagram, Post(p, m),
         NEW q \in Peers, InOrder(q), inbox'[q] = inbox[q],
         q = Other(p) => m = "REQ" \/ opened[p]
  PROVE  InOrder(q)'
<1>1. CASE q = p
  <2>1. wire'[q] = wire[q] /\ (opened'[Other(q)] <=> opened[Other(q)])
    BY <1>1, PostFacts, OtherPeer
  <2> QED BY <2>1 DEF InOrder, Pending
<1>2. CASE q # p
  <2>1. q = Other(p) /\ Other(q) = p
    BY <1>2, OtherPeer DEF Peers, Other
  <2> DEFINE w == wire[q]
  <2>2. /\ w \in Seq(Datagram) /\ wire'[q] = Append(w, m) /\ Len(w) \in Nat
        /\ DOMAIN w = 1 .. Len(w)
    BY <2>1, PostFacts, LenProperties DEF TypeOK, NetTypeOK
  <2>3. /\ DOMAIN wire'[q] = 1 .. Len(w) + 1
        /\ \A j \in 1 .. Len(w) : wire'[q][j] = w[j]
        /\ wire'[q][Len(w) + 1] = m
        /\ \A k : Contains(wire'[q], k) <=> Contains(w, k) \/ k = m
    BY <2>2, AppendFacts
  <2>4. Pending(q, "REQ")'
    <3>1. CASE m = "REQ"
      BY <2>3, <3>1 DEF Pending
    <3>2. CASE opened[p]
      BY <2>1, <2>3, <3>2 DEF InOrder, Pending
    <3> QED BY <2>1, <3>1, <3>2
  <2>5. ASSUME NEW i \in DOMAIN wire'[q], wire'[q][i] = "ACK"
        PROVE  \/ Contains(inbox'[q], "REQ")
               \/ \E j \in DOMAIN wire'[q] : j < i /\ wire'[q][j] = "REQ"
    <3> HIDE DEF w
    <3>1. CASE i \in 1 .. Len(w)
      <4>1. i \in DOMAIN w /\ w[i] = "ACK"
        BY <2>2, <2>3, <2>5, <3>1
      <4>2. \/ Contains(inbox[q], "REQ")
            \/ \E j \in DOMAIN w : j < i /\ w[j] = "REQ"
        BY <4>1 DEF InOrder, w
      <4> QED BY <2>2, <2>3, <4>2
    <3>2. CASE i = Len(w) + 1
      <4>1. m = "ACK"
        BY <2>3, <2>5, <3>2
      <4>2. Contains(inbox[q], "REQ") \/ Contains(w, "REQ")
        BY <2>1, <4>1 DEF InOrder, Pending, w
      <4>3. Contains(w, "REQ") => \E j \in 1 .. Len(w) : w[j] = "REQ"
        BY DEF Contains
      <4> QED BY <2>2, <2>3, <3>2, <4>2, <4>3
    <3> QED BY <2>2, <2>3, <2>5, <3>1, <3>2
  <2> QED BY <2>4, <2>5 DEF InOrder
<1> QED BY <1>1, <1>2

\* Dropping a chat line at the head of the queue keeps the order.
LEMMA DropKeepsOrder ==
  ASSUME TypeOK, NEW q \in Peers, Take(q), Head(inbox[q]) = "CHAT",
         UNCHANGED <<wire, opened>>, InOrder(q)
  PROVE  InOrder(q)'
<1> DEFINE s == inbox[q]
<1>1. s \in Seq(Datagram) /\ s # <<>> /\ inbox'[q] = Tail(s)
  BY TakeFacts DEF TypeOK, NetTypeOK
<1>2. /\ s[1] = "CHAT" /\ Len(s) \in Nat \ {0} /\ DOMAIN s = 1 .. Len(s)
      /\ DOMAIN inbox'[q] = 1 .. Len(s) - 1
      /\ \A j \in 1 .. Len(s) - 1 : inbox'[q][j] = s[j + 1]
      /\ Contains(s, "REQ") => Contains(inbox'[q], "REQ")
  BY <1>1, TailFacts, LenProperties
<1>3. ASSUME NEW i \in DOMAIN inbox'[q], inbox'[q][i] = "ACK"
      PROVE  \E j \in DOMAIN inbox'[q] : j < i /\ inbox'[q][j] = "REQ"
  <2>1. i + 1 \in DOMAIN s /\ s[i + 1] = "ACK"
    BY <1>2, <1>3
  <2>2. PICK j \in DOMAIN s : j < i + 1 /\ s[j] = "REQ"
    BY <2>1 DEF InOrder
  <2>3. j # 1
    BY <1>2, <2>2
  <2>4. j - 1 \in 1 .. Len(s) - 1 /\ j - 1 < i /\ s[(j - 1) + 1] = "REQ"
    BY <1>2, <2>2, <2>3
  <2> QED BY <1>2, <2>4
<1> QED BY <1>2, <1>3 DEF InOrder, Pending

\* The network hands over the oldest datagram, or copies one to the end.
LEMMA NetworkKeepsOrder ==
  ASSUME TypeOK, Reliable, NEW q \in Peers, Network(q), SocketOpen(q), InOrder(q)
  PROVE  InOrder(q)'
<1> DEFINE s == inbox[q]
           w == wire[q]
<1>1. /\ s \in Seq(Datagram) /\ Len(s) \in Nat /\ DOMAIN s = 1 .. Len(s)
      /\ w \in Seq(Datagram) /\ Len(w) \in Nat /\ DOMAIN w = 1 .. Len(w)
      /\ inbox \in [Peers -> Seq(Datagram)] /\ wire \in [Peers -> Seq(Datagram)]
  BY LenProperties DEF TypeOK, NetTypeOK
<1>2. \A i \in DOMAIN w : w[i] \in Datagram
  BY <1>1, ElementOfSeq
<1>3. opened' = opened
  BY NetworkFacts
<1>4. CASE Arrive(q, SocketOpen(q))
  <2>1. /\ 1 \in DOMAIN w
        /\ wire' = [wire EXCEPT ![q] = RemoveAt(@, 1)]
        /\ inbox' = [inbox EXCEPT ![q] = Append(@, w[1])]
    BY <1>4 DEF Arrive, Deliverable, Reliable
  <2>2. /\ DOMAIN wire'[q] = 1 .. Len(w) - 1
        /\ \A j \in 1 .. Len(w) - 1 : wire'[q][j] = w[j + 1]
    <3>1. wire'[q] = RemoveAt(w, 1)
      BY <1>1, <2>1
    <3>2. \A j \in 1 .. Len(w) - 1 : ~(j < 1)
      BY <1>1
    <3> QED BY <1>1, <2>1, <3>1, <3>2, RemoveAtFacts
  <2>3. /\ DOMAIN inbox'[q] = 1 .. Len(s) + 1
        /\ \A j \in 1 .. Len(s) : inbox'[q][j] = s[j]
        /\ inbox'[q][Len(s) + 1] = w[1]
        /\ \A k : Contains(inbox'[q], k) <=> Contains(s, k) \/ k = w[1]
    <3>1. inbox'[q] = Append(s, w[1])
      BY <1>1, <2>1
    <3> QED BY <1>1, <1>2, <2>1, <3>1, AppendFacts
  <2> HIDE DEF s, w
  <2>4. Pending(q, "REQ") => Pending(q, "REQ")'
    <3>1. CASE Contains(s, "REQ")
      BY <2>3, <3>1 DEF Pending
    <3>2. CASE Contains(w, "REQ")
      <4>1. PICK j \in 1 .. Len(w) : w[j] = "REQ"
        BY <3>2 DEF Contains
      <4>2. CASE j = 1
        BY <2>3, <4>1, <4>2 DEF Pending
      <4>3. CASE j # 1
        <5>1. j - 1 \in DOMAIN wire'[q] /\ wire'[q][j - 1] = "REQ"
          BY <1>1, <2>2, <4>1, <4>3
        <5>2. Len(wire'[q]) = Len(w) - 1
          BY <1>1, <2>1, RemoveAtFacts DEF w
        <5>3. j - 1 \in 1 .. Len(wire'[q])
          BY <2>2, <5>1, <5>2
        <5> QED BY <5>1, <5>3 DEF Pending, Contains
      <4> QED BY <4>2, <4>3
    <3> QED BY <3>1, <3>2 DEF Pending, s, w
  <2>5. ASSUME NEW i \in DOMAIN inbox'[q], inbox'[q][i] = "ACK"
        PROVE  \E j \in DOMAIN inbox'[q] : j < i /\ inbox'[q][j] = "REQ"
    <3>1. CASE i \in 1 .. Len(s)
      <4>1. \E j \in DOMAIN s : j < i /\ s[j] = "REQ"
        BY <1>1, <2>3, <2>5, <3>1 DEF InOrder, s
      <4> QED BY <1>1, <2>3, <4>1
    <3>2. CASE i = Len(s) + 1
      <4>1. w[1] = "ACK"
        BY <2>3, <2>5, <3>2
      <4>2. \/ Contains(s, "REQ")
            \/ \E j \in DOMAIN w : j < 1 /\ w[j] = "REQ"
        BY <2>1, <4>1 DEF InOrder, s, w
      <4>3. \A j \in DOMAIN w : ~(j < 1)
        BY <1>1
      <4>4. PICK j \in 1 .. Len(s) : s[j] = "REQ"
        BY <4>2, <4>3 DEF Contains
      <4>5. j \in 1 .. Len(s) + 1 /\ j < i /\ inbox'[q][j] = s[j]
        BY <1>1, <2>3, <3>2, <4>4
      <4> QED BY <2>3, <4>4, <4>5
    <3> QED BY <1>1, <2>3, <2>5, <3>1, <3>2
  <2>6. ASSUME NEW i \in DOMAIN wire'[q], wire'[q][i] = "ACK"
        PROVE  \/ Contains(inbox'[q], "REQ")
               \/ \E j \in DOMAIN wire'[q] : j < i /\ wire'[q][j] = "REQ"
    <3>1. i + 1 \in DOMAIN w /\ w[i + 1] = "ACK"
      <4>1. i \in 1 .. Len(w) - 1
        BY <2>2, <2>6
      <4>2. i + 1 \in 1 .. Len(w)
        BY <1>1, <4>1
      <4>3. wire'[q][i] = w[i + 1]
        BY <2>2, <4>1
      <4> QED BY <1>1, <2>6, <4>2, <4>3
    <3>2. \/ Contains(s, "REQ")
          \/ \E j \in DOMAIN w : j < i + 1 /\ w[j] = "REQ"
      BY <3>1 DEF InOrder, s, w
    <3>3. CASE Contains(s, "REQ")
      BY <2>3, <3>3
    <3>4. ASSUME NEW j \in DOMAIN w, j < i + 1, w[j] = "REQ"
          PROVE  \/ Contains(inbox'[q], "REQ")
                 \/ \E k \in DOMAIN wire'[q] : k < i /\ wire'[q][k] = "REQ"
      <4>1. CASE j = 1
        BY <2>3, <3>4, <4>1
      <4>2. CASE j # 1
        <5>1. j - 1 \in 1 .. Len(w) - 1 /\ j - 1 < i /\ w[(j - 1) + 1] = "REQ"
          BY <1>1, <2>2, <3>4, <4>2
        <5> QED BY <2>2, <5>1
      <4> QED BY <4>1, <4>2
    <3> QED BY <3>2, <3>3, <3>4
  <2> QED BY <1>3, <2>4, <2>5, <2>6 DEF InOrder
<1>5. CASE Duplicate(q)
  <2>1. PICK d \in DOMAIN w : wire' = [wire EXCEPT ![q] = Append(@, w[d])]
    BY <1>5 DEF Duplicate
  <2>2. /\ DOMAIN wire'[q] = 1 .. Len(w) + 1
        /\ \A j \in 1 .. Len(w) : wire'[q][j] = w[j]
        /\ wire'[q][Len(w) + 1] = w[d]
        /\ \A k : Contains(wire'[q], k) <=> Contains(w, k) \/ k = w[d]
    <3>1. wire'[q] = Append(w, w[d])
      BY <1>1, <2>1
    <3> QED BY <1>1, <1>2, <3>1, AppendFacts
  <2>3. inbox' = inbox
    BY <1>5 DEF Duplicate
  <2>4. ASSUME NEW i \in DOMAIN wire'[q], wire'[q][i] = "ACK"
        PROVE  \/ Contains(inbox[q], "REQ")
               \/ \E j \in DOMAIN wire'[q] : j < i /\ wire'[q][j] = "REQ"
    <3> DEFINE k == IF i = Len(w) + 1 THEN d ELSE i
    <3>1. k \in DOMAIN w /\ k <= i /\ w[k] = "ACK"
      BY <1>1, <2>2, <2>4
    <3> HIDE DEF k
    <3>2. \/ Contains(inbox[q], "REQ")
          \/ \E j \in DOMAIN w : j < k /\ w[j] = "REQ"
      BY <3>1 DEF InOrder
    <3>3. ASSUME NEW j \in DOMAIN w, j < k, w[j] = "REQ"
          PROVE  j \in DOMAIN wire'[q] /\ j < i /\ wire'[q][j] = "REQ"
      BY <1>1, <2>2, <3>1, <3>3
    <3> QED BY <3>2, <3>3
  <2> QED BY <1>3, <2>2, <2>3, <2>4 DEF InOrder, Pending
<1> QED BY <1>4, <1>5 DEF Network, Lose, Reliable

LEMMA ReqFirstDef ==
  ReqFirst <=> \A q \in Peers : ~heard[q] /\ ~Failed(q) => InOrder(q)
BY DEF ReqFirst, InOrder

\* A reader of an answer has heard: the request came first in its queue.
LEMMA AckReaderHeard ==
  ASSUME TypeOK, ReqFirst, NEW p \in Peers, RecvAck(p)
  PROVE  heard[p]
<1>1. inbox[p] \in Seq(Datagram) /\ inbox[p] # <<>> /\ inbox[p][1] = "ACK"
  BY TakeFacts, TailFacts DEF TypeOK, NetTypeOK, RecvAck
<1>2. 1 \in DOMAIN inbox[p] /\ \A j \in DOMAIN inbox[p] : ~(j < 1)
  BY <1>1, TailFacts, LenProperties
<1>3. ~Failed(p)
  BY DEF RecvAck, Failed
<1> QED BY <1>1, <1>2, <1>3, ReqFirstDef DEF InOrder

LEMMA ReqFirstStep ==
  TypeOK /\ Reliable /\ ReqFirst /\ AnswerPending /\ [Next]_vars => ReqFirst'
<1> SUFFICES ASSUME TypeOK, Reliable, ReqFirst, AnswerPending, [Next]_vars,
                    NEW q \in Peers, ~heard'[q], ~Failed(q)'
             PROVE  InOrder(q)'
  BY ReqFirstDef DEF ReqFirst, InOrder
<1>1. ~heard[q] /\ ~Failed(q) => InOrder(q)
  BY ReqFirstDef
<1>2. Other(q) \in Peers /\ Other(Other(q)) = q
  BY OtherPeer
<1>3. \A p \in Peers : p # q => p = Other(q) /\ q = Other(p)
  BY DEF Peers, Other
<1>4. CASE Tick
  BY <1>1, <1>4 DEF Tick, netVars, InOrder, Pending, Failed
<1>5. ASSUME NEW p \in Peers, Enter(p) \/ Sleep(p) \/ RecvNothing(p)
      PROVE  InOrder(q)'
  BY <1>1, <1>5 DEF Enter, Sleep, RecvNothing, Goto, netVars, InOrder, Pending,
                    Failed, TypeOK
<1>6. ASSUME NEW p \in Peers, SendReq(p)
      PROVE  InOrder(q)'
  <2>1. InOrder(q) /\ Post(p, "REQ") /\ inbox' = inbox
    BY <1>1, <1>6 DEF SendReq, Goto, Failed, TypeOK
  <2> QED BY <2>1, PostKeepsOrder DEF Datagram
<1>7. ASSUME NEW p \in Peers, ChatSend(p)
      PROVE  InOrder(q)'
  <2>1. InOrder(q) /\ Post(p, "CHAT") /\ inbox' = inbox /\ opened[p]
    BY <1>1, <1>7 DEF ChatSend, Failed, AnswerPending
  <2> QED BY <2>1, PostKeepsOrder DEF Datagram
<1>8. ASSUME NEW p \in Peers, RecvReq(p)
      PROVE  InOrder(q)'
  <2>1. p # q
    BY <1>8 DEF RecvReq, TypeOK
  <2>2. inbox'[q] = inbox[q]
    BY <1>3, <1>8, <2>1, TakeFacts DEF RecvReq
  <2>3. InOrder(q) /\ Post(p, "ACK") /\ opened[p]
    BY <1>1, <1>8, <2>1 DEF RecvReq, Goto, Failed, TypeOK, AnswerPending
  <2> QED BY <2>2, <2>3, PostKeepsOrder DEF Datagram
<1>9. ASSUME NEW p \in Peers, RecvAck(p)
      PROVE  InOrder(q)'
  <2>1. p # q
    BY <1>9, AckReaderHeard DEF RecvAck
  <2>2. inbox'[q] = inbox[q]
    BY <1>3, <1>9, <2>1, TakeFacts DEF RecvAck
  <2> QED BY <1>1, <1>9, <2>1, <2>2
          DEF RecvAck, Goto, Failed, TypeOK, InOrder, Pending
<1>10. ASSUME NEW p \in Peers, RecvOther(p)
       PROVE  InOrder(q)'
  <2>1. /\ InOrder(q) /\ Take(p) /\ Head(inbox[p]) = "CHAT"
        /\ UNCHANGED <<wire, opened>>
    BY <1>1, <1>10 DEF RecvOther, Goto, Failed, TypeOK
  <2>2. CASE p = q
    BY <2>1, <2>2, DropKeepsOrder
  <2>3. CASE p # q
    BY <1>3, <2>1, <2>3, TakeFacts DEF InOrder, Pending
  <2> QED BY <2>2, <2>3
<1>11. ASSUME NEW p \in Peers, ChatRecv(p)
       PROVE  InOrder(q)'
  <2>1. p # q
    BY <1>11 DEF ChatRecv, AnswerPending, Established
  <2> QED BY <1>1, <1>3, <1>11, <2>1, TakeFacts
          DEF ChatRecv, Failed, InOrder, Pending
<1>12. ASSUME NEW p \in Peers, GiveUp(p) \/ Quit(p)
       PROVE  InOrder(q)'
  <2>1. p # q
    BY <1>12 DEF GiveUp, Quit, Goto, Failed, TypeOK, AnswerPending, Established
  <2>2. inbox'[q] = inbox[q]
    BY <1>3, <1>12, <2>1, CloseFacts DEF GiveUp, Quit
  <2> QED BY <1>1, <1>12, <2>1, <2>2
          DEF GiveUp, Quit, Goto, Failed, TypeOK, InOrder, Pending
<1>13. ASSUME NEW p \in Peers, Network(p)
       PROVE  InOrder(q)'
  <2>1. UNCHANGED <<phase, heard, opened>> /\ InOrder(q) /\ ~heard[q] /\ ~Failed(q)
    BY <1>1, <1>13, NetworkFacts DEF Failed
  <2>2. CASE p = q
    <3>1. SocketOpen(q)
      BY <2>1 DEF SocketOpen, Failed, AnswerPending, Established
    <3> QED BY <1>13, <2>1, <2>2, <3>1, NetworkKeepsOrder
  <2>3. CASE p # q
    BY <1>3, <1>13, <2>1, <2>3, NetworkFacts DEF InOrder, Pending
  <2> QED BY <2>2, <2>3
<1>14. CASE UNCHANGED vars
  BY <1>1, <1>14 DEF vars, netVars, InOrder, Pending, Failed
<1> QED
  BY <1>4, <1>5, <1>6, <1>7, <1>8, <1>9, <1>10, <1>11, <1>12, <1>13, <1>14
  DEF Next, Punch, Chat

-----------------------------------------------------------------------------
\* An unread answer stays unread until its reader takes it or stops punching.

LEMMA PostStays ==
  ASSUME TypeOK, NEW p \in Peers, NEW m \in Datagram, Post(p, m),
         NEW q \in Peers, NEW k, Contains(wire[q], k)
  PROVE  Contains(wire'[q], k)
<1>1. CASE q = p
  BY <1>1, PostFacts
<1>2. CASE q # p
  <2>1. q = Other(p) /\ wire[q] \in Seq(Datagram)
    BY <1>2 DEF Peers, Other, TypeOK, NetTypeOK
  <2>2. wire'[q] = Append(wire[q], m)
    BY <2>1, PostFacts
  <2> QED BY <2>1, <2>2, AppendFacts
<1> QED BY <1>1, <1>2

LEMMA TakeStays ==
  ASSUME TypeOK, NEW p \in Peers, Take(p),
         NEW q \in Peers, NEW k, Contains(inbox[q], k),
         q = p => Head(inbox[p]) # k
  PROVE  Contains(inbox'[q], k)
<1>1. CASE q = p
  <2>1. inbox[p] \in Seq(Datagram)
    BY DEF TypeOK, NetTypeOK
  <2> QED BY <1>1, <2>1, TakeFacts, TailFacts
<1>2. CASE q # p
  <2>1. q = Other(p)
    BY <1>2 DEF Peers, Other
  <2> QED BY <2>1, TakeFacts
<1> QED BY <1>1, <1>2

\* Delivery moves the oldest datagram from the wire to the queue.
LEMMA NetworkStays ==
  ASSUME TypeOK, Reliable, NEW q \in Peers, Network(q), SocketOpen(q),
         NEW k, Pending(q, k)
  PROVE  Pending(q, k)'
<1> DEFINE s == inbox[q]
           w == wire[q]
<1>1. /\ s \in Seq(Datagram) /\ Len(s) \in Nat
      /\ w \in Seq(Datagram) /\ Len(w) \in Nat /\ DOMAIN w = 1 .. Len(w)
      /\ inbox \in [Peers -> Seq(Datagram)] /\ wire \in [Peers -> Seq(Datagram)]
  BY LenProperties DEF TypeOK, NetTypeOK
<1>2. \A i \in DOMAIN w : w[i] \in Datagram
  BY <1>1, ElementOfSeq
<1>3. CASE Arrive(q, SocketOpen(q))
  <2>1. /\ 1 \in DOMAIN w
        /\ wire' = [wire EXCEPT ![q] = RemoveAt(@, 1)]
        /\ inbox' = [inbox EXCEPT ![q] = Append(@, w[1])]
    BY <1>3 DEF Arrive, Deliverable, Reliable
  <2>2. wire'[q] = RemoveAt(w, 1) /\ inbox'[q] = Append(s, w[1])
    BY <1>1, <2>1
  <2>3. \A m : Contains(inbox'[q], m) <=> Contains(s, m) \/ m = w[1]
    BY <1>1, <1>2, <2>1, <2>2, AppendFacts
  <2>4. CASE Contains(s, k)
    BY <2>3, <2>4 DEF Pending
  <2>5. CASE Contains(w, k)
    <3>1. PICK j \in 1 .. Len(w) : w[j] = k
      BY <2>5 DEF Contains
    <3>2. CASE j = 1
      BY <2>3, <3>1, <3>2 DEF Pending
    <3>3. CASE j # 1
      <4>1. j - 1 \in 1 .. Len(w) - 1 /\ ~(j - 1 < 1) /\ (j - 1) + 1 = j
        BY <1>1, <3>1, <3>3
      <4>2. RemoveAt(w, 1)[j - 1] = w[(j - 1) + 1] /\ Len(RemoveAt(w, 1)) = Len(w) - 1
        <5> HIDE DEF w
        <5> QED BY <1>1, <2>1, <4>1, RemoveAtFacts
      <4>3. wire'[q][j - 1] = k /\ j - 1 \in 1 .. Len(wire'[q])
        BY <2>2, <3>1, <4>1, <4>2
      <4> QED BY <4>3 DEF Pending, Contains
    <3> QED BY <3>2, <3>3
  <2> QED BY <2>4, <2>5 DEF Pending
<1>4. CASE Duplicate(q)
  <2>1. PICK d \in DOMAIN w : wire' = [wire EXCEPT ![q] = Append(@, w[d])]
    BY <1>4 DEF Duplicate
  <2>2. wire'[q] = Append(w, w[d]) /\ inbox' = inbox
    BY <1>1, <1>4, <2>1 DEF Duplicate
  <2> QED BY <1>1, <1>2, <2>2, AppendFacts DEF Pending
<1> QED BY <1>3, <1>4 DEF Network, Lose, Reliable

LEMMA GoneIsFinal ==
  ASSUME TypeOK, [Next]_vars, NEW p \in Peers, Gone(p)
  PROVE  Gone(p)'
<1> USE DEF Gone, Established, Failed
<1>1. CASE Tick
  BY <1>1 DEF Tick
<1>2. ASSUME NEW q \in Peers, Enter(q) \/ Punch(q)
      PROVE  Gone(p)'
  BY <1>2 DEF Enter, Punch, SendReq, GiveUp, Sleep, RecvNothing, RecvReq, RecvAck,
              RecvOther, Goto, TypeOK
<1>3. ASSUME NEW q \in Peers, Chat(q) \/ Network(q)
      PROVE  Gone(p)'
  BY <1>3, NetworkFacts DEF Chat, ChatSend, ChatRecv, Quit, Goto, TypeOK
<1>4. CASE UNCHANGED vars
  BY <1>4 DEF vars
<1> QED BY <1>1, <1>2, <1>3, <1>4 DEF Next

\* The answer a peer owes for a request it has heard.
Owed(q) == heard[q] => Gone(Other(q)) \/ Pending(Other(q), "ACK")

LEMMA OwedStep ==
  ASSUME TypeOK, Reliable, AnswerPending, [Next]_vars, NEW q \in Peers
  PROVE  Owed(q)'
<1> DEFINE o == Other(q)
<1>1. /\ o \in Peers /\ o # q /\ Other(o) = q
      /\ \A p \in Peers : p = q \/ p = o
  BY OtherPeer DEF Peers, Other
<1>2. heard[q] => Gone(o) \/ Pending(o, "ACK")
  BY DEF AnswerPending
<1>3. Gone(o) => Gone(o)'
  BY <1>1, GoneIsFinal
<1> HIDE DEF o
<1>4. SUFFICES ASSUME heard'[q], ~Gone(o)'
               PROVE  Pending(o, "ACK")'
  BY DEF Owed, o
<1>5. CASE Tick
  BY <1>2, <1>3, <1>4, <1>5 DEF Tick, netVars, Pending
<1>6. ASSUME NEW p \in Peers, Enter(p) \/ Sleep(p) \/ RecvNothing(p)
      PROVE  Pending(o, "ACK")'
  BY <1>2, <1>3, <1>4, <1>6 DEF Enter, Sleep, RecvNothing, netVars, Pending
<1>7. ASSUME NEW p \in Peers, SendReq(p) \/ ChatSend(p)
      PROVE  Pending(o, "ACK")'
  <2>1. PICK m \in Datagram : Post(p, m)
    BY <1>7 DEF SendReq, ChatSend, Datagram
  <2>2. Pending(o, "ACK") /\ inbox' = inbox
    BY <1>2, <1>3, <1>4, <1>7 DEF SendReq, ChatSend
  <2> QED BY <1>1, <2>1, <2>2, PostStays DEF Pending
<1>8. ASSUME NEW p \in Peers, RecvReq(p)
      PROVE  Pending(o, "ACK")'
  <2>1. Take(p) /\ Post(p, "ACK") /\ Head(inbox[p]) = "REQ"
    BY <1>8 DEF RecvReq
  <2>2. CASE p = q
    <3>1. wire'[o] = Append(wire[o], "ACK") /\ wire[o] \in Seq(Datagram)
      BY <1>1, <2>1, <2>2, PostFacts DEF Datagram, TypeOK, NetTypeOK, o
    <3> QED BY <3>1, AppendFacts DEF Pending, Datagram
  <2>3. CASE p # q
    <3>1. Pending(o, "ACK")
      BY <1>2, <1>3, <1>4, <1>8, <2>3 DEF RecvReq, TypeOK
    <3> QED BY <1>1, <2>1, <3>1, PostStays, TakeStays DEF Pending, Datagram
  <2> QED BY <2>2, <2>3
<1>9. ASSUME NEW p \in Peers, RecvOther(p)
      PROVE  Pending(o, "ACK")'
  <2>1. Take(p) /\ Head(inbox[p]) = "CHAT" /\ wire' = wire /\ Pending(o, "ACK")
    BY <1>2, <1>3, <1>4, <1>9 DEF RecvOther
  <2> QED BY <1>1, <2>1, TakeStays DEF Pending
<1>10. ASSUME NEW p \in Peers, RecvAck(p) \/ ChatRecv(p)
       PROVE  Pending(o, "ACK")'
  <2>1. Take(p) /\ wire' = wire /\ Pending(o, "ACK")
    BY <1>2, <1>3, <1>4, <1>10 DEF RecvAck, ChatRecv
  <2>2. p # o
    BY <1>3, <1>4, <1>10 DEF RecvAck, ChatRecv, Goto, Gone, Established, TypeOK
  <2> QED BY <1>1, <2>1, <2>2, TakeStays DEF Pending
<1>11. ASSUME NEW p \in Peers, GiveUp(p) \/ Quit(p)
       PROVE  Pending(o, "ACK")'
  <2>1. CloseSocket(p) /\ wire' = wire /\ Pending(o, "ACK")
    BY <1>2, <1>3, <1>4, <1>11 DEF GiveUp, Quit
  <2>2. p # o
    BY <1>4, <1>11 DEF GiveUp, Quit, Goto, Gone, Established, Failed, TypeOK
  <2>3. inbox'[o] = inbox[o]
    BY <1>1, <2>1, <2>2, CloseFacts DEF o
  <2> QED BY <2>1, <2>3 DEF Pending
<1>12. ASSUME NEW p \in Peers, Network(p)
       PROVE  Pending(o, "ACK")'
  <2>1. Pending(o, "ACK") /\ phase' = phase
    BY <1>2, <1>3, <1>4, <1>12, NetworkFacts
  <2>2. SocketOpen(o)
    BY <1>4, <2>1 DEF SocketOpen, Gone, Established, Failed
  <2>3. CASE p = o
    BY <1>12, <2>1, <2>2, <2>3, NetworkStays
  <2>4. CASE p # o
    BY <1>1, <1>12, <2>1, <2>4, NetworkFacts DEF Pending, o
  <2> QED BY <2>3, <2>4
<1>13. CASE UNCHANGED vars
  BY <1>2, <1>3, <1>4, <1>13 DEF vars, netVars, Pending
<1> QED
  BY <1>5, <1>6, <1>7, <1>8, <1>9, <1>10, <1>11, <1>12, <1>13 DEF Next, Punch, Chat

LEMMA AnswerPendingStep ==
  TypeOK /\ Reliable /\ ReqFirst /\ AnswerPending /\ [Next]_vars => AnswerPending'
<1> SUFFICES ASSUME TypeOK, Reliable, ReqFirst, AnswerPending, [Next]_vars,
                    NEW q \in Peers
             PROVE  /\ Owed(q)'
                    /\ Established(q)' => heard'[q]
                    /\ phase'[q] \in {"recv", "chat"} => opened'[q]
  BY DEF AnswerPending, Owed
<1>1. Owed(q)'
  BY OwedStep
<1>2. /\ Established(q) => heard[q]
      /\ phase[q] \in {"recv", "chat"} => opened[q]
  BY DEF AnswerPending
<1>3. CASE Tick
  BY <1>1, <1>2, <1>3 DEF Tick, Established, netVars
<1>4. ASSUME NEW p \in Peers,
             \/ Enter(p) \/ GiveUp(p) \/ Sleep(p) \/ RecvNothing(p)
             \/ RecvOther(p) \/ ChatRecv(p) \/ Quit(p)
      PROVE  /\ Established(q)' => heard'[q]
             /\ phase'[q] \in {"recv", "chat"} => opened'[q]
  BY <1>2, <1>4 DEF Enter, GiveUp, Sleep, RecvNothing, RecvOther, ChatRecv, Quit,
                    Goto, Established, netVars, TypeOK
<1>5. ASSUME NEW p \in Peers, SendReq(p) \/ ChatSend(p) \/ RecvReq(p)
      PROVE  /\ Established(q)' => heard'[q]
             /\ phase'[q] \in {"recv", "chat"} => opened'[q]
  <2>1. PICK m \in Datagram : Post(p, m)
    BY <1>5 DEF SendReq, ChatSend, RecvReq, Datagram
  <2>2. opened'[q] <=> opened[q] \/ q = p
    BY <2>1, PostFacts
  <2> QED BY <1>2, <1>5, <2>2
          DEF SendReq, ChatSend, RecvReq, Goto, Established, TypeOK
<1>6. ASSUME NEW p \in Peers, RecvAck(p)
      PROVE  /\ Established(q)' => heard'[q]
             /\ phase'[q] \in {"recv", "chat"} => opened'[q]
  <2>1. heard[p] /\ opened[p]
    BY <1>6, AckReaderHeard DEF AnswerPending, RecvAck
  <2> QED BY <1>2, <1>6, <2>1 DEF RecvAck, Goto, Established, TypeOK
<1>7. ASSUME NEW p \in Peers, Network(p)
      PROVE  /\ Established(q)' => heard'[q]
             /\ phase'[q] \in {"recv", "chat"} => opened'[q]
  BY <1>2, <1>7, NetworkFacts DEF Established
<1>8. CASE UNCHANGED vars
  BY <1>1, <1>2, <1>8 DEF vars, netVars, Established
<1> QED BY <1>1, <1>3, <1>4, <1>5, <1>6, <1>7, <1>8 DEF Next, Punch, Chat

LEMMA AckOrderHolds == Spec => [](TypeOK /\ InTime /\ AckOrder)
<1> DEFINE Inv == TypeOK /\ InTime /\ AckOrder
<1>1. Init => Inv
  BY TypeInit, InTimeInit, AckOrderInit DEF AckOrder
<1>2. Inv /\ [Next]_vars => Inv'
  <2>1. Reliable' <=> Reliable
    BY DEF Reliable
  <2> QED BY <2>1, TypeStep, InTimeStep, ReqFirstStep, AnswerPendingStep DEF AckOrder
<1> QED BY <1>1, <1>2, PTL DEF Spec

\* On a reliable network in order, a peer's request runs ahead of its answers in
\* every queue, and a peer that has heard the other one has its answer unread there
\* or the other one has stopped punching.
THEOREM AnswersInOrder == Spec => []AckOrder
BY AckOrderHolds, PTL

\* On a reliable network in order, the peer that finishes first leaves the other
\* one its answer.
THEOREM AnswerIsOwed == Spec => []AckOwed
<1>1. AckOrder => AckOwed
  BY DEF AckOrder, AnswerPending, AckOwed, Gone
<1> QED BY <1>1, AckOrderHolds, PTL
=============================================================================
