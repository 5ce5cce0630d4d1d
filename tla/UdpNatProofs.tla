---------------------------- MODULE UdpNatProofs ----------------------------
(***************************************************************************)
(* Facts about queues of datagrams and about the network, for any set of   *)
(* datagrams: what is left after the network or a reader has taken one     *)
(* out, and what is there after one was put in.                            *)
(***************************************************************************)
EXTENDS UdpNat, SequenceTheorems, TLAPS

\* Taking out the i-th element leaves the others in their order.
LEMMA RemoveAtFacts ==
  ASSUME NEW S, NEW s \in Seq(S), NEW i \in DOMAIN s
  PROVE  /\ RemoveAt(s, i) \in Seq(S)
         /\ Len(RemoveAt(s, i)) = Len(s) - 1
         /\ DOMAIN RemoveAt(s, i) = 1 .. Len(s) - 1
         /\ \A j \in 1 .. Len(s) - 1 :
              RemoveAt(s, i)[j] = IF j < i THEN s[j] ELSE s[j + 1]
<1>1. i \in 1 .. Len(s) /\ Len(s) \in Nat
  BY LenProperties
<1> DEFINE l == SubSeq(s, 1, i - 1)
           r == SubSeq(s, i + 1, Len(s))
<1>2. \A j \in 1 .. Len(s) : s[j] \in S
  BY ElementOfSeq
<1>3. /\ l \in Seq(S)
      /\ Len(l) = i - 1
      /\ \A j \in 1 .. i - 1 : l[j] = s[j]
  BY <1>1, <1>2, SubSeqProperties
<1>4. /\ r \in Seq(S)
      /\ Len(r) = Len(s) - i
      /\ \A j \in 1 .. Len(s) - i : r[j] = s[i + j]
  BY <1>1, <1>2, SubSeqProperties
<1>5. /\ l \o r \in Seq(S)
      /\ Len(l \o r) = Len(l) + Len(r)
      /\ \A j \in 1 .. Len(l) + Len(r) :
           (l \o r)[j] = IF j <= Len(l) THEN l[j] ELSE r[j - Len(l)]
  <2> HIDE DEF l, r
  <2> QED BY <1>3, <1>4, ConcatProperties
<1>6. RemoveAt(s, i) = l \o r
  BY DEF RemoveAt
<1>7. DOMAIN (l \o r) = 1 .. Len(l \o r)
  BY <1>5, LenProperties
<1> HIDE DEF l, r
<1>8. ASSUME NEW j \in 1 .. Len(s) - 1
      PROVE  (l \o r)[j] = IF j < i THEN s[j] ELSE s[j + 1]
  <2>1. /\ i \in Int /\ Len(s) \in Int /\ j \in Int
        /\ j \in 1 .. Len(l) + Len(r)
    BY <1>1, <1>3, <1>4
  <2>2. CASE j < i
    <3>1. j \in 1 .. i - 1 /\ j <= Len(l)
      BY <2>1, <2>2, <1>3
    <3> QED BY <2>1, <2>2, <3>1, <1>3, <1>5
  <2>3. CASE ~(j < i)
    <3>1. /\ ~(j <= Len(l))
          /\ j - Len(l) \in 1 .. Len(s) - i
          /\ i + (j - Len(l)) = j + 1
      BY <2>1, <2>3, <1>1, <1>3
    <3>2. (l \o r)[j] = r[j - Len(l)]
      BY <2>1, <3>1, <1>5
    <3> QED BY <2>3, <3>1, <3>2, <1>4
  <2> QED BY <2>2, <2>3
<1>9. Len(l) + Len(r) = Len(s) - 1
  BY <1>1, <1>3, <1>4
<1> QED BY <1>5, <1>6, <1>7, <1>8, <1>9

LEMMA AppendFacts ==
  ASSUME NEW S, NEW s \in Seq(S), NEW e \in S
  PROVE  /\ Append(s, e) \in Seq(S)
         /\ DOMAIN Append(s, e) = 1 .. Len(s) + 1
         /\ Len(Append(s, e)) = Len(s) + 1
         /\ \A j \in 1 .. Len(s) : Append(s, e)[j] = s[j]
         /\ Append(s, e)[Len(s) + 1] = e
         /\ \A m : Contains(Append(s, e), m) <=> Contains(s, m) \/ m = e
<1>1. /\ Append(s, e) \in Seq(S)
      /\ Len(Append(s, e)) = Len(s) + 1
      /\ \A j \in 1 .. Len(s) : Append(s, e)[j] = s[j]
      /\ Append(s, e)[Len(s) + 1] = e
      /\ Len(s) \in Nat
  BY AppendProperties, LenProperties
<1>2. DOMAIN Append(s, e) = 1 .. Len(s) + 1
  BY <1>1, LenProperties
<1> QED BY <1>1, <1>2 DEF Contains

\* Nothing is found in a shortened queue that was not in it before.
LEMMA RemoveAtContains ==
  ASSUME NEW S, NEW s \in Seq(S), NEW i \in DOMAIN s, NEW m,
         Contains(RemoveAt(s, i), m)
  PROVE  Contains(s, m)
<1>1. Len(s) \in Nat /\ i \in 1 .. Len(s)
  BY LenProperties
<1>2. PICK j \in 1 .. Len(s) - 1 : RemoveAt(s, i)[j] = m
  BY RemoveAtFacts DEF Contains
<1>3. CASE j < i
  <2>1. s[j] = m /\ j \in 1 .. Len(s)
    BY <1>1, <1>2, <1>3, RemoveAtFacts
  <2> QED BY <2>1 DEF Contains
<1>4. CASE ~(j < i)
  <2>1. s[j + 1] = m /\ j + 1 \in 1 .. Len(s)
    BY <1>1, <1>2, <1>4, RemoveAtFacts
  <2> QED BY <2>1 DEF Contains
<1> QED BY <1>3, <1>4

LEMMA TailFacts ==
  ASSUME NEW S, NEW s \in Seq(S), s # <<>>
  PROVE  /\ Tail(s) \in Seq(S)
         /\ Head(s) = s[1]
         /\ Head(s) \in S
         /\ Len(s) \in Nat \ {0}
         /\ DOMAIN Tail(s) = 1 .. Len(s) - 1
         /\ \A j \in 1 .. Len(s) - 1 : Tail(s)[j] = s[j + 1]
         /\ \A m : Contains(s, m) <=> Head(s) = m \/ Contains(Tail(s), m)
<1>1. /\ Tail(s) \in Seq(S)
      /\ Head(s) = s[1]
      /\ Head(s) \in S
      /\ Len(s) \in Nat \ {0}
      /\ Len(Tail(s)) = Len(s) - 1
      /\ \A j \in 1 .. Len(s) - 1 : Tail(s)[j] = s[j + 1]
  BY HeadTailProperties, EmptySeq
<1>2. DOMAIN Tail(s) = 1 .. Len(s) - 1
  BY <1>1, LenProperties
<1>3. ASSUME NEW m, Contains(s, m)
      PROVE  Head(s) = m \/ Contains(Tail(s), m)
  <2>1. PICK j \in 1 .. Len(s) : s[j] = m
    BY <1>3 DEF Contains
  <2>2. CASE j = 1
    BY <2>1, <2>2, <1>1
  <2>3. CASE j # 1
    <3>1. j - 1 \in 1 .. Len(s) - 1
      BY <2>3, <1>1
    <3>2. Tail(s)[j - 1] = m
      BY <3>1, <2>1, <1>1
    <3> QED BY <3>1, <3>2, <1>1 DEF Contains
  <2> QED BY <2>2, <2>3
<1>4. ASSUME NEW m, Contains(Tail(s), m)
      PROVE  Contains(s, m)
  <2>1. PICK j \in 1 .. Len(s) - 1 : Tail(s)[j] = m
    BY <1>4, <1>1 DEF Contains
  <2>2. s[j + 1] = m /\ j + 1 \in 1 .. Len(s)
    BY <2>1, <1>1
  <2> QED BY <2>2 DEF Contains
<1>5. ASSUME NEW m, Head(s) = m
      PROVE  Contains(s, m)
  <2>1. 1 \in 1 .. Len(s) /\ s[1] = m
    BY <1>5, <1>1
  <2> QED BY <2>1 DEF Contains
<1> QED BY <1>1, <1>2, <1>3, <1>4, <1>5

-----------------------------------------------------------------------------
LEMMA OtherPeer ==
  ASSUME NEW p \in Peers
  PROVE  Other(p) \in Peers /\ Other(p) # p /\ Other(Other(p)) = p
BY PeersDiffer DEF Peers, Other

\* The network invents no datagram and opens no NAT.
LEMMA NetFacts ==
  ASSUME NEW D, NetTypeOK(D), NEW p \in Peers, NEW isOpen,
         Arrive(p, isOpen) \/ Lose(p) \/ Duplicate(p)
  PROVE  /\ NetTypeOK(D)'
         /\ opened' = opened
         /\ wire'[Other(p)] = wire[Other(p)]
         /\ inbox'[Other(p)] = inbox[Other(p)]
         /\ \A m : Pending(p, m)' => Pending(p, m)
<1>1. /\ Other(p) \in Peers /\ Other(p) # p
      /\ wire[p] \in Seq(D) /\ inbox[p] \in Seq(D)
      /\ wire \in [Peers -> Seq(D)] /\ inbox \in [Peers -> Seq(D)]
      /\ opened \in [Peers -> BOOLEAN] /\ dups \in 0 .. MaxDup
      /\ MaxDup \in Nat
  BY OtherPeer, NetworkKind DEF NetTypeOK
<1>2. opened' = opened
  BY DEF Arrive, Lose, Duplicate
<1>3. ASSUME NEW i \in DOMAIN wire[p],
             wire' = [wire EXCEPT ![p] = RemoveAt(@, i)]
      PROVE  /\ wire' \in [Peers -> Seq(D)]
             /\ wire'[p] = RemoveAt(wire[p], i)
             /\ wire'[Other(p)] = wire[Other(p)]
             /\ \A m : Contains(wire'[p], m) => Contains(wire[p], m)
  <2>1. RemoveAt(wire[p], i) \in Seq(D)
    BY <1>1, RemoveAtFacts
  <2>2. \A m : Contains(RemoveAt(wire[p], i), m) => Contains(wire[p], m)
    BY <1>1, RemoveAtContains
  <2> QED BY <1>1, <1>3, <2>1, <2>2
<1>4. ASSUME NEW i \in DOMAIN wire[p]
      PROVE  wire[p][i] \in D /\ Contains(wire[p], wire[p][i])
  BY <1>1, LenProperties, ElementOfSeq DEF Contains
<1>5. CASE Arrive(p, isOpen)
  <2>1. PICK i \in DOMAIN wire[p] :
          /\ wire' = [wire EXCEPT ![p] = RemoveAt(@, i)]
          /\ inbox' = IF isOpen /\ (Filtering => opened[p])
                      THEN [inbox EXCEPT ![p] = Append(@, wire[p][i])]
                      ELSE inbox
          /\ UNCHANGED <<opened, dups>>
    BY <1>5 DEF Arrive, Deliverable
  <2>2. /\ Append(inbox[p], wire[p][i]) \in Seq(D)
        /\ \A m : Contains(Append(inbox[p], wire[p][i]), m) <=>
                    Contains(inbox[p], m) \/ m = wire[p][i]
    BY <1>1, <1>4, AppendFacts
  <2>3. /\ inbox' \in [Peers -> Seq(D)]
        /\ inbox'[Other(p)] = inbox[Other(p)]
        /\ \/ inbox'[p] = inbox[p]
           \/ inbox'[p] = Append(inbox[p], wire[p][i])
    BY <1>1, <2>1, <2>2
  <2>4. \A m : Contains(inbox'[p], m) =>
                 Contains(inbox[p], m) \/ Contains(wire[p], m)
    BY <1>4, <2>2, <2>3
  <2> QED BY <1>1, <1>2, <1>3, <2>1, <2>3, <2>4 DEF NetTypeOK, Pending
<1>6. CASE Lose(p)
  <2>1. PICK i \in DOMAIN wire[p] : wire' = [wire EXCEPT ![p] = RemoveAt(@, i)]
    BY <1>6 DEF Lose
  <2> QED BY <1>1, <1>2, <1>3, <1>6, <2>1 DEF Lose, NetTypeOK, Pending
<1>7. CASE Duplicate(p)
  <2>1. PICK i \in DOMAIN wire[p] :
          wire' = [wire EXCEPT ![p] = Append(@, wire[p][i])]
    BY <1>7 DEF Duplicate
  <2>2. /\ Append(wire[p], wire[p][i]) \in Seq(D)
        /\ \A m : Contains(Append(wire[p], wire[p][i]), m) <=>
                    Contains(wire[p], m) \/ m = wire[p][i]
    BY <1>1, <1>4, AppendFacts
  <2>3. dups' \in 0 .. MaxDup
    BY <1>1, <1>7 DEF Duplicate
  <2> QED
    BY <1>1, <1>2, <1>4, <1>7, <2>1, <2>2, <2>3 DEF Duplicate, NetTypeOK, Pending
<1> QED BY <1>5, <1>6, <1>7

=============================================================================
