----------------------------- MODULE ScanProofs -----------------------------
(***************************************************************************)
(* The port scan and the maintenance thread beside it, for every range of  *)
(* ports, number of looks and timeout.                                     *)
(***************************************************************************)
EXTENDS ScanClient, TLAPS

\* Division, as the operators use it.
LEMMA DivFacts ==
  ASSUME NEW a \in Nat, NEW b \in Nat \ {0}
  PROVE  /\ a \div b \in Nat /\ a % b \in 0 .. b - 1
         /\ a = (a \div b) * b + (a % b)
OBVIOUS

LEMMA DivBound ==
  ASSUME NEW a \in Nat, NEW b \in Nat \ {0}, NEW k \in Nat, k * b <= a
  PROVE  k <= a \div b
<1> DEFINE q == a \div b
<1>1. q \in Nat /\ a < (q + 1) * b
  BY DivFacts
<1> HIDE DEF q
<1>2. ASSUME q + 1 <= k
      PROVE  (q + 1) * b <= k * b
  BY <1>1, <1>2
<1>3. k * b \in Nat /\ (q + 1) * b \in Nat
  BY <1>1
<1>4. k <= q
  BY <1>1, <1>2, <1>3
<1> QED BY <1>4 DEF q

LEMMA SmallMod ==
  ASSUME NEW n \in Nat, NEW b \in Nat \ {0}, n < b
  PROVE  n % b = n
BY DivFacts

-----------------------------------------------------------------------------
\* The scan.

\* Neither the end of the range nor the port after it wraps.
RangeFits == base_port + PortRange + PortStep < PortLimit

\* The most ports one attempt asks.
MaxPorts == (2 * PortRange) \div PortStep + 1

Tried(k) == \A j \in Nat : j < k => PortMin + j * PortStep \in tried

\* The attempt has asked k ports of the range, and that took as long as it had to.
Asked(k) ==
  /\ port = PortMin + k * PortStep
  /\ Tried(k)
  /\ pc = "port" => k <= MaxPorts /\ elapsed < PunchTimeout + k * Looks
  /\ pc = "look" => /\ k < MaxPorts /\ port <= PortMax
                    /\ port \in tried
                    /\ elapsed < PunchTimeout + k * Looks + looks

ScanTypes == TypeOK /\ (pc = "look" => looks < Looks)

ScanInv ==
  /\ ScanTypes
  /\ RangeFits =>
       /\ pc \in {"port", "look"} => \E k \in Nat : Asked(k)
       /\ pc = "pause" => /\ Wanted \subseteq tried
                          /\ elapsed < PunchTimeout + MaxPorts * Looks
       /\ pc \in {"top", "failed"} => elapsed < PunchTimeout + AttemptTime

LEMMA ConstantFacts ==
  /\ PortLimit \in Nat \ {0} /\ PortStep \in Nat \ {0} /\ Looks \in Nat \ {0}
  /\ PortRange \in Nat /\ PortRange < PortLimit
  /\ LowestPort \in Nat /\ LowestPort < PortLimit
  /\ PeerPorts \subseteq Port \ {0} /\ ReplyPorts \subseteq Port
  /\ PunchTimeout \in Nat /\ PunchInterval \in Nat /\ MaxElapsed \in Nat
  /\ MaxPorts \in Nat \ {0} /\ MaxPorts * Looks \in Nat
  /\ AttemptTime = MaxPorts * Looks + PunchInterval
  /\ KeepAliveInterval \in Nat /\ MaxHeld \in Nat
<1>1. /\ PortLimit \in Nat \ {0} /\ PortStep \in Nat \ {0} /\ Looks \in Nat \ {0}
      /\ PortRange \in Nat /\ PortRange < PortLimit
      /\ LowestPort \in Nat /\ LowestPort < PortLimit
      /\ PeerPorts \subseteq Port \ {0} /\ ReplyPorts \subseteq Port
      /\ PunchTimeout \in Nat /\ PunchInterval \in Nat /\ MaxElapsed \in Nat
  BY PortsAreWords, TimesAreNatural DEF Port
<1>2. (2 * PortRange) \div PortStep \in Nat
  BY <1>1, DivFacts
<1>3. MaxPorts \in Nat \ {0} /\ MaxPorts * Looks \in Nat
  BY <1>1, <1>2 DEF MaxPorts
<1>4. AttemptTime = MaxPorts * Looks + PunchInterval
  BY DEF AttemptTime, MaxPorts
<1> QED BY <1>1, <1>3, <1>4, DelaysAreNatural

LEMMA PassFacts ==
  ASSUME elapsed \in 0 .. MaxElapsed, NEW t \in Nat, Pass(t)
  PROVE  /\ elapsed' \in 0 .. MaxElapsed
         /\ elapsed <= elapsed' /\ elapsed' <= elapsed + t
BY ConstantFacts DEF Pass

\* The range that does not wrap: its ends, and that its ports can be counted.
LEMMA RangeFacts ==
  ASSUME base_port \in Port
  PROVE  /\ PortMin \in Port /\ PortMax \in Port
         /\ RangeFits => PortMax = base_port + PortRange
         /\ RangeFits => PortMax <= PortMin + 2 * PortRange
<1>1. /\ base_port \in Nat /\ base_port < PortLimit /\ base_port + PortRange \in Nat
  BY ConstantFacts DEF Port
<1>2. PortMin \in Port /\ base_port + PortRange <= PortMin + 2 * PortRange
  BY <1>1, ConstantFacts DEF Port, PortMin
<1>3. PortMax \in Port
  BY <1>1, ConstantFacts, DivFacts DEF Port, PortMax, Word
<1>4. RangeFits => PortMax = base_port + PortRange
  <2> SUFFICES ASSUME RangeFits
               PROVE  PortMax = base_port + PortRange
    OBVIOUS
  <2>1. base_port + PortRange < PortLimit
    BY <1>1, ConstantFacts DEF RangeFits
  <2> QED BY <1>1, <2>1, ConstantFacts, SmallMod DEF PortMax, Word
<1> QED BY <1>2, <1>3, <1>4

LEMMA NextLookFacts ==
  ASSUME ScanTypes, pc = "look", NextLook
  PROVE  /\ base_port' = base_port /\ tried' = tried
         /\ looks' \in 0 .. Looks /\ elapsed' \in 0 .. MaxElapsed /\ elapsed' <= elapsed + 1
         /\ \/ pc' = "look" /\ port' = port /\ looks' = looks + 1 /\ looks' < Looks
            \/ pc' = "port" /\ port' = Word(port + PortStep) /\ looks + 1 = Looks
         /\ port' \in Port
<1>1. /\ port \in Port /\ looks \in 0 .. Looks /\ looks < Looks
      /\ elapsed \in 0 .. MaxElapsed /\ port + PortStep \in Nat
  BY ConstantFacts DEF ScanTypes, TypeOK, Port
<1>2. elapsed' \in 0 .. MaxElapsed /\ elapsed' <= elapsed + 1
  BY <1>1, PassFacts DEF NextLook
<1>3. Word(port + PortStep) \in Port
  BY <1>1, ConstantFacts, DivFacts DEF Word, Port
<1>4. /\ base_port' = base_port /\ tried' = tried /\ looks' = looks + 1
      /\ looks + 1 < Looks => pc' = pc /\ port' = port
      /\ ~(looks + 1 < Looks) => pc' = "port" /\ port' = Word(port + PortStep)
  BY DEF NextLook
<1>5. looks + 1 \in 0 .. Looks /\ (looks + 1 < Looks \/ looks + 1 = Looks)
  BY <1>1, ConstantFacts
<1> QED BY <1>1, <1>2, <1>3, <1>4, <1>5

LEMMA ScanTypesStep == ScanTypes /\ [Next]_vars => ScanTypes'
<1> SUFFICES ASSUME ScanTypes, [Next]_vars
             PROVE  ScanTypes'
  OBVIOUS
<1> USE DEF ScanTypes
<1>1. /\ PortMin \in Port
      /\ pc \in {"top", "port", "look", "pause", "connected", "failed"}
      /\ base_port \in Port /\ peer_port \in Port /\ port \in Port
      /\ last_working_port \in Port /\ looks \in 0 .. Looks
      /\ elapsed \in 0 .. MaxElapsed /\ tried \subseteq Port
  BY RangeFacts DEF TypeOK
<1>2. CASE Attempt \/ GiveUp \/ RangeDone
  BY <1>1, <1>2 DEF Attempt, GiveUp, RangeDone, TypeOK
<1>3. CASE AskPort
  BY <1>1, <1>3, ConstantFacts DEF AskPort, TypeOK
<1>4. CASE Pause
  <2>1. elapsed' \in 0 .. MaxElapsed
    BY <1>1, <1>4, ConstantFacts, PassFacts DEF Pause
  <2> QED BY <1>1, <1>4, <2>1 DEF Pause, TypeOK
<1>5. CASE LookNothing
  BY <1>1, <1>5, NextLookFacts DEF LookNothing, TypeOK
<1>6. ASSUME NEW from \in ReplyPorts, LookReq(from) \/ LookOther(from)
      PROVE  ScanTypes'
  <2>1. from \in Port
    BY ConstantFacts
  <2> QED BY <1>1, <1>6, <2>1, NextLookFacts DEF LookReq, LookOther, TypeOK
<1>7. ASSUME NEW from \in ReplyPorts, LookAck(from)
      PROVE  ScanTypes'
  BY <1>1, <1>7, ConstantFacts DEF LookAck, TypeOK
<1>8. CASE UNCHANGED vars
  BY <1>1, <1>8 DEF vars, TypeOK
<1> QED BY <1>2, <1>3, <1>4, <1>5, <1>6, <1>7, <1>8 DEF Next, Look

\* A port that is asked is one of MaxPorts.
LEMMA FewPorts ==
  ASSUME base_port \in Port, RangeFits, NEW k \in Nat,
         PortMin + k * PortStep <= PortMax
  PROVE  /\ k < MaxPorts
         /\ Word(PortMin + k * PortStep + PortStep) = PortMin + (k + 1) * PortStep
<1>1. /\ PortMin \in Nat /\ PortMax = base_port + PortRange
      /\ PortMax <= PortMin + 2 * PortRange
      /\ base_port \in Nat /\ PortRange \in Nat /\ PortStep \in Nat \ {0} /\ PortLimit \in Nat \ {0}
  BY RangeFacts, ConstantFacts DEF Port
<1>2. k * PortStep \in Nat /\ (k + 1) * PortStep = k * PortStep + PortStep
  BY <1>1
<1>3. k * PortStep <= 2 * PortRange
  BY <1>1, <1>2
<1>4. 2 * PortRange \in Nat
  BY <1>1
<1>5. k <= (2 * PortRange) \div PortStep
  BY <1>1, <1>3, <1>4, DivBound
<1>6. (2 * PortRange) \div PortStep \in Nat
  BY <1>1, <1>4, DivFacts
<1>7. k < MaxPorts
  BY <1>5, <1>6 DEF MaxPorts
<1>8. /\ PortMin + k * PortStep + PortStep \in Nat
      /\ PortMin + k * PortStep + PortStep < PortLimit
  BY <1>1, <1>2 DEF RangeFits
<1>9. Word(PortMin + k * PortStep + PortStep) = PortMin + k * PortStep + PortStep
  BY <1>1, <1>8, SmallMod DEF Word
<1>10. PortMin + k * PortStep + PortStep = PortMin + (k + 1) * PortStep
  BY <1>1, <1>2
<1> QED BY <1>7, <1>9, <1>10

\* Once port is past the range, everything wanted has been asked.
LEMMA WantedTried ==
  ASSUME base_port \in Port, RangeFits, NEW k \in Nat,
         port = PortMin + k * PortStep, Tried(k), ~(port <= PortMax)
  PROVE  Wanted \subseteq tried
<1> SUFFICES ASSUME NEW n \in Wanted
             PROVE  n \in tried
  OBVIOUS
<1>1. /\ PortMin \in Nat /\ PortMax = base_port + PortRange /\ PortMax \in Nat
      /\ PortStep \in Nat \ {0}
  BY RangeFacts, ConstantFacts DEF Port
<1>2. /\ n \in Nat /\ n >= PortMin /\ n <= PortMax /\ (n - PortMin) % PortStep = 0
  BY <1>1 DEF Wanted, Port
<1> DEFINE j == (n - PortMin) \div PortStep
<1>3. n - PortMin \in Nat
  BY <1>1, <1>2
<1>4. j \in Nat /\ n - PortMin = j * PortStep
  <2>1. j \in Nat /\ n - PortMin = j * PortStep + ((n - PortMin) % PortStep)
    BY <1>1, <1>3, DivFacts
  <2>2. j * PortStep \in Nat
    BY <1>1, <2>1
  <2> HIDE DEF j
  <2> QED BY <1>2, <2>1, <2>2
<1> HIDE DEF j
<1>5. n = PortMin + j * PortStep
  BY <1>1, <1>2, <1>4
<1>6. j < k
  <2>1. j * PortStep < k * PortStep
    BY <1>1, <1>2, <1>4, <1>5
  <2>2. ASSUME k <= j
        PROVE  k * PortStep <= j * PortStep
    BY <1>1, <1>4, <2>2
  <2>3. k * PortStep \in Nat /\ j * PortStep \in Nat
    BY <1>1, <1>4
  <2> QED BY <1>4, <2>1, <2>2, <2>3
<1> QED BY <1>4, <1>5, <1>6 DEF Tried

LEMMA ScanInvInit == Init => ScanInv
<1> SUFFICES ASSUME Init
             PROVE  ScanInv
  OBVIOUS
<1>1. TypeOK
  BY ConstantFacts DEF Init, TypeOK, Port
<1>2. elapsed < PunchTimeout + AttemptTime
  <2>1. MaxPorts * Looks > 0
    BY ConstantFacts
  <2> QED BY <2>1, ConstantFacts DEF Init
<1> QED BY <1>1, <1>2 DEF Init, ScanInv, ScanTypes

LEMMA ScanInvStep == ScanInv /\ [Next]_vars => ScanInv'
<1> SUFFICES ASSUME ScanInv, [Next]_vars
             PROVE  ScanInv'
  OBVIOUS
<1>1. ScanTypes /\ ScanTypes' /\ base_port' = base_port
  BY ScanTypesStep
  DEF ScanInv, Next, Look, Attempt, GiveUp, AskPort, RangeDone, LookNothing, LookReq,
      LookOther, LookAck, NextLook, Pause, vars
<1>2. /\ base_port \in Port /\ elapsed \in 0 .. MaxElapsed /\ PortMin \in Port
      /\ port \in Nat /\ looks \in Nat /\ PortMax \in Port
      /\ elapsed \in Nat /\ elapsed' \in Nat
  BY <1>1, RangeFacts DEF ScanTypes, TypeOK, Port
<1>3. /\ UNCHANGED <<PortMin, PortMax, Wanted>> /\ RangeFits' = RangeFits
  BY <1>1 DEF PortMin, PortMax, Wanted, RangeFits
<1> SUFFICES ASSUME RangeFits
             PROVE  /\ pc' \in {"port", "look"} => \E k \in Nat : Asked(k)'
                    /\ pc' = "pause" => /\ Wanted' \subseteq tried'
                                        /\ elapsed' < PunchTimeout + MaxPorts * Looks
                    /\ pc' \in {"top", "failed"} => elapsed' < PunchTimeout + AttemptTime
  BY <1>1, <1>3, Zenon DEF ScanInv
<1>4. CASE Attempt
  <2>1. /\ pc' = "port" /\ port' = PortMin /\ elapsed' = elapsed /\ elapsed < PunchTimeout
    BY <1>4 DEF Attempt, TimeLeft
  <2>2. /\ 0 \in Nat /\ 0 * PortStep = 0 /\ 0 * Looks = 0 /\ 0 <= MaxPorts
    BY ConstantFacts
  <2>3. port' = PortMin' + 0 * PortStep /\ elapsed' < PunchTimeout + 0 * Looks
    BY <1>2, <1>3, <2>1, <2>2, ConstantFacts DEF Port
  <2>4. Tried(0)'
    BY DEF Tried
  <2>5. Asked(0)'
    BY <2>1, <2>2, <2>3, <2>4 DEF Asked
  <2> QED BY <2>1, <2>2, <2>5
<1>5. CASE GiveUp
  BY <1>5 DEF GiveUp, ScanInv
<1>6. CASE AskPort
  <2>1. PICK k \in Nat : Asked(k)
    BY <1>6 DEF AskPort, ScanInv
  <2>2. /\ pc = "port" /\ pc' = "look" /\ port' = port /\ elapsed' = elapsed /\ looks' = 0
        /\ tried' = tried \union {port} /\ port <= PortMax
    BY <1>6 DEF AskPort, InRange
  <2>3. /\ port = PortMin + k * PortStep /\ Tried(k)
        /\ elapsed < PunchTimeout + k * Looks
    BY <2>1, <2>2 DEF Asked
  <2>4. k < MaxPorts
    BY <1>2, <2>2, <2>3, FewPorts
  <2>5. Tried(k)'
    BY <1>3, <2>2, <2>3 DEF Tried
  <2>6. elapsed' < PunchTimeout + k * Looks + looks'
    <3>1. k * Looks \in Nat
      BY ConstantFacts
    <3> QED BY <1>2, <2>2, <2>3, <3>1, ConstantFacts
  <2>7. Asked(k)'
    BY <1>3, <2>2, <2>3, <2>4, <2>5, <2>6 DEF Asked
  <2> QED BY <2>2, <2>7
<1>7. CASE RangeDone
  <2>1. PICK k \in Nat : Asked(k)
    BY <1>7 DEF RangeDone, ScanInv
  <2>2. /\ pc = "port" /\ pc' = "pause" /\ elapsed' = elapsed /\ tried' = tried
        /\ ~(port <= PortMax)
    BY <1>7 DEF RangeDone, InRange
  <2>3. /\ port = PortMin + k * PortStep /\ Tried(k)
        /\ k <= MaxPorts /\ elapsed < PunchTimeout + k * Looks
    BY <2>1, <2>2 DEF Asked
  <2>4. Wanted \subseteq tried
    BY <1>2, <2>2, <2>3, WantedTried
  <2>5. k * Looks <= MaxPorts * Looks /\ k * Looks \in Nat
    BY <2>3, ConstantFacts
  <2>6. elapsed < PunchTimeout + MaxPorts * Looks
    BY <1>2, <2>3, <2>5, ConstantFacts
  <2> QED BY <1>3, <2>2, <2>4, <2>6
<1>8. CASE Pause
  <2>1. /\ elapsed < PunchTimeout + MaxPorts * Looks /\ pc' = "top"
        /\ Pass(PunchInterval)
    BY <1>8 DEF Pause, ScanInv
  <2>2. elapsed' <= elapsed + PunchInterval
    BY <1>2, <2>1, ConstantFacts, PassFacts
  <2>3. elapsed' < PunchTimeout + AttemptTime
    BY <1>2, <2>1, <2>2, ConstantFacts
  <2> QED BY <2>1, <2>3
<1>9. CASE pc = "look" /\ NextLook
  <2>1. /\ tried' = tried /\ elapsed' <= elapsed + 1
        /\ \/ pc' = "look" /\ port' = port /\ looks' = looks + 1
           \/ pc' = "port" /\ port' = Word(port + PortStep) /\ looks + 1 = Looks
    BY <1>1, <1>9, NextLookFacts
  <2>2. PICK k \in Nat : Asked(k)
    BY <1>9 DEF ScanInv
  <2>3. /\ port = PortMin + k * PortStep /\ Tried(k)
        /\ k < MaxPorts /\ port <= PortMax /\ port \in tried
        /\ elapsed < PunchTimeout + k * Looks + looks
    BY <1>9, <2>2 DEF Asked
  <2>4. k * Looks \in Nat /\ (k + 1) * Looks = k * Looks + Looks
    BY ConstantFacts
  <2>5. CASE pc' = "look" /\ port' = port /\ looks' = looks + 1
    <3>1. elapsed' < PunchTimeout + k * Looks + looks'
      BY <1>2, <2>1, <2>3, <2>4, <2>5, ConstantFacts
    <3>2. Tried(k)'
      BY <1>3, <2>1, <2>3 DEF Tried
    <3>3. Asked(k)'
      BY <1>3, <2>1, <2>3, <2>5, <3>1, <3>2 DEF Asked
    <3> QED BY <2>5, <3>3
  <2>6. CASE pc' = "port" /\ port' = Word(port + PortStep) /\ looks + 1 = Looks
    <3>1. elapsed' < PunchTimeout + (k + 1) * Looks
      BY <1>2, <2>1, <2>3, <2>4, <2>6, ConstantFacts
    <3>2. port' = PortMin' + (k + 1) * PortStep
      BY <1>2, <1>3, <2>3, <2>6, FewPorts
    <3>3. Tried(k + 1)'
      <4> SUFFICES ASSUME NEW j \in Nat, j < k + 1
                   PROVE  PortMin + j * PortStep \in tried
        BY <1>3, <2>1 DEF Tried
      <4> QED BY <2>3 DEF Tried
    <3>4. k + 1 \in Nat /\ k + 1 <= MaxPorts
      BY <2>3, ConstantFacts
    <3>5. Asked(k + 1)'
      BY <2>6, <3>1, <3>2, <3>3, <3>4 DEF Asked
    <3> QED BY <2>6, <3>4, <3>5
  <2> QED BY <2>1, <2>5, <2>6
<1>10. CASE \E from \in ReplyPorts : LookAck(from)
  BY <1>10 DEF LookAck
<1>11. CASE UNCHANGED vars
  BY <1>11
  DEF vars, ScanInv, Asked, Tried, PortMin, PortMax, Wanted
<1> QED
  BY <1>4, <1>5, <1>6, <1>7, <1>8, <1>9, <1>10, <1>11
  DEF Next, Look, LookNothing, LookReq, LookOther

\* The time of k ports is within that of the range.
LEMMA WithinRange ==
  ASSUME NEW k \in Nat, NEW l \in Nat, NEW t \in Nat, t < PunchTimeout + k * Looks + l,
         (k < MaxPorts /\ l < Looks) \/ (k <= MaxPorts /\ l = 0)
  PROVE  t < PunchTimeout + MaxPorts * Looks
<1>1. \A x, y, z, w, u \in Nat : x < y + z + u /\ z + u <= w => x < y + w
  OBVIOUS
<1>2. k * Looks \in Nat /\ (k + 1) * Looks = k * Looks + Looks
  BY ConstantFacts
<1>3. \A m \in Nat : m <= MaxPorts => m * Looks <= MaxPorts * Looks
  BY ConstantFacts
<1>4. CASE k < MaxPorts /\ l < Looks
  <2>1. k + 1 \in Nat /\ k + 1 <= MaxPorts
    BY <1>4, ConstantFacts
  <2>2. k * Looks + Looks <= MaxPorts * Looks
    BY <1>2, <1>3, <2>1
  <2>3. k * Looks + l <= MaxPorts * Looks
    BY <1>2, <1>4, <2>2, ConstantFacts
  <2> QED BY <1>1, <1>2, <2>3, ConstantFacts
<1>5. CASE k <= MaxPorts /\ l = 0
  <2>1. k * Looks + l <= MaxPorts * Looks
    BY <1>2, <1>3, <1>5
  <2> QED BY <1>1, <1>2, <2>1, ConstantFacts
<1> QED BY <1>4, <1>5

\* Outside "connected" the invariant of the scan bounds the time of an attempt.
LEMMA InTime == ScanInv /\ RangeFits /\ pc # "connected" => LateByOneAttempt
<1> SUFFICES ASSUME ScanInv, RangeFits, pc # "connected"
             PROVE  elapsed < PunchTimeout + AttemptTime
  BY DEF LateByOneAttempt
<1>1. /\ elapsed \in Nat /\ looks \in Nat
      /\ pc = "look" => looks < Looks
      /\ pc \in {"top", "port", "look", "pause", "failed"}
  BY ConstantFacts DEF ScanInv, ScanTypes, TypeOK
<1>2. CASE pc \in {"top", "failed"}
  BY <1>2 DEF ScanInv
<1>3. elapsed < PunchTimeout + MaxPorts * Looks => elapsed < PunchTimeout + AttemptTime
  BY <1>1, ConstantFacts
<1>4. CASE pc = "pause"
  BY <1>3, <1>4 DEF ScanInv
<1>5. CASE pc = "port"
  <2>1. PICK k \in Nat : Asked(k)
    BY <1>5 DEF ScanInv
  <2>2. k <= MaxPorts /\ elapsed < PunchTimeout + k * Looks + 0
    BY <1>1, <1>5, <2>1, ConstantFacts DEF Asked
  <2> QED BY <1>1, <1>3, <2>2, WithinRange
<1>6. CASE pc = "look"
  <2>1. PICK k \in Nat : Asked(k)
    BY <1>6 DEF ScanInv
  <2>2. k < MaxPorts /\ elapsed < PunchTimeout + k * Looks + looks /\ looks < Looks
    BY <1>1, <1>6, <2>1 DEF Asked
  <2>3. elapsed < PunchTimeout + MaxPorts * Looks
    BY <1>1, <2>2, WithinRange
  <2> QED BY <1>3, <2>3
<1> QED BY <1>1, <1>2, <1>4, <1>5, <1>6

LEMMA ScanInvHolds == Spec => []ScanInv
BY ScanInvInit, ScanInvStep, PTL DEF Spec

\* Every variable of the scan (pc, the four ports, the looks, the clock and the
\* ports tried) stays within its words and limits, for every range and clock:
\* perform_nat_punching of test/p2p_client.c never leaves the 16-bit ports it counts in.
THEOREM ScanTypeCorrect == Spec => []TypeOK
<1>1. ScanInv => TypeOK
  BY DEF ScanInv, ScanTypes
<1> QED BY <1>1, ScanInvHolds, PTL

\* The scan is late by one attempt at most, whatever arrives and whenever: the
\* timeout that is looked at between two attempts bounds the whole punching.  That
\* is so for every range that does not wrap round; one that does never ends.
THEOREM ScanLate == Spec => [](RangeFits => LateByOneAttempt)
<1> DEFINE Late == RangeFits => LateByOneAttempt
<1>1. Init => Late
  BY ScanInvInit, InTime DEF Init
<1>2. ScanInv /\ ScanInv' /\ Late /\ [Next]_vars => Late'
  <2> SUFFICES ASSUME ScanInv, ScanInv', Late, [Next]_vars, RangeFits'
               PROVE  LateByOneAttempt'
    OBVIOUS
  <2>1. CASE pc' # "connected"
    <3>1. (ScanInv /\ RangeFits /\ pc # "connected" => LateByOneAttempt)'
      BY InTime, PTL
    <3> QED BY <2>1, <3>1
  <2>2. CASE pc' = "connected"
    <3>1. elapsed' = elapsed /\ base_port' = base_port
      BY <2>2
      DEF Next, Look, Attempt, GiveUp, AskPort, RangeDone, LookNothing, LookReq, LookOther,
          LookAck, NextLook, Pause, vars
    <3> QED BY <3>1 DEF RangeFits, LateByOneAttempt
  <2> QED BY <2>1, <2>2
<1> HIDE DEF Late
<1>3. Spec => []Late
  BY <1>1, <1>2, ScanInvHolds, PTL DEF Spec
<1> QED BY <1>3 DEF Late

-----------------------------------------------------------------------------
\* The thread.

\* The keepalives sent, and the one about to be.
Sends == kept + (IF thread = "send" THEN 1 ELSE 0)

\* Since the answer has been read, an interval has passed between each two keepalives
\* and the rest since the latest, all of it while main was held up.
Intervals(n) ==
  n > 0 => /\ pc = "connected"
           /\ elapsed - last_keepalive + (n - 1) * KeepAliveInterval <= held

ThreadInv ==
  /\ main \in {"punching", "chat", "closing", "done", "crashed"}
  /\ thread \in {"new", "asleep", "send", "stuck"}
  /\ held \in 0 .. MaxHeld /\ is_connected \in {0, 1}
  /\ last_keepalive \in 0 .. elapsed
  /\ main = "chat" \/ is_connected = 1 => pc = "connected"
  /\ thread = "send" \/ kept > 0 => pc = "connected"
  /\ kept \in Nat
  /\ CtxLives => Intervals(Sends)
  /\ KeptApart

ClientInv == ScanInv /\ ThreadInv

LEMMA ScanStep == ScanTypes /\ Next => /\ elapsed <= elapsed'
                                       /\ pc # "connected" /\ base_port' = base_port
<1> SUFFICES ASSUME ScanTypes, Next
             PROVE  elapsed <= elapsed' /\ pc # "connected" /\ base_port' = base_port
  OBVIOUS
<1>1. elapsed \in 0 .. MaxElapsed /\ elapsed \in Nat
  BY ConstantFacts DEF ScanTypes, TypeOK
<1>2. CASE Pause
  BY <1>1, <1>2, ConstantFacts, PassFacts DEF Pause
<1>3. CASE pc = "look" /\ NextLook
  <2>1. elapsed <= elapsed'
    BY <1>1, <1>3, ConstantFacts, PassFacts DEF NextLook
  <2> QED BY <1>3, <2>1 DEF NextLook
<1>4. CASE Attempt \/ GiveUp \/ AskPort \/ RangeDone \/ \E from \in ReplyPorts : LookAck(from)
  BY <1>1, <1>4 DEF Attempt, GiveUp, AskPort, RangeDone, LookAck
<1> QED BY <1>2, <1>3, <1>4 DEF Next, Look, LookNothing, LookReq, LookOther

\* What a step does to the scan: one of its steps, time that passes in the
\* function, another address to chat with, or nothing.
LEMMA ScanPart ==
  ASSUME ClientInv, [ClientNext]_clientVars
  PROVE  ScanInv'
<1>1. /\ ScanInv /\ ScanTypes /\ elapsed \in 0 .. MaxElapsed /\ ReplyPorts \subseteq Port
      /\ main = "chat" => pc = "connected"
  BY ConstantFacts DEF ClientInv, ThreadInv, ScanInv, ScanTypes, TypeOK
<1>2. CASE [Next]_vars
  BY <1>1, <1>2, ScanInvStep
<1>3. CASE HeldUp \/ \E from \in ReplyPorts : Hear(from)
  <2>1. /\ pc' = "connected"
        /\ UNCHANGED <<base_port, port, looks, last_working_port, tried>>
        /\ elapsed' \in 0 .. MaxElapsed
        /\ peer_port' = peer_port \/ peer_port' \in Port
    BY <1>1, <1>3, ConstantFacts, PassFacts DEF HeldUp, Hear
  <2>2. ScanTypes'
    BY <1>1, <2>1 DEF ScanTypes, TypeOK
  <2> QED BY <2>1, <2>2 DEF ScanInv
<1> QED
  BY <1>2, <1>3
  DEF ClientNext, Main, Scan, Punching, Answered, Leave, Thread, ThreadStarts, ThreadWakes,
      ThreadSends, ThreadAstray, ProcessEnds, Next, Look, clientVars

LEMMA OneMore ==
  ASSUME NEW n \in Nat \ {0}
  PROVE  /\ (n - 1) * KeepAliveInterval \in Nat
         /\ n * KeepAliveInterval = (n - 1) * KeepAliveInterval + KeepAliveInterval
<1>1. KeepAliveInterval \in Nat
  BY DelaysAreNatural
<1>2. \A m, i \in Nat : m * i \in Nat /\ (m + 1) * i = m * i + i
  OBVIOUS
<1>3. n - 1 \in Nat /\ (n - 1) + 1 = n
  OBVIOUS
<1>4. ((n - 1) + 1) * KeepAliveInterval = (n - 1) * KeepAliveInterval + KeepAliveInterval
  BY <1>1, <1>2, <1>3
<1> QED BY <1>1, <1>2, <1>3, <1>4

LEMMA OneLess ==
  ASSUME NEW k \in Nat, NEW n, n = k + 1
  PROVE  (n - 1) * KeepAliveInterval = k * KeepAliveInterval
<1>1. n - 1 = k
  OBVIOUS
<1> QED BY <1>1

\* Intervals(Sends) in every step of ClientNext that ctx survives, and KeptApart.
LEMMA KeepalivesPart ==
  ASSUME ClientInv, [ClientNext]_clientVars, elapsed' \in Nat
  PROVE  /\ kept' \in Nat
         /\ CtxLives' => Intervals(Sends)'
         /\ KeptApart'
<1> USE DEF CtxLives
<1>1. /\ elapsed \in Nat /\ elapsed \in 0 .. MaxElapsed /\ held \in Nat /\ kept \in Nat
      /\ last_keepalive \in Nat /\ last_keepalive <= elapsed
      /\ KeepAliveInterval \in Nat /\ MaxHeld \in Nat
      /\ ScanTypes /\ ThreadInv
  BY ConstantFacts, DelaysAreNatural
  DEF ClientInv, ThreadInv, ScanInv, ScanTypes, TypeOK
<1>2. Sends \in Nat
  BY <1>1 DEF Sends
<1>3. CASE Scan \/ Answered
  <2>1. Next /\ UNCHANGED <<thread, kept>>
    BY <1>3 DEF Scan, Punching, Answered, Next, Look, threadVars
  <2>2. pc # "connected"
    BY <1>1, <2>1, ScanStep
  <2>3. thread # "send" /\ kept = 0
    BY <1>1, <2>2 DEF ThreadInv
  <2> QED BY <2>1, <2>3 DEF Sends, Intervals, KeptApart
<1>4. CASE HeldUp
  <2>1. /\ held' = held + 1 /\ elapsed' <= elapsed + 1 /\ pc' = "connected"
        /\ main = "punching"
        /\ UNCHANGED <<main, thread, last_keepalive, kept>>
    BY <1>1, <1>4, PassFacts DEF HeldUp, threadVars
  <2>2. Sends' = Sends
    BY <2>1 DEF Sends
  <2>3. KeptApart'
    <3>1. kept > 0 => (kept - 1) * KeepAliveInterval \in Nat
      BY <1>1, OneMore
    <3>2. kept > 0 => (kept - 1) * KeepAliveInterval <= held
      BY <1>1 DEF ThreadInv, KeptApart
    <3>3. kept > 0 => (kept - 1) * KeepAliveInterval <= held + 1
      BY <1>1, <3>1, <3>2
    <3> QED BY <2>1, <3>3 DEF KeptApart
  <2>4. Intervals(Sends)'
    <3> SUFFICES ASSUME Sends > 0
                 PROVE  elapsed' - last_keepalive + (Sends - 1) * KeepAliveInterval <= held + 1
      BY <2>1, <2>2 DEF Intervals
    <3>0. Sends \in Nat \ {0}
      BY <1>2
    <3>1. (Sends - 1) * KeepAliveInterval \in Nat
      BY <3>0, OneMore
    <3>2. elapsed - last_keepalive + (Sends - 1) * KeepAliveInterval <= held
      BY <1>1, <2>1 DEF ThreadInv, Intervals
    <3>3. \A x, y, z, w, h \in Nat : x - y + z <= h /\ w <= x + 1 => w - y + z <= h + 1
      OBVIOUS
    <3> QED BY <1>1, <2>1, <3>1, <3>2, <3>3
  <2> QED BY <1>1, <2>1, <2>3, <2>4
<1>5. CASE ThreadWakes
  <2>1. /\ main = "punching" /\ main' = main /\ thread = "asleep" /\ thread' = "send"
        /\ is_connected = 1 /\ elapsed - last_keepalive >= KeepAliveInterval
        /\ last_keepalive' = elapsed
        /\ UNCHANGED <<pc, elapsed, held, kept>>
    BY <1>5 DEF ThreadWakes, KeepaliveDue, vars
  <2>2. Sends = kept /\ Sends' = kept + 1
    BY <1>1, <2>1 DEF Sends
  <2>3. pc = "connected"
    BY <1>1, <2>1 DEF ThreadInv
  <2>4. kept * KeepAliveInterval <= held
    <3>1. CASE kept = 0
      <4>1. kept * KeepAliveInterval = 0
        BY <1>1, <3>1
      <4> QED BY <1>1, <4>1
    <3>2. CASE kept > 0
      <4>1. elapsed - last_keepalive + (kept - 1) * KeepAliveInterval <= held
        BY <1>1, <2>1, <2>2, <3>2 DEF ThreadInv, Intervals
      <4>2. /\ (kept - 1) * KeepAliveInterval \in Nat
            /\ kept * KeepAliveInterval = (kept - 1) * KeepAliveInterval + KeepAliveInterval
        BY <1>1, <3>2, OneMore
      <4>3. \A x, y, z, i, h \in Nat : x - y + z <= h /\ x - y >= i => z + i <= h
        OBVIOUS
      <4>4. (kept - 1) * KeepAliveInterval + KeepAliveInterval <= held
        BY <1>1, <2>1, <4>1, <4>2, <4>3
      <4> QED BY <4>2, <4>4
    <3> QED BY <1>1, <3>1, <3>2
  <2>5. KeptApart'
    BY <1>1, <2>1 DEF ThreadInv, KeptApart
  <2>6. Intervals(Sends)'
    <3>1. elapsed' - last_keepalive' = 0 /\ kept * KeepAliveInterval \in Nat
      BY <1>1, <2>1
    <3>2. \A d, k, h \in Nat : d = 0 /\ k <= h => d + k <= h
      OBVIOUS
    <3>3. elapsed' - last_keepalive' + kept * KeepAliveInterval <= held'
      BY <1>1, <2>1, <2>4, <3>1, <3>2
    <3>4. (Sends' - 1) * KeepAliveInterval = kept * KeepAliveInterval
      BY <1>1, <2>2, OneLess
    <3> QED BY <2>1, <2>3, <3>3, <3>4 DEF Intervals
  <2> QED BY <1>1, <2>1, <2>5, <2>6
<1>6. CASE ThreadSends
  <2>1. /\ main = "punching" /\ main' = main /\ thread = "send" /\ thread' = "asleep"
        /\ kept' = kept + 1
        /\ UNCHANGED <<pc, elapsed, held, last_keepalive>>
    BY <1>6 DEF ThreadSends, vars
  <2>2. Sends = kept + 1 /\ Sends' = kept + 1
    BY <1>1, <2>1 DEF Sends
  <2>3. elapsed - last_keepalive + kept * KeepAliveInterval <= held
    <3>1. (Sends - 1) * KeepAliveInterval = kept * KeepAliveInterval
      BY <1>1, <2>2, OneLess
    <3>2. elapsed - last_keepalive + (Sends - 1) * KeepAliveInterval <= held
      BY <1>1, <2>1, <2>2 DEF ThreadInv, Intervals
    <3> QED BY <3>1, <3>2
  <2>4. kept * KeepAliveInterval <= held
    <3>1. kept * KeepAliveInterval \in Nat
      BY <1>1
    <3>2. \A x, y, z, h \in Nat : x - y + z <= h /\ y <= x => z <= h
      OBVIOUS
    <3> QED BY <1>1, <2>3, <3>1, <3>2
  <2>5. KeptApart'
    <3>1. (kept' - 1) * KeepAliveInterval = kept * KeepAliveInterval
      BY <1>1, <2>1, OneLess
    <3> QED BY <2>1, <2>4, <3>1 DEF KeptApart
  <2>6. Intervals(Sends)'
    <3>1. Sends' = Sends /\ pc = "connected"
      BY <1>1, <2>1, <2>2 DEF ThreadInv
    <3>2. Intervals(Sends)
      BY <1>1, <2>1 DEF ThreadInv
    <3> QED BY <2>1, <3>1, <3>2 DEF Intervals
  <2> QED BY <1>1, <2>1, <2>5, <2>6
<1>7. CASE ThreadStarts
  <2>1. /\ thread = "new" /\ thread' = "asleep" /\ last_keepalive' = elapsed
        /\ UNCHANGED <<pc, elapsed, main, held, kept>>
    BY <1>7 DEF ThreadStarts, vars
  <2>2. Sends = kept /\ Sends' = kept
    BY <1>1, <2>1 DEF Sends
  <2>3. KeptApart'
    BY <1>1, <2>1 DEF ThreadInv, KeptApart
  <2>4. ASSUME main = "punching", kept > 0
        PROVE  pc = "connected" /\ 0 + (kept - 1) * KeepAliveInterval <= held
    <3>1. (kept - 1) * KeepAliveInterval \in Nat
      BY <1>1, <2>4, OneMore
    <3>2. \A z, h \in Nat : z <= h => 0 + z <= h
      OBVIOUS
    <3> QED BY <1>1, <2>4, <3>1, <3>2 DEF ThreadInv, KeptApart
  <2>5. elapsed' - last_keepalive' = 0
    BY <1>1, <2>1
  <2> QED BY <1>1, <2>1, <2>2, <2>3, <2>4, <2>5 DEF Intervals
<1>8. CASE UNCHANGED <<kept, held>> /\ main' # "punching"
  BY <1>1, <1>8 DEF ThreadInv, KeptApart
<1>9. CASE UNCHANGED clientVars
  BY <1>1, <1>9 DEF clientVars, vars, ThreadInv, Intervals, Sends, KeptApart
<1> QED
  BY <1>3, <1>4, <1>5, <1>6, <1>7, <1>8, <1>9
  DEF ClientNext, Main, Thread, Leave, ProcessEnds, Hear, ThreadAstray, Running, threadVars

LEMMA ThreadPart ==
  ASSUME ClientInv, [ClientNext]_clientVars
  PROVE  ThreadInv'
<1> USE DEF CtxLives
<1> DEFINE Rest == /\ main \in {"punching", "chat", "closing", "done", "crashed"}
                   /\ thread \in {"new", "asleep", "send", "stuck"}
                   /\ held \in 0 .. MaxHeld /\ is_connected \in {0, 1}
                   /\ last_keepalive \in 0 .. elapsed
                   /\ (main = "chat" \/ is_connected = 1 => pc = "connected")
                   /\ (thread = "send" \/ kept > 0 => pc = "connected")
<1>1. /\ elapsed \in Nat /\ elapsed \in 0 .. MaxElapsed /\ held \in Nat
      /\ last_keepalive \in Nat /\ MaxHeld \in Nat /\ kept \in Nat
      /\ ScanTypes /\ Rest
  BY ConstantFacts, DelaysAreNatural
  DEF ClientInv, ThreadInv, ScanInv, ScanTypes, TypeOK
<1>2. elapsed' \in Nat
  BY <1>1, ScanPart, ConstantFacts DEF ScanInv, ScanTypes, TypeOK
<1>3. CASE Scan \/ Answered
  <2>1. /\ Next /\ is_connected' \in {is_connected, 1}
        /\ pc' = "connected" \/ is_connected' = is_connected
        /\ UNCHANGED <<main, held, thread, last_keepalive, kept>>
    BY <1>3 DEF Scan, Punching, Answered, LookAck, Next, Look, threadVars
  <2>2. elapsed <= elapsed' /\ pc # "connected"
    BY <1>1, <2>1, ScanStep
  <2>3. thread # "send" /\ kept = 0 /\ is_connected = 0 /\ main # "chat"
    BY <1>1, <2>2
  <2>4. last_keepalive \in 0 .. elapsed'
    BY <1>1, <1>2, <2>2
  <2>5. Rest'
    BY <1>1, <2>1, <2>3, <2>4
  <2> QED BY <1>2, <2>5, KeepalivesPart DEF ThreadInv
<1>4. CASE HeldUp
  <2>1. /\ held' \in 0 .. MaxHeld /\ elapsed <= elapsed'
        /\ pc' = "connected"
        /\ UNCHANGED <<main, thread, is_connected, last_keepalive, kept>>
    BY <1>1, <1>4, PassFacts DEF HeldUp, threadVars
  <2>2. last_keepalive' \in 0 .. elapsed'
    BY <1>1, <1>2, <2>1
  <2>3. Rest'
    BY <1>1, <2>1, <2>2
  <2> QED BY <1>2, <2>3, KeepalivesPart DEF ThreadInv
<1>5. CASE \E from \in ReplyPorts : Hear(from)
  <2>1. Rest'
    BY <1>1, <1>5 DEF Hear, threadVars
  <2> QED BY <1>2, <2>1, KeepalivesPart DEF ThreadInv
<1>6. CASE Leave \/ ProcessEnds
  <2>1. Rest'
    BY <1>1, <1>6 DEF Leave, ProcessEnds, threadVars, vars
  <2> QED BY <1>2, <2>1, KeepalivesPart DEF ThreadInv
<1>7. CASE ThreadStarts \/ ThreadWakes \/ ThreadSends \/ ThreadAstray
  <2>1. Rest'
    BY <1>1, <1>7
    DEF ThreadStarts, ThreadWakes, KeepaliveDue, ThreadSends, ThreadAstray, vars
  <2> QED BY <1>2, <2>1, KeepalivesPart DEF ThreadInv
<1>8. CASE UNCHANGED clientVars
  <2>1. Rest'
    BY <1>1, <1>8 DEF clientVars, vars
  <2> QED BY <1>2, <2>1, KeepalivesPart DEF ThreadInv
<1> QED
  BY <1>3, <1>4, <1>5, <1>6, <1>7, <1>8 DEF ClientNext, Main, Thread

LEMMA ClientInvHolds == ClientSpec => []ClientInv
<1>1. ClientInit => ClientInv
  BY ScanInvInit, ConstantFacts, DelaysAreNatural
  DEF ClientInit, Init, ClientInv, ThreadInv, Sends, Intervals, KeptApart
<1>2. ClientInv /\ [ClientNext]_clientVars => ClientInv'
  BY ScanPart, ThreadPart DEF ClientInv
<1> QED BY <1>1, <1>2, PTL DEF ClientSpec

\* Once connected, only the scheduler has added to the time of the punching.
HeldSince ==
  RangeFits /\ pc = "connected" => elapsed + 1 < PunchTimeout + MaxPorts * Looks + held

LEMMA HeldSinceStep == ClientInv /\ HeldSince /\ [ClientNext]_clientVars => HeldSince'
<1> SUFFICES ASSUME ClientInv, HeldSince, [ClientNext]_clientVars, RangeFits', pc' = "connected"
             PROVE  elapsed' + 1 < PunchTimeout + MaxPorts * Looks + held'
  BY DEF HeldSince
<1>1. /\ elapsed \in Nat /\ held \in Nat /\ looks \in Nat /\ (pc = "look" => looks < Looks)
      /\ elapsed \in 0 .. MaxElapsed
  BY ConstantFacts DEF ClientInv, ThreadInv, ScanInv, ScanTypes, TypeOK
<1>2. MaxPorts * Looks \in Nat /\ PunchTimeout \in Nat /\ Looks \in Nat
  BY ConstantFacts
<1>3. CASE Answered
  <2>1. /\ pc = "look" /\ RangeFits /\ UNCHANGED <<elapsed, held>>
    BY <1>3 DEF Answered, LookAck, RangeFits
  <2>2. PICK k \in Nat : Asked(k)
    BY <2>1 DEF ClientInv, ScanInv
  <2>3. k < MaxPorts /\ elapsed < PunchTimeout + k * Looks + looks
    BY <2>1, <2>2 DEF Asked
  <2>4. k * Looks \in Nat /\ k * Looks + Looks <= MaxPorts * Looks
    <3>1. \A m, n \in Nat : m <= n => m * Looks <= n * Looks
      BY <1>2
    <3>2. k + 1 \in Nat /\ MaxPorts \in Nat /\ k + 1 <= MaxPorts
      BY <2>3, ConstantFacts
    <3>3. (k + 1) * Looks <= MaxPorts * Looks
      BY <3>1, <3>2
    <3>4. k * Looks \in Nat /\ (k + 1) * Looks = k * Looks + Looks
      BY <1>2
    <3> QED BY <3>3, <3>4
  <2>5. \A x, y, z, m, l, h \in Nat :
          x < y + z + l /\ l < Looks /\ z + Looks <= m => x + 1 < y + m + h
    BY <1>2
  <2>6. elapsed + 1 < PunchTimeout + MaxPorts * Looks + held
    BY <1>1, <1>2, <2>1, <2>3, <2>4, <2>5
  <2> QED BY <2>1, <2>6
<1>4. CASE HeldUp
  <2>1. /\ pc = "connected" /\ RangeFits /\ held' = held + 1
        /\ elapsed' <= elapsed + 1 /\ elapsed' \in Nat
    BY <1>1, <1>4, PassFacts, ConstantFacts DEF HeldUp, RangeFits
  <2>2. elapsed + 1 < PunchTimeout + MaxPorts * Looks + held
    BY <2>1 DEF HeldSince
  <2>3. \A x, y, w, h \in Nat : x + 1 < w + h /\ y <= x + 1 => y + 1 < w + (h + 1)
    OBVIOUS
  <2> QED BY <1>1, <1>2, <2>1, <2>2, <2>3
<1>5. CASE UNCHANGED <<pc, base_port, elapsed, held>>
  BY <1>5 DEF HeldSince, RangeFits
<1>6. ~Scan
  BY DEF Scan, Punching, Attempt, GiveUp, AskPort, RangeDone, LookNothing, LookReq,
         LookOther, NextLook, Pause
<1> QED
  BY <1>3, <1>4, <1>5, <1>6
  DEF ClientNext, Main, Thread, Leave, ProcessEnds, ThreadStarts, ThreadWakes, ThreadSends,
      ThreadAstray, Hear, clientVars, vars

\* With the thread beside it the scan is no later: what the scheduler takes after
\* the answer, before main leaves the function, fits into the pause that is saved.
THEOREM ClientLate ==
  ClientSpec => [](RangeFits /\ held <= PunchInterval + 1 => LateByOneAttempt)
<1> DEFINE Late == RangeFits /\ held <= PunchInterval + 1 => LateByOneAttempt
<1>1. ClientInit => HeldSince
  BY DEF ClientInit, Init, HeldSince
<1>2. ClientInv /\ HeldSince => Late
  <2> SUFFICES ASSUME ClientInv, HeldSince, RangeFits, held <= PunchInterval + 1
               PROVE  LateByOneAttempt
    OBVIOUS
  <2>1. CASE pc # "connected"
    BY <2>1, InTime DEF ClientInv
  <2>2. CASE pc = "connected"
    <3>1. elapsed + 1 < PunchTimeout + MaxPorts * Looks + held
      BY <2>2 DEF HeldSince
    <3>2. elapsed \in Nat /\ held \in Nat
      BY ConstantFacts DEF ClientInv, ThreadInv, ScanInv, ScanTypes, TypeOK
    <3> QED BY <3>1, <3>2, ConstantFacts DEF LateByOneAttempt
  <2> QED BY <2>1, <2>2
<1> HIDE DEF Late
<1>3. ClientSpec => []Late
  BY <1>1, <1>2, HeldSinceStep, ClientInvHolds, PTL DEF ClientSpec
<1> QED BY <1>3 DEF Late

\* Every variable of scan, thread and client stays within its range: the words of
\* the scan, the flag is_connected and the thread's own clock.
THEOREM ClientTypeCorrect == ClientSpec => []ClientTypeOK
<1>1. ClientInv => ClientTypeOK
  BY ConstantFacts DEF ClientInv, ScanInv, ScanTypes, TypeOK, ThreadInv, ClientTypeOK
<1> QED BY <1>1, ClientInvHolds, PTL

\* A finished attempt of perform_nat_punching has asked every port it means to ask, with
\* the thread beside it and whatever arrives, for every peer's port whose range does
\* not wrap round.
THEOREM EveryPortTried == ClientSpec => [](RangeFits => RangeTried)
<1>1. ClientInv => (RangeFits => RangeTried)
  BY DEF ClientInv, ScanInv, RangeTried
<1> QED BY <1>1, ClientInvHolds, PTL

\* The thread sends no keepalive before the peer's answer is read, although the
\* flag it looks at is written without the mutex and may never be written at all.
THEOREM NoKeepaliveBefore == ClientSpec => []KeepaliveConnected
<1>1. ClientInv => KeepaliveConnected
  BY DEF ClientInv, ThreadInv, KeepaliveConnected
<1> QED BY <1>1, ClientInvHolds, PTL

\* connection_maintenance_thread sends, out of a living ctx, one keepalive at most for
\* the answer and one for each interval main is then held up, whatever the interval
\* and however the two are interleaved.
THEOREM KeepalivesAreApart == ClientSpec => []KeptApart
<1>1. ClientInv => KeptApart
  BY DEF ClientInv, ThreadInv
<1> QED BY <1>1, ClientInvHolds, PTL
=============================================================================
