---------------------------- MODULE IperfProofs ----------------------------
(***************************************************************************)
(* The reports of a bandwidth test, for every resolution of the clock,     *)
(* duration, report interval and length of the pauses.                     *)
(***************************************************************************)
EXTENDS Iperf, TLAPS

\* Seconds are read off the clock in order.
LEMMA SecFacts ==
  ASSUME NEW t \in Nat
  PROVE  /\ Sec(t) \in Nat
         /\ Sec(t) * TicksPerSecond <= t
         /\ t < (Sec(t) + 1) * TicksPerSecond
<1>1. TicksPerSecond \in Nat /\ TicksPerSecond > 0
  BY TimesArePositive
<1> QED BY <1>1 DEF Sec

LEMMA SecMonotone ==
  ASSUME NEW s \in Nat, NEW t \in Nat, Sec(s) < Sec(t)
  PROVE  s < t
<1>1. TicksPerSecond \in Nat /\ TicksPerSecond > 0
  BY TimesArePositive
<1>2. (Sec(s) + 1) * TicksPerSecond <= Sec(t) * TicksPerSecond
  <2>1. /\ Sec(s) \in Nat /\ Sec(t) \in Nat /\ Sec(s) + 1 <= Sec(t)
    BY SecFacts
  <2>2. \A a, b \in Nat : a <= b => a * TicksPerSecond <= b * TicksPerSecond
    BY <1>1
  <2> QED BY <2>1, <2>2
<1>3. /\ s < (Sec(s) + 1) * TicksPerSecond
      /\ Sec(t) * TicksPerSecond <= t
      /\ (Sec(s) + 1) * TicksPerSecond \in Nat
      /\ Sec(t) * TicksPerSecond \in Nat
  BY <1>1, SecFacts
<1> QED BY <1>2, <1>3

-----------------------------------------------------------------------------
Clocks ==
  /\ pc \in {"client", "sleep", "last", "done", "server"}
  /\ clock \in Nat /\ start_time \in Nat /\ last_report \in Nat
  /\ span = <<>> \/ span \in Nat \X Nat

Inv == Clocks /\ LastReportBefore /\ NoZeroDivision

LEMMA InvInit == Init => Inv
<1> SUFFICES ASSUME Init
             PROVE  Inv
  OBVIOUS
<1>1. /\ TicksPerSecond \in Nat /\ TestDuration \in Nat /\ TestDuration > 0
  BY TimesArePositive
<1>2. clock \in Nat /\ start_time = clock /\ last_report = clock /\ span = <<>>
      /\ pc \in {"client", "server"}
  BY <1>1 DEF Init
<1>3. Sec(start_time) \in Nat
  BY <1>2, SecFacts
<1> QED BY <1>1, <1>2, <1>3 DEF Inv, Clocks, LastReportBefore, NoZeroDivision

\* A periodic report is in a later second than the one before it.
LEMMA CountKeepsInv ==
  ASSUME Inv, NEW n, Count(n), UNCHANGED clock, ~TimeIsUp \/ pc = "server"
  PROVE  /\ last_report' \in Nat /\ start_time' = start_time
         /\ span' = <<>> \/ span' \in Nat \X Nat
         /\ last_report' \in {last_report, clock}
         /\ start_time' <= last_report' /\ last_report' <= clock'
         /\ NoZeroDivision'
         /\ pc # "server" => Sec(last_report') < Sec(start_time) + TestDuration
<1> USE DEF Inv, Clocks, LastReportBefore
<1>1. /\ Sec(clock) \in Nat /\ Sec(last_report) \in Nat /\ Sec(start_time) \in Nat
      /\ ReportInterval \in Nat /\ ReportInterval > 0 /\ TestDuration \in Nat
  BY SecFacts, TimesArePositive
<1>2. pc # "server" => Sec(clock) < Sec(start_time) + TestDuration
  BY <1>1 DEF TimeIsUp
<1>3. CASE ReportDue(clock)
  <2>1. last_report' = clock /\ span' = <<last_report, clock>> /\ start_time' = start_time
    BY <1>3 DEF Count, PrintStats
  <2>2. last_report < clock
    BY <1>1, <1>3, SecMonotone DEF ReportDue
  <2> QED BY <1>2, <2>1, <2>2 DEF NoZeroDivision
<1>4. CASE ~ReportDue(clock)
  <2>1. UNCHANGED <<last_report, span, start_time>>
    BY <1>4 DEF Count
  <2>2. pc # "server" /\ ~TimeIsUp => Sec(last_report) < Sec(start_time) + TestDuration
    <3>1. ~(Sec(clock) < Sec(last_report))
      BY <1>1, SecMonotone
    <3> QED BY <1>1, <1>2, <3>1
  <2> QED BY <2>1, <2>2 DEF NoZeroDivision
<1> QED BY <1>3, <1>4

LEMMA InvStep == Inv /\ [Next]_vars => Inv'
<1> SUFFICES ASSUME Inv, [Next]_vars
             PROVE  Inv'
  OBVIOUS
<1>1. CASE ClientSend
  <2>1. pc = "client" /\ pc' = "sleep" /\ ~TimeIsUp /\ clock' = clock
    BY <1>1 DEF ClientSend
  <2>2. CASE UNCHANGED <<stats, history>>
    BY <2>1, <2>2
    DEF stats, history, Inv, Clocks, LastReportBefore, NoZeroDivision
  <2>3. ASSUME NEW n, Count(n)
        PROVE  Inv'
    <3>1. Sec(last_report') < Sec(start_time') + TestDuration
      BY <2>1, <2>3, CountKeepsInv
    <3> QED BY <2>1, <2>3, <3>1, CountKeepsInv DEF Inv, Clocks, LastReportBefore, Sec
  <2> QED BY <1>1, <2>2, <2>3 DEF ClientSend
<1>2. CASE ClientSleep \/ ServerWait
  <2>1. PICK d \in 1 .. MaxPause : clock' = clock + d
    BY <1>2 DEF ClientSleep, ServerWait
  <2>2. clock' \in Nat /\ clock <= clock'
    BY <2>1, TimesArePositive DEF Inv, Clocks
  <2>3. UNCHANGED <<start_time, last_report, span>>
    BY <1>2 DEF ClientSleep, ServerWait, stats, history
  <2>a. (pc = "sleep" /\ pc' = "client") \/ (pc = "server" /\ pc' = "server")
    BY <1>2 DEF ClientSleep, ServerWait
  <2>4. last_report <= clock'
    BY <2>2 DEF Inv, Clocks, LastReportBefore
  <2> QED BY <2>2, <2>3, <2>a, <2>4 DEF Inv, Clocks, LastReportBefore, NoZeroDivision, Sec
<1>3. CASE ClientBreak
  BY <1>3 DEF ClientBreak, stats, history, Inv, Clocks, LastReportBefore,
              NoZeroDivision, TimeIsUp, Sec
<1>4. CASE FinalReport
  <2>1. PICK d \in 0 .. MaxPause : clock' = clock + d
    BY <1>4 DEF FinalReport
  <2>2. clock' \in Nat /\ clock <= clock'
    BY <2>1, TimesArePositive DEF Inv, Clocks
  <2>3. /\ pc = "last" /\ pc' = "done" /\ start_time' = start_time
        /\ last_report' = clock' /\ span' = <<last_report, clock'>>
    BY <1>4 DEF FinalReport, PrintStats
  <2>4. last_report < clock
    <3>1. /\ Sec(clock) \in Nat /\ Sec(last_report) \in Nat /\ Sec(start_time) \in Nat
          /\ TestDuration \in Nat
      BY SecFacts, TimesArePositive DEF Inv, Clocks
    <3>2. Sec(last_report) < Sec(clock)
      BY <2>3, <3>1 DEF Inv, LastReportBefore, TimeIsUp
    <3> QED BY <3>2, SecMonotone DEF Inv, Clocks
  <2>5. last_report \in Nat /\ start_time \in Nat /\ clock \in Nat
        /\ start_time <= last_report
    BY DEF Inv, Clocks, LastReportBefore
  <2> QED BY <2>2, <2>3, <2>4, <2>5 DEF Inv, Clocks, LastReportBefore, NoZeroDivision
<1>5. CASE ServerRecv
  <2>1. PICK n \in PacketSizes : Count(n)
    BY <1>5 DEF ServerRecv
  <2>2. pc = "server" /\ pc' = "server" /\ clock' = clock
    BY <1>5 DEF ServerRecv
  <2> QED BY <2>1, <2>2, CountKeepsInv DEF Inv, Clocks, LastReportBefore
<1>6. CASE UNCHANGED vars
  BY <1>6 DEF vars, stats, history, Inv, Clocks, LastReportBefore, NoZeroDivision,
              TimeIsUp, Sec
<1> QED BY <1>1, <1>2, <1>3, <1>4, <1>5, <1>6 DEF Next

\* Whatever the parameters and the pauses, print_stats never divides by zero.
THEOREM ReportsCoverTime == Spec => []NoZeroDivision
<1>1. Inv => NoZeroDivision
  BY DEF Inv
<1> QED BY <1>1, InvInit, InvStep, PTL DEF Spec

-----------------------------------------------------------------------------
\* Bytes.

Bytes ==
  /\ {total_bytes, counted, reported} \subseteq Nat
  /\ BytesConserved
  /\ pc \in {"client", "sleep", "last", "done", "server"}

LEMMA CountBytes ==
  ASSUME Bytes, NEW n \in PacketSizes, Count(n)
  PROVE  /\ {total_bytes', counted', reported'} \subseteq Nat
         /\ counted' = reported' + total_bytes'
<1>1. n \in Nat
  BY SizesArePositive
<1> QED BY <1>1 DEF Bytes, BytesConserved, Count, PrintStats

LEMMA BytesStep == Bytes /\ [Next]_vars => Bytes'
<1> SUFFICES ASSUME Bytes, [Next]_vars
             PROVE  Bytes'
  OBVIOUS
<1>1. ASSUME NEW n \in PacketSizes, Count(n), ClientSend \/ ServerRecv
      PROVE  Bytes'
  BY <1>1, CountBytes DEF ClientSend, ServerRecv, Bytes, BytesConserved
<1>2. CASE ClientSend
  BY <1>1, <1>2 DEF ClientSend, stats, history, Bytes, BytesConserved
<1>3. CASE ServerRecv
  BY <1>1, <1>3 DEF ServerRecv
<1>4. CASE ClientSleep \/ ClientBreak \/ ServerWait
  BY <1>4 DEF ClientSleep, ClientBreak, ServerWait, stats, history, Bytes,
              BytesConserved
<1>5. CASE FinalReport
  BY <1>5 DEF FinalReport, PrintStats, Bytes, BytesConserved
<1>6. CASE UNCHANGED vars
  BY <1>6 DEF vars, stats, history, Bytes, BytesConserved
<1> QED BY <1>2, <1>3, <1>4, <1>5, <1>6 DEF Next

\* No byte is counted twice or dropped between the reports.
THEOREM BytesAreConserved == Spec => []BytesConserved
<1>1. Init => Bytes
  BY DEF Init, Bytes, BytesConserved
<1>2. Bytes => BytesConserved
  BY DEF Bytes
<1> QED BY <1>1, <1>2, BytesStep, PTL DEF Spec

\* The counters, the clocks and the history of a test never go below zero: only
\* packets that were sent are counted, and no step takes a byte or a second away.
THEOREM TestTypeCorrect == Spec => []TypeOK
<1> DEFINE Counts == {total_packets, packet_id, reports} \subseteq Nat
<1>1. Init => Counts /\ Bytes /\ Inv
  BY InvInit, TimesArePositive DEF Init, Bytes, BytesConserved
<1>2. Counts /\ Inv /\ [Next]_vars => Counts'
  <2> SUFFICES ASSUME Counts, clock \in Nat, [Next]_vars
               PROVE  Counts'
    BY DEF Inv, Clocks
  <2> QED
    BY DEF Next, ClientSend, ClientSleep, ClientBreak, FinalReport, ServerRecv, ServerWait,
           Count, PrintStats, stats, history, vars
<1>3. Counts /\ Bytes /\ Inv => TypeOK
  BY DEF Bytes, Inv, Clocks, TypeOK
<1> HIDE DEF Counts
<1> QED BY <1>1, <1>2, <1>3, InvStep, BytesStep, PTL DEF Spec

-----------------------------------------------------------------------------
\* Seconds.

\* Why OneAnInterval holds: the reports printed so far fit into the time up to the
\* last of them.
Paced ==
  /\ reports \in Nat
  /\ IF pc = "done"
     THEN (reports - 1) * ReportInterval < TestDuration
     ELSE reports * ReportInterval <= Sec(last_report) - Sec(start_time)

\* A report is due when a whole interval of seconds has begun since the last one.
LEMMA CountPaced ==
  ASSUME Inv, Paced, pc # "done", NEW n, Count(n)
  PROVE  /\ reports' \in Nat
         /\ reports' * ReportInterval <= Sec(last_report') - Sec(start_time')
<1>1. /\ Sec(clock) \in Nat /\ Sec(last_report) \in Nat /\ Sec(start_time) \in Nat
      /\ ReportInterval \in Nat
  BY SecFacts, TimesArePositive DEF Inv, Clocks
<1>2. start_time' = start_time /\ Sec(start_time') = Sec(start_time)
  BY DEF Count, Sec
<1>3. CASE ReportDue(clock)
  <2>1. reports' = reports + 1 /\ last_report' = clock
    BY <1>3 DEF Count, PrintStats
  <2>2. \A r \in Nat : (r + 1) * ReportInterval = r * ReportInterval + ReportInterval
    BY <1>1
  <2>3. reports' * ReportInterval = reports * ReportInterval + ReportInterval
    BY <2>1, <2>2 DEF Paced
  <2>4. reports * ReportInterval \in Nat
    BY <1>1 DEF Paced
  <2>5. Sec(clock) >= Sec(last_report) + ReportInterval
    BY <1>3 DEF ReportDue
  <2>6. reports * ReportInterval <= Sec(last_report) - Sec(start_time)
    BY DEF Paced
  <2>7. reports' * ReportInterval <= Sec(clock) - Sec(start_time)
    BY <1>1, <2>3, <2>4, <2>5, <2>6
  <2>8. Sec(last_report') = Sec(clock)
    BY <2>1
  <2> QED BY <1>2, <2>1, <2>7, <2>8 DEF Paced
<1>4. CASE ~ReportDue(clock)
  BY <1>4 DEF Count, Paced, Sec
<1> QED BY <1>3, <1>4

LEMMA PacedStep == Inv /\ Paced /\ [Next]_vars => Paced'
<1> SUFFICES ASSUME Inv, Paced, [Next]_vars
             PROVE  Paced'
  OBVIOUS
<1>1. ASSUME NEW n, Count(n), ClientSend \/ ServerRecv
      PROVE  Paced'
  <2>1. pc # "done" /\ pc' # "done"
    BY <1>1 DEF ClientSend, ServerRecv
  <2> QED BY <1>1, <2>1, CountPaced DEF Paced
<1>2. CASE UNCHANGED <<stats, history>> /\ (pc' = "done" <=> pc = "done")
  BY <1>2 DEF stats, history, Paced, Sec
<1>3. CASE FinalReport
  <2>1. pc = "last" /\ pc' = "done" /\ reports' = reports + 1
    BY <1>3 DEF FinalReport, PrintStats
  <2>2. reports * ReportInterval < TestDuration
    <3>1. /\ Sec(last_report) \in Nat /\ Sec(start_time) \in Nat /\ TestDuration \in Nat
          /\ reports * ReportInterval \in Nat
      BY SecFacts, TimesArePositive DEF Inv, Clocks, Paced
    <3>2. Sec(last_report) < Sec(start_time) + TestDuration
      BY <2>1 DEF Inv, LastReportBefore
    <3> QED BY <2>1, <3>1, <3>2 DEF Paced
  <2>3. reports \in Nat /\ reports' - 1 = reports
    BY <2>1 DEF Paced
  <2> QED BY <2>1, <2>2, <2>3 DEF Paced
<1> QED
  BY <1>1, <1>2, <1>3
  DEF Next, ClientSend, ClientSleep, ClientBreak, ServerRecv, ServerWait, vars

\* For every interval and duration: a test, or a server, prints at most one report
\* an interval and its last one, however datagrams and pauses fall.
THEOREM ReportsArePaced == Spec => []OneAnInterval
<1>1. Init => Paced
  <2> SUFFICES ASSUME Init
               PROVE  Paced
    OBVIOUS
  <2>1. clock \in Nat /\ start_time = clock /\ last_report = clock /\ reports = 0
        /\ pc # "done"
    BY TimesArePositive DEF Init
  <2>2. Sec(start_time) \in Nat
    BY <2>1, SecFacts
  <2> QED BY <2>1, <2>2, TimesArePositive DEF Paced
<1>2. Inv /\ Paced => OneAnInterval
  <2> SUFFICES ASSUME Inv, Paced, pc # "done"
               PROVE  reports * ReportInterval <= Sec(clock) - Sec(start_time)
    BY DEF OneAnInterval, Paced
  <2>1. /\ Sec(clock) \in Nat /\ Sec(last_report) \in Nat /\ Sec(start_time) \in Nat
        /\ reports * ReportInterval \in Nat
    <3>1. \A r \in Nat : r * ReportInterval \in Nat
      BY TimesArePositive
    <3>2. reports \in Nat
      BY DEF Paced
    <3> QED BY <3>1, <3>2, SecFacts DEF Inv, Clocks
  <2>2. ~(Sec(clock) < Sec(last_report))
    BY SecMonotone DEF Inv, Clocks, LastReportBefore
  <2> QED BY <2>1, <2>2 DEF Paced
<1> QED BY <1>1, <1>2, InvInit, InvStep, PacedStep, PTL DEF Spec

\* A client's test lasts TEST_DURATION but for less than a second, whatever part of
\* a second it begins in and however long the pauses are.
THEOREM FullTest == Spec => []AlmostFullTest
<1>1. Init => AlmostFullTest
  BY DEF Init, AlmostFullTest
<1>2. Inv /\ AlmostFullTest /\ [Next]_vars => AlmostFullTest'
  <2> SUFFICES ASSUME Inv, AlmostFullTest, [Next]_vars, pc' = "done"
               PROVE  clock' - start_time' > (TestDuration - 1) * TicksPerSecond
    BY DEF AlmostFullTest
  <2>1. CASE FinalReport
    <3>1. PICK d \in 0 .. MaxPause : clock' = clock + d
      BY <2>1 DEF FinalReport
    <3>2. /\ clock \in Nat /\ clock' \in Nat /\ clock <= clock' /\ start_time \in Nat
          /\ TimeIsUp /\ start_time' = start_time
      BY <2>1, <3>1, TimesArePositive DEF FinalReport, Inv, Clocks, LastReportBefore
    <3>3. \A s, c, n \in Nat : c >= s + n =>
            c * TicksPerSecond >= (s + 1) * TicksPerSecond + (n - 1) * TicksPerSecond
      BY TimesArePositive
    <3>4. /\ Sec(clock) \in Nat /\ Sec(start_time) \in Nat /\ TestDuration \in Nat
          /\ Sec(clock) * TicksPerSecond <= clock
          /\ start_time < (Sec(start_time) + 1) * TicksPerSecond
      BY <3>2, SecFacts, TimesArePositive
    <3>5. Sec(clock) * TicksPerSecond
            >= (Sec(start_time) + 1) * TicksPerSecond + (TestDuration - 1) * TicksPerSecond
      BY <3>2, <3>3, <3>4 DEF TimeIsUp
    <3>6. /\ Sec(clock) * TicksPerSecond \in Int
          /\ (Sec(start_time) + 1) * TicksPerSecond \in Int
          /\ (TestDuration - 1) * TicksPerSecond \in Int
      BY <3>4, TimesArePositive
    <3>7. \A w, x, y, z, u, v \in Int :
            w <= x /\ x <= y /\ z < u /\ w >= u + v => y - z > v
      OBVIOUS
    <3>8. clock' - start_time > (TestDuration - 1) * TicksPerSecond
      BY <3>2, <3>4, <3>5, <3>6, <3>7
    <3> QED BY <3>2, <3>8
  <2>2. CASE pc = "done"
    <3>1. UNCHANGED <<clock, start_time>>
      BY <2>2
      DEF Next, ClientSend, ClientSleep, ClientBreak, FinalReport, ServerRecv, ServerWait,
          vars, stats
    <3> QED BY <2>2, <3>1 DEF AlmostFullTest
  <2> QED
    BY <2>1, <2>2
    DEF Next, ClientSend, ClientSleep, ClientBreak, ServerRecv, ServerWait, vars
<1> QED BY <1>1, <1>2, InvInit, InvStep, PTL DEF Spec
=============================================================================
