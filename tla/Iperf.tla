------------------------------- MODULE Iperf -------------------------------
(***************************************************************************)
(* The bandwidth test of test3/p2p_client.c: the client that sends for     *)
(* TEST_DURATION seconds, the server that counts what it receives, and the *)
(* report both print with print_stats.                                     *)
(*                                                                         *)
(* Time is in ticks.  The code compares whole seconds (tv_sec) but divides *)
(* by exact ones; a program may pause as long as MaxPause ticks anywhere   *)
(* it sleeps, waits or reads the clock again.                              *)
(***************************************************************************)
EXTENDS Integers

CONSTANTS
  TicksPerSecond,
  TestDuration,    \* TEST_DURATION
  ReportInterval,  \* REPORT_INTERVAL
  PacketSizes,     \* sizes of the datagrams a server may receive
  MaxPause,        \* bound: ticks that pass in one step
  MaxClock,        \* bound: a server's run, in ticks
  MaxPackets       \* bound: datagrams a server receives

ASSUME TimesArePositive ==
  /\ TicksPerSecond \in Nat \ {0}
  /\ TestDuration \in Nat \ {0}
  /\ ReportInterval \in Nat \ {0}
  /\ MaxPause \in Nat \ {0}
  /\ MaxClock \in Nat
  /\ MaxPackets \in Nat
ASSUME SizesArePositive == PacketSizes \subseteq Nat \ {0}

VARIABLES
  pc,           \* "client", "sleep", "last", "done", or "server"
  clock,        \* gettimeofday
  start_time,
  last_report,
  total_bytes,
  packet_id,    \* the next packet's number
  total_packets,
  counted,      \* history: bytes counted in all
  reported,     \* history: bytes in the reports printed so far
  reports,      \* history: reports printed so far
  span          \* history: from when to when the latest report covers

stats == <<start_time, last_report, total_bytes, total_packets>>
history == <<counted, reported, reports, span>>
vars == <<pc, clock, stats, packet_id, history>>

Sec(t) == t \div TicksPerSecond

\* init_test_stats, at any point of a second.
Init ==
  /\ pc \in {"client", "server"}
  /\ clock \in 0 .. TicksPerSecond - 1
  /\ start_time = clock /\ last_report = clock
  /\ total_bytes = 0 /\ total_packets = 0 /\ packet_id = 0
  /\ counted = 0 /\ reported = 0 /\ reports = 0 /\ span = <<>>

\* Fault: the count is not reset.
PrintStatsOn(b, t) ==
  /\ total_bytes' = b
  /\ last_report' = t
  /\ reported' = reported + b
  /\ reports' = reports + 1
  /\ span' = <<last_report, t>>

\* print_stats at t, when the bytes since the last report are b.
PrintStats(b, t) ==
  /\ total_bytes' = 0
  /\ last_report' = t
  /\ reported' = reported + b
  /\ reports' = reports + 1
  /\ span' = <<last_report, t>>

\* Fault: a report at every datagram.
ReportAlways(t) == Sec(t) >= Sec(last_report)

\* Fault: the interval is counted from the start, not from the last report.
ReportSinceStart(t) == Sec(t) >= Sec(start_time) + ReportInterval

ReportDue(t) == Sec(t) >= Sec(last_report) + ReportInterval

\* A datagram of n bytes went out or came in.
Count(n) ==
  /\ total_packets' = total_packets + 1
  /\ counted' = counted + n
  /\ IF ReportDue(clock)
     THEN PrintStats(total_bytes + n, clock)
     ELSE /\ total_bytes' = total_bytes + n
          /\ UNCHANGED <<last_report, reported, reports, span>>
  /\ UNCHANGED start_time

-----------------------------------------------------------------------------
\* run_iperf_client.

\* Fault: off by one.
TimeIsUpEarly == Sec(clock) + 1 >= Sec(start_time) + TestDuration

TimeIsUp == Sec(clock) >= Sec(start_time) + TestDuration

\* Fault: the -1 of a refused packet is counted.
ClientSendUnchecked ==
  /\ pc = "client"
  /\ ~TimeIsUp
  /\ packet_id' = packet_id + 1
  /\ \E n \in PacketSizes \union {-1} : Count(n)
  /\ pc' = "sleep"
  /\ UNCHANGED clock

\* The socket is non-blocking, so a packet may be refused; its number is used.
ClientSend ==
  /\ pc = "client"
  /\ ~TimeIsUp
  /\ packet_id' = packet_id + 1
  /\ \/ \E n \in PacketSizes : Count(n)
     \/ UNCHANGED <<stats, history>>
  /\ pc' = "sleep"
  /\ UNCHANGED clock

ClientSleep ==
  /\ pc = "sleep"
  /\ \E d \in 1 .. MaxPause : clock' = clock + d
  /\ pc' = "client"
  /\ UNCHANGED <<stats, packet_id, history>>

\* Fault: the loop is left only when nothing is left to report.
ClientBreakReported ==
  /\ pc = "client"
  /\ TimeIsUp /\ total_bytes = 0
  /\ pc' = "last"
  /\ UNCHANGED <<clock, stats, packet_id, history>>

ClientBreak ==
  /\ pc = "client"
  /\ TimeIsUp
  /\ pc' = "last"
  /\ UNCHANGED <<clock, stats, packet_id, history>>

\* The clock is read again for the last report.
FinalReport ==
  /\ pc = "last"
  /\ \E d \in 0 .. MaxPause : clock' = clock + d
  /\ PrintStats(total_bytes, clock')
  /\ pc' = "done"
  /\ UNCHANGED <<start_time, total_packets, packet_id, counted>>

-----------------------------------------------------------------------------
\* run_iperf_server: it counts whatever arrives and reports when something does.

ServerRecv ==
  /\ pc = "server"
  /\ total_packets < MaxPackets
  /\ \E n \in PacketSizes : Count(n)
  /\ UNCHANGED <<pc, clock, packet_id>>

ServerWait ==
  /\ pc = "server"
  /\ clock < MaxClock
  /\ \E d \in 1 .. MaxPause : clock' = clock + d
  /\ UNCHANGED <<pc, stats, packet_id, history>>

Next == \/ ClientSend \/ ClientSleep \/ ClientBreak \/ FinalReport
        \/ ServerRecv \/ ServerWait

Spec == Init /\ [][Next]_vars

LiveSpec == Spec /\ WF_vars(ClientSend) /\ WF_vars(ClientSleep)
                 /\ WF_vars(ClientBreak) /\ WF_vars(FinalReport)

-----------------------------------------------------------------------------
\* Where the test is, times and counts that never go below zero.
TypeOK ==
  /\ pc \in {"client", "sleep", "last", "done", "server"}
  /\ {clock, start_time, last_report} \subseteq Nat
  /\ {total_bytes, total_packets, packet_id, counted, reported, reports} \subseteq Nat
  /\ span \in {<<>>} \union (Nat \X Nat)

\* print_stats divides by the time since the last report: every report covers a
\* positive time, the last one of a test too, however the clock falls.
NoZeroDivision == span # <<>> => span[1] < span[2]

\* Every byte counted is in exactly one report or in the running total, and a
\* test that has ended has reported them all.
BytesConserved ==
  /\ counted = reported + total_bytes
  /\ pc = "done" => total_bytes = 0

\* "REPORT_INTERVAL": two reports may be a fraction of a second apart, since only
\* whole seconds are compared, but there are never more of them than intervals
\* have passed, however datagrams and pauses fall.  A test's last report is one
\* more: those before it fit into TEST_DURATION.
OneAnInterval ==
  IF pc = "done"
  THEN (reports - 1) * ReportInterval < TestDuration
  ELSE reports * ReportInterval <= Sec(clock) - Sec(start_time)

\* Whole seconds are compared, so a test may fall short of "Default test duration
\* (seconds)", but by less than a second.
AlmostFullTest ==
  pc = "done" => clock - start_time > (TestDuration - 1) * TicksPerSecond

\* A client's test ends.
TestEnds == pc = "client" ~> pc = "done"

\* Why NoZeroDivision holds: a report is never dated in the future, and a test
\* that is over has last reported in a second when it was not.
LastReportBefore ==
  /\ start_time <= last_report /\ last_report <= clock
  /\ pc \in {"client", "sleep", "last"} =>
       Sec(last_report) < Sec(start_time) + TestDuration
  /\ pc = "last" => TimeIsUp

=============================================================================
