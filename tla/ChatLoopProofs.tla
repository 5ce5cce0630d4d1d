-------------------------- MODULE ChatLoopProofs --------------------------
(***************************************************************************)
(* The keepalive of the chat loop and the lines it sends, for every        *)
(* interval, test duration and history of input, datagrams and failed      *)
(* receives.                                                               *)
(***************************************************************************)
EXTENDS ChatLoop, SequenceTheorems, TLAPS

Clocks == /\ pc \in Label
          /\ now \in Nat /\ current_time \in Nat /\ last_activity \in Nat
          /\ last_traffic \in Nat /\ deadline \in Nat /\ skipped \in Nat

Inv == Clocks /\ CheckedInTime

LEMMA InvInit == Init => Inv
<1>1. KeepaliveInterval \in Nat /\ KeepaliveInterval > 1
  BY TimesAreSeconds
<1>2. ASSUME Init
      PROVE  /\ pc = "select" /\ now = 0 /\ current_time = 0 /\ last_activity = 0
             /\ deadline = 1 /\ last_traffic = 0 /\ skipped = 0
  BY <1>2 DEF Init
<1> QED BY <1>1, <1>2 DEF Inv, Clocks, CheckedInTime, Label

\* The user, the peer and a test server touch no clock.
LEMMA InputKeepsInv ==
  ASSUME Inv,
         \/ CloseInput \/ ServerRecv
         \/ \E line \in Line : Type(line)
         \/ \E d \in Arrival : Receive(d)
  PROVE  Inv'
<1>1. UNCHANGED <<loopVars, now, pathVars>>
  BY DEF CloseInput, ServerRecv, Type, Receive
<1> QED BY <1>1 DEF loopVars, pathVars, Inv, Clocks, CheckedInTime

LEMMA InvStep == Inv /\ [Next]_vars => Inv'
<1> SUFFICES ASSUME Inv, [Next]_vars
             PROVE  Inv'
  OBVIOUS
<1>a. /\ KeepaliveInterval \in Nat /\ KeepaliveInterval > 1
      /\ TestDuration \in Nat /\ TestDuration > 0
  BY TimesAreSeconds
<1> USE <1>a DEF Inv, Clocks, CheckedInTime, Label
<1>1. CASE SelectReturns
  BY <1>1 DEF SelectReturns, pathVars
<1>2. CASE SelectFails
  BY <1>2 DEF SelectFails, pathVars
<1>3. CASE NoInput
  BY <1>3 DEF NoInput, pathVars
<1>4. CASE ReadLine
  <2>1. UNCHANGED <<now, current_time>> /\ pc = "stdin"
    BY <1>4 DEF ReadLine
  <2>2. \/ /\ pc' \in {"server", "done"}
           /\ UNCHANGED <<last_activity, deadline, last_traffic, skipped>>
        \/ /\ pc' = "client" /\ deadline' = now + TestDuration
           /\ UNCHANGED <<last_activity, last_traffic, skipped>>
        \/ /\ pc' = "sock" /\ Touch /\ last_activity' = current_time
           /\ UNCHANGED <<deadline, skipped>>
    BY <1>4 DEF ReadLine, Send, pathVars
  <2>3. UNCHANGED peer_addr
    BY <1>4 DEF ReadLine
  <2> QED BY <2>1, <2>2, <2>3 DEF Touch
<1>5. CASE ClientSend
  BY <1>5 DEF ClientSend, Touch, loopVars
<1>6. CASE ClientEnds
  BY <1>6 DEF ClientEnds, pathVars
<1>7. CASE NoDatagram
  BY <1>7 DEF NoDatagram, pathVars
<1>8. CASE RecvError
  <2>1. /\ pc = "sock" /\ pc' = "select"
        /\ deadline' = now + 1 /\ skipped' = skipped + 1
        /\ UNCHANGED <<now, current_time, last_activity, last_traffic, peer_addr>>
    BY <1>8 DEF RecvError, Loop
  <2> QED BY <2>1
<1>9. CASE RecvDatagram
  <2>1. PICK text \in Incoming, from \in Host :
          /\ peer_addr' = from
          /\ last_activity' = IF text # "KEEPALIVE" THEN current_time ELSE last_activity
          /\ last_traffic' = IF from = "peer" THEN now ELSE last_traffic
    BY <1>9 DEF RecvDatagram, IsActivity
  <2>2. /\ pc = "sock" /\ pc' = "check"
        /\ UNCHANGED <<now, current_time, deadline, skipped>>
    BY <1>9 DEF RecvDatagram
  <2> QED BY <2>1, <2>2
<1>10. CASE SendKeepalive
  BY <1>10 DEF SendKeepalive, Touch, Loop
<1>11. CASE NoKeepalive
  BY <1>11 DEF NoKeepalive, KeepaliveDue, Loop
<1>12. CASE Tick
  BY <1>12 DEF Tick, loopVars, pathVars
<1>13. CASE UNCHANGED vars
  BY <1>13 DEF vars, loopVars, pathVars
<1> QED
  BY <1>1, <1>2, <1>3, <1>4, <1>5, <1>6, <1>7, <1>8, <1>9, <1>10, <1>11, <1>12,
     <1>13, InputKeepsInv
  DEF Next, Program, Stdin, Sock, Check, Test

\* Outside the server mode the path is never silent for longer than the interval
\* and a second for each keepalive check that a failed receive has skipped.
THEOREM PathStaysWarm == Spec => []PathKeptWarm
<1>1. Inv => PathKeptWarm
  BY TimesAreSeconds DEF Inv, Clocks, CheckedInTime, PathKeptWarm, Label
<1> QED BY <1>1, InvInit, InvStep, PTL DEF Spec

-----------------------------------------------------------------------------
\* The lines read.

\* Lines that fgets has returned.
Consumed == Len(script) - Len(stdio) - Len(typed)

Lines ==
  /\ typed \in Seq(Line) /\ stdio \in Seq(Line) /\ script \in Seq(Line)
  /\ Len(stdio) + Len(typed) <= Len(script) /\ Len(script) <= MaxTyped

\* What has not been returned is the rest of what was typed.
Unread ==
  /\ \A n \in DOMAIN stdio : stdio[n] = script[Consumed + n]
  /\ \A n \in DOMAIN typed : typed[n] = script[Consumed + Len(stdio) + n]

LEMMA LinesFacts ==
  ASSUME Lines
  PROVE  /\ Len(typed) \in Nat /\ Len(stdio) \in Nat /\ Len(script) \in Nat
         /\ Consumed \in Nat
         /\ Consumed + Len(stdio) + Len(typed) = Len(script)
         /\ DOMAIN typed = 1 .. Len(typed) /\ DOMAIN stdio = 1 .. Len(stdio)
         /\ DOMAIN script = 1 .. Len(script)
<1>1. /\ Len(typed) \in Nat /\ Len(stdio) \in Nat /\ Len(script) \in Nat
      /\ DOMAIN typed = 1 .. Len(typed) /\ DOMAIN stdio = 1 .. Len(stdio)
      /\ DOMAIN script = 1 .. Len(script)
  BY LenProperties DEF Lines
<1> QED BY <1>1 DEF Lines, Consumed

LEMMA NoEmptyLine == "" \notin Line
BY CommandsAreKnown, ChatterIsChat DEF Line, AllCommands

\* fgets leaves the lines alone at the end of input, and otherwise returns the
\* next of them.
LEMMA FgetsFacts ==
  ASSUME Lines, Fgets, UNCHANGED script
  PROVE  \/ buffer' = "" /\ UNCHANGED <<stdio, typed>>
         \/ /\ buffer' \in Line /\ Lines' /\ Consumed' = Consumed + 1
            /\ Consumed + 1 <= Len(script)
            /\ Unread => Unread' /\ buffer' = script[Consumed + 1]
<1>1. /\ Len(typed) \in Nat /\ Len(stdio) \in Nat /\ Len(script) \in Nat
      /\ Consumed \in Nat /\ Consumed + Len(stdio) + Len(typed) = Len(script)
      /\ DOMAIN typed = 1 .. Len(typed) /\ DOMAIN stdio = 1 .. Len(stdio)
      /\ typed \in Seq(Line) /\ stdio \in Seq(Line) /\ script \in Seq(Line)
      /\ Len(script) <= MaxTyped
  BY LinesFacts DEF Lines
<1>2. CASE stdio # <<>>
  <2>1. /\ buffer' = Head(stdio) /\ stdio' = Tail(stdio) /\ typed' = typed
    BY <1>2 DEF Fgets
  <2>2. /\ Head(stdio) \in Line /\ Head(stdio) = stdio[1] /\ Tail(stdio) \in Seq(Line)
        /\ Len(stdio) >= 1 /\ Len(Tail(stdio)) = Len(stdio) - 1
        /\ DOMAIN Tail(stdio) = 1 .. Len(stdio) - 1
        /\ \A n \in 1 .. Len(stdio) - 1 : Tail(stdio)[n] = stdio[n + 1]
    BY <1>1, <1>2, HeadTailProperties, EmptySeq, LenProperties
  <2>3. /\ stdio' \in Seq(Line) /\ Len(stdio') = Len(stdio) - 1 /\ Len(typed') = Len(typed)
    BY <2>1, <2>2
  <2>4. Lines' /\ Consumed' = Consumed + 1 /\ Consumed + 1 <= Len(script)
    BY <1>1, <2>1, <2>2, <2>3 DEF Lines, Consumed
  <2>5. ASSUME Unread
        PROVE  Unread' /\ buffer' = script[Consumed + 1]
    <3>1. buffer' = script[Consumed + 1]
      <4>1. 1 \in DOMAIN stdio
        BY <1>1, <2>2
      <4> QED BY <2>1, <2>2, <2>5, <4>1 DEF Unread
    <3>2. ASSUME NEW n \in 1 .. Len(stdio) - 1
          PROVE  stdio'[n] = script[Consumed + 1 + n]
      <4>1. n + 1 \in 1 .. Len(stdio) /\ Consumed + (n + 1) = Consumed + 1 + n
        BY <1>1
      <4>2. stdio[n + 1] = script[Consumed + (n + 1)]
        BY <1>1, <2>5, <4>1 DEF Unread
      <4> QED BY <2>1, <2>2, <4>1, <4>2
    <3>3. ASSUME NEW n \in 1 .. Len(typed)
          PROVE  typed'[n] = script[Consumed + 1 + (Len(stdio) - 1) + n]
      <4>1. Consumed + 1 + (Len(stdio) - 1) + n = Consumed + Len(stdio) + n
        BY <1>1
      <4> QED BY <1>1, <2>1, <2>5, <4>1 DEF Unread
    <3> QED BY <1>1, <2>1, <2>2, <2>3, <2>4, <3>1, <3>2, <3>3 DEF Unread
  <2> QED BY <2>1, <2>2, <2>4, <2>5
<1>3. CASE stdio = <<>> /\ typed # <<>>
  <2>1. PICK k \in DOMAIN typed : /\ buffer' = Head(typed)
                                  /\ stdio' = SubSeq(typed, 2, k)
                                  /\ typed' = SubSeq(typed, k + 1, Len(typed))
    <3>1. PICK n \in (IF tty THEN {1} ELSE DOMAIN typed) :
                 /\ buffer' = Head(typed)
                 /\ stdio' = SubSeq(typed, 2, n)
                 /\ typed' = SubSeq(typed, n + 1, Len(typed))
      BY <1>3, Zenon DEF Fgets
    <3>2. 1 \in DOMAIN typed
      BY <1>1, <1>3, EmptySeq
    <3>3. n \in DOMAIN typed
      BY <3>1, <3>2, Zenon
    <3> QED BY <3>1, <3>3, Zenon
  <2>2. k \in Nat /\ 1 <= k /\ k <= Len(typed) /\ Len(stdio) = 0
    BY <1>1, <1>3, <2>1, EmptySeq
  <2>3. /\ stdio' \in Seq(Line) /\ Len(stdio') = k - 1
        /\ DOMAIN stdio' = 1 .. k - 1
        /\ \A n \in 1 .. k - 1 : stdio'[n] = typed[n + 1]
    <3>1. \A n \in 2 .. k : n \in 1 .. Len(typed)
      BY <1>1, <2>2
    <3>2. /\ SubSeq(typed, 2, k) \in Seq(Line)
          /\ Len(SubSeq(typed, 2, k)) = IF 2 <= k THEN k - 2 + 1 ELSE 0
          /\ \A n \in 1 .. (k - 2 + 1) : SubSeq(typed, 2, k)[n] = typed[2 + n - 1]
      BY <1>1, <2>2, <3>1, SubSeqProperties
    <3>3. Len(SubSeq(typed, 2, k)) = k - 1
      BY <2>2, <3>2
    <3>4. \A n \in 1 .. k - 1 : n \in 1 .. (k - 2 + 1) /\ 2 + n - 1 = n + 1
      BY <2>2
    <3> QED BY <2>1, <3>2, <3>3, <3>4, LenProperties
  <2>4. /\ typed' \in Seq(Line) /\ Len(typed') = Len(typed) - k
        /\ DOMAIN typed' = 1 .. Len(typed) - k
        /\ \A n \in 1 .. Len(typed) - k : typed'[n] = typed[k + n]
    <3>1. \A n \in k + 1 .. Len(typed) : n \in 1 .. Len(typed)
      BY <1>1, <2>2
    <3>2. /\ SubSeq(typed, k + 1, Len(typed)) \in Seq(Line)
          /\ Len(SubSeq(typed, k + 1, Len(typed)))
               = IF k + 1 <= Len(typed) THEN Len(typed) - (k + 1) + 1 ELSE 0
          /\ \A n \in 1 .. (Len(typed) - (k + 1) + 1) :
               SubSeq(typed, k + 1, Len(typed))[n] = typed[(k + 1) + n - 1]
      BY <1>1, <2>2, <3>1, SubSeqProperties
    <3>3. Len(SubSeq(typed, k + 1, Len(typed))) = Len(typed) - k
      BY <1>1, <2>2, <3>2
    <3>4. \A n \in 1 .. Len(typed) - k :
            n \in 1 .. (Len(typed) - (k + 1) + 1) /\ (k + 1) + n - 1 = k + n
      BY <1>1, <2>2
    <3> QED BY <2>1, <3>2, <3>3, <3>4, LenProperties
  <2>5. Lines' /\ Consumed' = Consumed + 1 /\ Consumed + 1 <= Len(script)
    BY <1>1, <2>2, <2>3, <2>4 DEF Lines, Consumed
  <2>6. buffer' \in Line /\ buffer' = typed[1]
    BY <1>1, <1>3, <2>1, HeadTailProperties
  <2>7. ASSUME Unread
        PROVE  Unread' /\ buffer' = script[Consumed + 1]
    <3>1. \A n \in 1 .. Len(typed) : typed[n] = script[Consumed + n]
      BY <1>1, <2>2, <2>7 DEF Unread
    <3>2. buffer' = script[Consumed + 1]
      BY <2>2, <2>6, <3>1
    <3>3. ASSUME NEW n \in 1 .. k - 1
          PROVE  stdio'[n] = script[Consumed + 1 + n]
      <4>1. n + 1 \in 1 .. Len(typed) /\ Consumed + (n + 1) = Consumed + 1 + n
        BY <1>1, <2>2
      <4> QED BY <2>3, <3>1, <4>1
    <3>4. ASSUME NEW n \in 1 .. Len(typed) - k
          PROVE  typed'[n] = script[Consumed + 1 + (k - 1) + n]
      <4>1. k + n \in 1 .. Len(typed) /\ Consumed + (k + n) = Consumed + 1 + (k - 1) + n
        BY <1>1, <2>2
      <4> QED BY <2>4, <3>1, <4>1
    <3> QED BY <2>3, <2>4, <2>5, <3>2, <3>3, <3>4 DEF Unread
  <2> QED BY <2>5, <2>6, <2>7
<1>4. CASE stdio = <<>> /\ typed = <<>>
  BY <1>4 DEF Fgets, AfterEof
<1> QED BY <1>2, <1>3, <1>4

\* ReadLine, without its CASE.
LEMMA ReadCases ==
  ReadLine =>
    /\ pc = "stdin" /\ Fgets
    /\ UNCHANGED <<now, current_time, ready, peer_addr, tty, eof, script, sockVars>>
    /\ \/ /\ buffer' = "/iperf client" /\ pc' = "client"
          /\ deadline' = now + TestDuration
          /\ UNCHANGED <<last_activity, pathVars>>
       \/ /\ buffer' \in {"/iperf server", "/quit"} /\ pc' \in {"server", "done"}
          /\ UNCHANGED <<last_activity, deadline, pathVars>>
       \/ /\ buffer' \notin AllCommands /\ Send(buffer') /\ pc' = "sock"
          /\ last_activity' = current_time /\ UNCHANGED deadline
<1> SUFFICES ASSUME ReadLine
             PROVE  /\ pc = "stdin" /\ Fgets
                    /\ UNCHANGED <<now, current_time, ready, peer_addr, tty, eof, script,
                                   sockVars>>
                    /\ \/ /\ buffer' = "/iperf client" /\ pc' = "client"
                          /\ deadline' = now + TestDuration
                          /\ UNCHANGED <<last_activity, pathVars>>
                       \/ /\ buffer' \in {"/iperf server", "/quit"}
                          /\ pc' \in {"server", "done"}
                          /\ UNCHANGED <<last_activity, deadline, pathVars>>
                       \/ /\ buffer' \notin AllCommands /\ Send(buffer') /\ pc' = "sock"
                          /\ last_activity' = current_time /\ UNCHANGED deadline
  OBVIOUS
<1>1. /\ pc = "stdin" /\ Fgets
      /\ UNCHANGED <<now, current_time, ready, peer_addr, tty, eof, script, sockVars>>
  BY Zenon DEF ReadLine
<1>2. CASE buffer' = "/iperf server"
  BY <1>1, <1>2, Zenon DEF ReadLine
<1>3. CASE buffer' = "/iperf client"
  BY <1>1, <1>3, Zenon DEF ReadLine
<1>4. CASE buffer' = "/quit"
  BY <1>1, <1>4, Zenon DEF ReadLine
<1>5. CASE buffer' \notin AllCommands
  <2>1. /\ buffer' # "/iperf server" /\ buffer' # "/iperf client" /\ buffer' # "/quit"
    BY <1>5 DEF AllCommands
  <2>2. /\ Send(buffer') /\ pc' = "sock"
        /\ last_activity' = current_time /\ UNCHANGED deadline
    BY <2>1, Zenon DEF ReadLine
  <2> QED BY <1>1, <1>5, <2>2
<1> QED BY <1>1, <1>2, <1>3, <1>4, <1>5 DEF AllCommands

\* A line typed is the last of those unread.
LEMMA TypeFacts ==
  ASSUME Lines, NEW line \in Line, Type(line)
  PROVE  /\ Lines' /\ Consumed' = Consumed
         /\ DOMAIN script \subseteq DOMAIN script'
         /\ \A n \in DOMAIN script : script'[n] = script[n]
         /\ Unread => Unread'
<1>1. /\ Len(typed) \in Nat /\ Len(stdio) \in Nat /\ Len(script) \in Nat
      /\ Consumed \in Nat /\ Consumed + Len(stdio) + Len(typed) = Len(script)
      /\ DOMAIN typed = 1 .. Len(typed) /\ DOMAIN stdio = 1 .. Len(stdio)
      /\ DOMAIN script = 1 .. Len(script)
      /\ typed \in Seq(Line) /\ stdio \in Seq(Line) /\ script \in Seq(Line)
  BY LinesFacts DEF Lines
<1>2. /\ typed' = Append(typed, line) /\ script' = Append(script, line)
      /\ stdio' = stdio /\ Len(script) < MaxTyped
  BY DEF Type
<1>3. /\ typed' \in Seq(Line) /\ Len(typed') = Len(typed) + 1
      /\ \A n \in 1 .. Len(typed) : typed'[n] = typed[n]
      /\ typed'[Len(typed) + 1] = line
      /\ DOMAIN typed' = 1 .. Len(typed) + 1
  BY <1>1, <1>2, AppendProperties, LenProperties
<1>4. /\ script' \in Seq(Line) /\ Len(script') = Len(script) + 1
      /\ \A n \in 1 .. Len(script) : script'[n] = script[n]
      /\ script'[Len(script) + 1] = line
      /\ DOMAIN script' = 1 .. Len(script) + 1
  BY <1>1, <1>2, AppendProperties, LenProperties
<1>5. MaxTyped \in Nat
  BY TimesAreSeconds
<1>6. Lines' /\ Consumed' = Consumed
  BY <1>1, <1>2, <1>3, <1>4, <1>5 DEF Lines, Consumed
<1>7. ASSUME Unread
      PROVE  Unread'
  <2>1. ASSUME NEW n \in 1 .. Len(stdio)
        PROVE  stdio[n] = script'[Consumed + n]
    <3>1. Consumed + n \in 1 .. Len(script)
      BY <1>1
    <3> QED BY <1>1, <1>4, <1>7, <3>1 DEF Unread
  <2>2. ASSUME NEW n \in 1 .. Len(typed) + 1
        PROVE  typed'[n] = script'[Consumed + Len(stdio) + n]
    <3>1. CASE n \in 1 .. Len(typed)
      <4>1. Consumed + Len(stdio) + n \in 1 .. Len(script)
        BY <1>1, <3>1
      <4> QED BY <1>1, <1>3, <1>4, <1>7, <3>1, <4>1 DEF Unread
    <3>2. CASE n = Len(typed) + 1
      <4>1. Consumed + Len(stdio) + n = Len(script) + 1
        BY <1>1, <3>2
      <4> QED BY <1>3, <1>4, <3>2, <4>1
    <3> QED BY <1>1, <3>1, <3>2
  <2> QED BY <1>1, <1>2, <1>3, <1>6, <2>1, <2>2 DEF Unread
<1> QED BY <1>1, <1>4, <1>6, <1>7

\* A step that neither types nor reads leaves the lines and what was sent alone.
LEMMA OtherSteps ==
  ASSUME [Next]_vars, ~ReadLine, \A line \in Line : ~Type(line)
  PROVE  /\ UNCHANGED <<typed, stdio, script, tty, said>>
         /\ pc' \in {pc, "select", "stdin", "sock", "check", "done"}
<1> USE DEF inputVars, pathVars, loopVars
<1>1. CASE SelectReturns \/ SelectFails \/ NoInput \/ NoDatagram
  BY <1>1 DEF SelectReturns, SelectFails, NoInput, NoDatagram
<1>2. CASE RecvError \/ RecvDatagram \/ SendKeepalive \/ NoKeepalive
  BY <1>2 DEF RecvError, RecvDatagram, SendKeepalive, NoKeepalive, Loop
<1>3. CASE Test \/ Tick \/ CloseInput \/ \E d \in Arrival : Receive(d)
  BY <1>3 DEF Test, ServerRecv, ClientSend, ClientEnds, Tick, CloseInput, Receive
<1>4. CASE UNCHANGED vars
  BY <1>4 DEF vars
<1> QED BY <1>1, <1>2, <1>3, <1>4 DEF Next, Program, Stdin, Sock, Check

LEMMA LinesStep == Lines /\ [Next]_vars => Lines'
<1> SUFFICES ASSUME Lines, [Next]_vars
             PROVE  Lines'
  OBVIOUS
<1>1. CASE ReadLine
  <2>1. Fgets /\ UNCHANGED script
    BY <1>1, ReadCases
  <2> QED BY <2>1, FgetsFacts DEF Lines
<1>2. ASSUME NEW line \in Line, Type(line)
      PROVE  Lines'
  BY <1>2, TypeFacts
<1>3. CASE ~ReadLine /\ \A line \in Line : ~Type(line)
  BY <1>3, OtherSteps DEF Lines
<1> QED BY <1>1, <1>2, <1>3

-----------------------------------------------------------------------------
\* The lines sent.

\* places tells where each text sent was typed: they are the chat lines among the
\* lines that fgets has returned.
Placed(places) ==
  /\ \A i, j \in DOMAIN said : i < j => places[i] < places[j]
  /\ \A i \in DOMAIN said : said[i] = script[places[i]]
  /\ \A n \in 1 .. Consumed :
       (\E i \in DOMAIN said : places[i] = n) <=> script[n] \in Chatter

Order ==
  /\ said \in Seq(Text \ {""})
  /\ Unread
  /\ \E places \in [DOMAIN said -> 1 .. Consumed] : Placed(places)

LEMMA LineKinds ==
  /\ \A line \in Line : line \notin AllCommands => line \in Chatter
  /\ \A line \in AllCommands : line \notin Chatter
  /\ Line \subseteq Text \ {""}
BY CommandsAreKnown, ChatterIsChat, NoEmptyLine DEF Line, Text

\* A command is read: nothing is sent, and no chat line is passed over.
LEMMA CommandRead ==
  ASSUME Lines, Order, Lines', Unread', UNCHANGED <<script, said>>,
         Consumed' = Consumed + 1, script[Consumed + 1] \in AllCommands
  PROVE  Order'
<1>1. PICK places \in [DOMAIN said -> 1 .. Consumed] : Placed(places)
  BY DEF Order
<1>2. Consumed \in Nat /\ \A i \in DOMAIN said : places[i] \in 1 .. Consumed
  BY LinesFacts
<1>3. places \in [DOMAIN said -> 1 .. Consumed + 1]
  BY <1>1, <1>2
<1>4. ASSUME NEW n \in 1 .. Consumed + 1
      PROVE  (\E i \in DOMAIN said : places[i] = n) <=> script[n] \in Chatter
  <2>1. CASE n \in 1 .. Consumed
    BY <1>1, <2>1 DEF Placed
  <2>2. CASE n = Consumed + 1
    <3>1. script[n] \notin Chatter
      BY <2>2, LineKinds
    <3>2. \A i \in DOMAIN said : places[i] # n
      BY <1>2, <2>2
    <3> QED BY <3>1, <3>2
  <2> QED BY <1>2, <2>1, <2>2
<1>5. Placed(places)'
  BY <1>1, <1>4 DEF Placed
<1> QED BY <1>3, <1>5 DEF Order

\* The m texts sent are the chat lines among the first k of lines.
Picked(m, k, sent, lines) ==
  \E places \in [1 .. m -> 1 .. k] :
    /\ \A i, j \in 1 .. m : i < j => places[i] < places[j]
    /\ \A i \in 1 .. m : sent[i] = lines[places[i]]
    /\ \A n \in 1 .. k : (\E i \in 1 .. m : places[i] = n) <=> lines[n] \in Chatter

\* One more text, the line after those k.
LEMMA OneMore ==
  ASSUME NEW m \in Nat, NEW k \in Nat, NEW sent, NEW sent2, NEW lines,
         Picked(m, k, sent, lines),
         \A i \in 1 .. m : sent2[i] = sent[i],
         sent2[m + 1] = lines[k + 1],
         lines[k + 1] \in Chatter
  PROVE  Picked(m + 1, k + 1, sent2, lines)
<1>0. PICK places \in [1 .. m -> 1 .. k] :
        /\ \A i, j \in 1 .. m : i < j => places[i] < places[j]
        /\ \A i \in 1 .. m : sent[i] = lines[places[i]]
        /\ \A n \in 1 .. k : (\E i \in 1 .. m : places[i] = n) <=> lines[n] \in Chatter
  BY DEF Picked
<1> DEFINE more == [i \in 1 .. m + 1 |-> IF i = m + 1 THEN k + 1 ELSE places[i]]
<1>1. \A i \in 1 .. m : places[i] \in 1 .. k /\ places[i] \in 1 .. k + 1
  OBVIOUS
<1>2. \A i \in 1 .. m + 1 : i \in 1 .. m \/ i = m + 1
  OBVIOUS
<1>3. \A i \in 1 .. m : i \in 1 .. m + 1 /\ more[i] = places[i]
  OBVIOUS
<1>4. m + 1 \in 1 .. m + 1 /\ k + 1 \in 1 .. k + 1 /\ more[m + 1] = k + 1
  OBVIOUS
<1>5. more \in [1 .. m + 1 -> 1 .. k + 1]
  <2>1. \A i \in 1 .. m + 1 :
          (IF i = m + 1 THEN k + 1 ELSE places[i]) \in 1 .. k + 1
    BY <1>1, <1>2, <1>4
  <2> QED BY <2>1
<1> HIDE DEF more
<1>6. ASSUME NEW i \in 1 .. m + 1, NEW j \in 1 .. m + 1, i < j
      PROVE  more[i] < more[j]
  <2>1. i \in 1 .. m
    BY <1>6
  <2>2. CASE j \in 1 .. m
    BY <1>0, <1>3, <1>6, <2>1, <2>2
  <2>3. CASE j = m + 1
    <3>1. more[j] = k + 1
      BY <1>4, <2>3
    <3>2. more[i] \in 1 .. k
      BY <1>1, <1>3, <2>1
    <3> QED BY <3>1, <3>2
  <2> QED BY <1>2, <2>2, <2>3
<1>7. ASSUME NEW i \in 1 .. m + 1
      PROVE  sent2[i] = lines[more[i]]
  <2>1. CASE i \in 1 .. m
    BY <1>0, <1>3, <2>1
  <2>2. CASE i = m + 1
    BY <1>4, <2>2
  <2> QED BY <1>2, <2>1, <2>2
<1>8. ASSUME NEW n \in 1 .. k + 1
      PROVE  (\E i \in 1 .. m + 1 : more[i] = n) <=> lines[n] \in Chatter
  <2>1. CASE n \in 1 .. k
    <3>1. (\E i \in 1 .. m : places[i] = n) <=> lines[n] \in Chatter
      BY <1>0, <2>1
    <3>2. n # k + 1
      BY <2>1
    <3>3. (\E i \in 1 .. m + 1 : more[i] = n) <=> (\E i \in 1 .. m : places[i] = n)
      BY <1>2, <1>3, <1>4, <3>2
    <3> QED BY <3>1, <3>3
  <2>2. CASE n = k + 1
    BY <1>4, <2>2
  <2>3. n \in 1 .. k \/ n = k + 1
    OBVIOUS
  <2> QED BY <2>1, <2>2, <2>3
<1> QED BY <1>5, <1>6, <1>7, <1>8 DEF Picked

\* A chat line is read and sent.
LEMMA ChatRead ==
  ASSUME Lines, Order, Lines', Unread', UNCHANGED script,
         Consumed' = Consumed + 1, script[Consumed + 1] \in Chatter,
         said' = Append(said, script[Consumed + 1])
  PROVE  Order'
<1>1. PICK places \in [DOMAIN said -> 1 .. Consumed] : Placed(places)
  BY DEF Order
<1>2. Consumed \in Nat
  BY LinesFacts
<1>3. script[Consumed + 1] \in Text \ {""}
  BY LineKinds DEF Line
<1>4. said \in Seq(Text \ {""}) /\ Len(said) \in Nat /\ DOMAIN said = 1 .. Len(said)
  BY LenProperties DEF Order
<1>5. /\ said' \in Seq(Text \ {""}) /\ Len(said') = Len(said) + 1
      /\ \A i \in 1 .. Len(said) : said'[i] = said[i]
      /\ said'[Len(said) + 1] = script[Consumed + 1]
  <2> DEFINE text == script[Consumed + 1]
             S == Text \ {""}
  <2>1. said \in Seq(S) /\ text \in S /\ said' = Append(said, text)
    BY <1>3, <1>4
  <2> HIDE DEF text, S
  <2>2. /\ Append(said, text) \in Seq(S) /\ Len(Append(said, text)) = Len(said) + 1
        /\ \A i \in 1 .. Len(said) : Append(said, text)[i] = said[i]
        /\ Append(said, text)[Len(said) + 1] = text
    BY <2>1, AppendProperties
  <2> QED BY <2>1, <2>2 DEF text, S
<1>6. DOMAIN said' = 1 .. Len(said) + 1
  BY <1>5, LenProperties
<1>7. /\ places \in [1 .. Len(said) -> 1 .. Consumed]
      /\ \A i, j \in 1 .. Len(said) : i < j => places[i] < places[j]
      /\ \A i \in 1 .. Len(said) : said[i] = script[places[i]]
      /\ \A n \in 1 .. Consumed :
           (\E i \in 1 .. Len(said) : places[i] = n) <=> script[n] \in Chatter
  BY <1>1, <1>4 DEF Placed
<1>8. PICK more \in [1 .. Len(said) + 1 -> 1 .. Consumed + 1] :
        /\ \A i, j \in 1 .. Len(said) + 1 : i < j => more[i] < more[j]
        /\ \A i \in 1 .. Len(said) + 1 : said'[i] = script[more[i]]
        /\ \A n \in 1 .. Consumed + 1 :
             (\E i \in 1 .. Len(said) + 1 : more[i] = n) <=> script[n] \in Chatter
  <2>1. Picked(Len(said), Consumed, said, script)
    BY <1>7 DEF Picked
  <2>2. Picked(Len(said) + 1, Consumed + 1, said', script)
    BY <1>2, <1>4, <1>5, <2>1, OneMore
  <2> QED BY <2>2 DEF Picked
<1>9. Placed(more)'
  BY <1>6, <1>8, Zenon DEF Placed
<1>10. more \in [DOMAIN said' -> 1 .. Consumed']
  BY <1>6
<1> QED BY <1>5, <1>9, <1>10 DEF Order

\* Nothing is read, sent or typed.
LEMMA OrderKept ==
  ASSUME Order, UNCHANGED <<said, script, stdio, typed>>
  PROVE  Order'
<1>1. Consumed' = Consumed
  BY DEF Consumed
<1>2. Unread'
  BY <1>1 DEF Order, Unread
<1>3. PICK places \in [DOMAIN said -> 1 .. Consumed] : Placed(places)
  BY DEF Order
<1>4. Placed(places)'
  BY <1>1, <1>3 DEF Placed
<1> QED BY <1>1, <1>2, <1>3, <1>4 DEF Order

LEMMA OrderStep == Lines /\ Order /\ [Next]_vars => Order'
<1> SUFFICES ASSUME Lines, Order, [Next]_vars
             PROVE  Order'
  OBVIOUS
<1>1. CASE ReadLine
  <2>1. /\ Fgets /\ UNCHANGED script
        /\ \/ buffer' \in AllCommands /\ said' = said
           \/ /\ buffer' \notin AllCommands
              /\ said' = IF buffer' = "" THEN said ELSE Append(said, buffer')
    BY <1>1, ReadCases DEF Send, pathVars, AllCommands
  <2>2. CASE buffer' = "" /\ UNCHANGED <<stdio, typed>>
    <3>1. said' = said
      BY <2>1, <2>2
    <3> QED BY <2>1, <2>2, <3>1, OrderKept
  <2>3. CASE /\ buffer' \in Line /\ Lines' /\ Consumed' = Consumed + 1
             /\ Unread => Unread' /\ buffer' = script[Consumed + 1]
    <3>1. Unread' /\ buffer' = script[Consumed + 1] /\ buffer' # ""
      BY <2>3, NoEmptyLine DEF Order
    <3>2. CASE buffer' \in AllCommands
      BY <2>1, <2>3, <3>1, <3>2, CommandRead
    <3>3. CASE buffer' \notin AllCommands
      <4>1. buffer' \in Chatter
        BY <2>3, <3>3, LineKinds
      <4> QED BY <2>1, <2>3, <3>1, <3>3, <4>1, ChatRead
    <3> QED BY <3>2, <3>3
  <2> QED BY <2>1, <2>2, <2>3, FgetsFacts
<1>2. ASSUME NEW line \in Line, Type(line)
      PROVE  Order'
  <2>1. /\ Consumed' = Consumed /\ Consumed \in Nat
        /\ \A n \in 1 .. Consumed : n \in DOMAIN script
        /\ \A n \in DOMAIN script : script'[n] = script[n]
        /\ Unread => Unread'
        /\ said' = said
    BY <1>2, TypeFacts, LinesFacts DEF Type, pathVars
  <2>2. PICK places \in [DOMAIN said -> 1 .. Consumed] : Placed(places)
    BY DEF Order
  <2>3. Placed(places)'
    BY <2>1, <2>2 DEF Placed
  <2> QED BY <2>1, <2>2, <2>3 DEF Order
<1>3. CASE ~ReadLine /\ \A line \in Line : ~Type(line)
  BY <1>3, OtherSteps, OrderKept
<1> QED BY <1>1, <1>2, <1>3

LEMMA OrderInit == Init => Lines /\ Order
<1> SUFFICES ASSUME Init
             PROVE  Lines /\ Order
  OBVIOUS
<1>1. typed = <<>> /\ stdio = <<>> /\ script = <<>> /\ said = <<>>
  BY DEF Init
<1>2. /\ <<>> \in Seq(Line) /\ <<>> \in Seq(Text \ {""})
      /\ Len(<<>>) = 0 /\ DOMAIN <<>> = {}
  BY EmptySeq, LenProperties
<1>3. Lines /\ Consumed = 0
  <2>1. MaxTyped \in Nat /\ Len(typed) = 0 /\ Len(stdio) = 0 /\ Len(script) = 0
    BY <1>1, <1>2, TimesAreSeconds
  <2>2. typed \in Seq(Line) /\ stdio \in Seq(Line) /\ script \in Seq(Line)
    BY <1>1, <1>2
  <2> QED BY <2>1, <2>2 DEF Lines, Consumed
<1>4. Unread /\ <<>> \in [DOMAIN said -> 1 .. Consumed]
  BY <1>1, <1>2 DEF Unread
<1>5. Placed(<<>>)
  BY <1>1, <1>2, <1>3 DEF Placed
<1> QED BY <1>1, <1>2, <1>3, <1>4, <1>5 DEF Order

\* Each chat line is sent once and in the order typed, at a terminal and from a
\* pipe, at the end of input and with whatever the socket brings into the one buffer
\* of main: what has been sent is the chat lines among the lines fgets has returned.
THEOREM EachLineInOrder == Spec => []LinesInOrder
<1>1. Lines /\ Order => LinesInOrder
  <2> SUFFICES ASSUME Lines, NEW places \in [DOMAIN said -> 1 .. Consumed], Placed(places)
               PROVE  LinesInOrder
    BY DEF Order
  <2>1. /\ Consumed \in Nat /\ 1 .. Consumed \subseteq DOMAIN script
        /\ DOMAIN script \subseteq Nat \ {0}
    BY LinesFacts
  <2>2. places \in [DOMAIN said -> DOMAIN script]
    BY <2>1
  <2>3. ASSUME NEW n \in DOMAIN script
        PROVE  (\E i \in DOMAIN said : places[i] = n)
                 <=> script[n] \in Chatter /\ \E i \in DOMAIN said : n <= places[i]
    <3>1. CASE n <= Consumed
      <4>1. n \in 1 .. Consumed
        BY <2>1, <3>1
      <4>2. (\E i \in DOMAIN said : places[i] = n) <=> script[n] \in Chatter
        BY <4>1 DEF Placed
      <4> QED BY <2>1, <4>1, <4>2
    <3>2. CASE ~(n <= Consumed)
      <4>1. \A i \in DOMAIN said : ~(n <= places[i]) /\ places[i] # n
        BY <2>1, <3>2
      <4> QED BY <4>1
    <3> QED BY <3>1, <3>2
  <2> QED BY <2>2, <2>3 DEF LinesInOrder, SentFrom, Placed
<1> QED BY <1>1, OrderInit, LinesStep, OrderStep, PTL DEF Spec

-----------------------------------------------------------------------------
\* The ranges of the loop's variables.

Values == tty \in BOOLEAN /\ eof \in BOOLEAN /\ buffer \in Text /\ peer_addr \in Host

LEMMA ValuesStep == Lines /\ Values /\ [Next]_vars => Values'
<1> SUFFICES ASSUME Lines, Values, [Next]_vars
             PROVE  Values'
  OBVIOUS
<1> USE DEF Values, inputVars, loopVars
<1>1. CASE ReadLine
  <2>1. Fgets /\ UNCHANGED <<script, tty, eof, peer_addr>>
    BY <1>1, ReadCases
  <2>2. buffer' \in Line \union {""}
    BY <2>1, FgetsFacts
  <2> QED BY <2>1, <2>2 DEF Text
<1>2. CASE RecvDatagram
  <2>1. /\ buffer' \in Incoming /\ peer_addr' \in Host /\ UNCHANGED <<tty, eof>>
    BY <1>2 DEF RecvDatagram
  <2> QED BY <2>1 DEF Text
<1>3. CASE RecvError
  BY <1>3 DEF RecvError, Text
<1>4. CASE CloseInput \/ \E line \in Line : Type(line)
  BY <1>4 DEF CloseInput, Type
<1>5. CASE SelectReturns \/ SelectFails \/ NoInput \/ NoDatagram
  BY <1>5 DEF SelectReturns, SelectFails, NoInput, NoDatagram
<1>6. CASE SendKeepalive \/ NoKeepalive \/ Test \/ Tick
  BY <1>6 DEF SendKeepalive, NoKeepalive, Test, ServerRecv, ClientSend, ClientEnds, Tick
<1>7. CASE UNCHANGED vars \/ \E d \in Arrival : Receive(d)
  BY <1>7 DEF vars, Receive
<1> QED BY <1>1, <1>2, <1>3, <1>4, <1>5, <1>6, <1>7 DEF Next, Program, Stdin, Sock, Check

\* What select found at the socket is still there when the loop reads it, and each
\* keepalive check skipped has taken one of the arrivals.
Socket ==
  /\ ready \subseteq {"stdin", "sock"}
  /\ inbox \in Seq(Arrival)
  /\ arrivals \in 0 .. MaxInputs
  /\ skipped + Len(inbox) <= arrivals
  /\ ("sock" \in ready /\ pc \in {"stdin", "sock", "client"}) => inbox # <<>>

LEMMA SocketStep == Clocks /\ Lines /\ Socket /\ [Next]_vars => Socket'
<1> SUFFICES ASSUME Clocks, Lines, Socket, [Next]_vars
             PROVE  Socket'
  OBVIOUS
<1> USE DEF Socket, sockVars, pathVars, loopVars
<1>1. Len(inbox) \in Nat /\ skipped \in Nat /\ arrivals \in Nat /\ MaxInputs \in Nat
  BY LenProperties, TimesAreSeconds DEF Clocks
<1>2. ASSUME inbox # <<>>, inbox' = Tail(inbox)
      PROVE  inbox' \in Seq(Arrival) /\ Len(inbox') = Len(inbox) - 1
  BY <1>2, HeadTailProperties
<1>3. CASE SelectReturns
  BY <1>3 DEF SelectReturns, Readable
<1>4. CASE SelectFails \/ NoInput \/ NoDatagram
  BY <1>4 DEF SelectFails, NoInput, NoDatagram
<1>5. CASE ReadLine
  <2>1. pc = "stdin" /\ UNCHANGED <<ready, sockVars, skipped>>
    BY <1>5, ReadCases DEF Send
  <2> QED BY <2>1
<1>6. CASE ServerRecv
  <2>1. inbox # <<>> /\ inbox' = Tail(inbox) /\ pc = "server"
        /\ UNCHANGED <<pc, ready, arrivals, skipped>>
    BY <1>6 DEF ServerRecv
  <2>2. skipped' + Len(inbox') <= arrivals'
    BY <1>1, <1>2, <2>1
  <2> QED BY <1>2, <2>1, <2>2
<1>7. CASE RecvError
  <2>1. pc = "sock" /\ "sock" \in ready /\ inbox' = Tail(inbox) /\ pc' = "select"
        /\ skipped' = skipped + 1 /\ UNCHANGED <<ready, arrivals>>
    BY <1>7 DEF RecvError, Loop
  <2>2. skipped' + Len(inbox') <= arrivals'
    BY <1>1, <1>2, <2>1
  <2> QED BY <1>2, <2>1, <2>2
<1>8. CASE RecvDatagram
  <2>1. pc = "sock" /\ "sock" \in ready /\ inbox' = Tail(inbox) /\ pc' = "check"
        /\ UNCHANGED <<ready, arrivals, skipped>>
    BY <1>8 DEF RecvDatagram
  <2>2. skipped' + Len(inbox') <= arrivals'
    BY <1>1, <1>2, <2>1
  <2> QED BY <1>2, <2>1, <2>2
<1>9. CASE SendKeepalive \/ NoKeepalive
  <2>1. skipped' = 0 /\ pc' = "select" /\ UNCHANGED <<ready, inbox, arrivals>>
    BY <1>9 DEF SendKeepalive, NoKeepalive, Loop
  <2> QED BY <1>1, <2>1
<1>10. CASE ClientSend \/ ClientEnds \/ Tick
  BY <1>10 DEF ClientSend, ClientEnds, Tick
<1>11. ASSUME NEW d \in Arrival, Receive(d)
       PROVE  Socket'
  <2>1. inbox' = Append(inbox, d) /\ arrivals' = arrivals + 1
        /\ Len(script) + arrivals < MaxInputs /\ UNCHANGED <<pc, ready, skipped>>
    BY <1>11 DEF Receive, MoreInput
  <2>2. /\ inbox' \in Seq(Arrival) /\ Len(inbox') = Len(inbox) + 1 /\ inbox' # <<>>
    BY <2>1, AppendProperties
  <2>3. Len(script) \in Nat
    BY LinesFacts
  <2>4. arrivals' \in 0 .. MaxInputs /\ skipped' + Len(inbox') <= arrivals'
    BY <1>1, <2>1, <2>2, <2>3
  <2> QED BY <2>1, <2>2, <2>4
<1>12. CASE CloseInput \/ \E line \in Line : Type(line)
  BY <1>12 DEF CloseInput, Type
<1>13. CASE UNCHANGED vars
  BY <1>13 DEF vars
<1> QED
  BY <1>3, <1>4, <1>5, <1>6, <1>7, <1>8, <1>9, <1>10, <1>11, <1>12, <1>13
  DEF Next, Program, Stdin, Sock, Check, Test

\* The time that may have passed by now: a test takes a line.
Spent(consumed) == MaxTime + consumed * TestDuration

LEMMA SpentFacts ==
  ASSUME NEW c \in Nat
  PROVE  /\ Spent(c) \in Nat
         /\ Spent(c + 1) = Spent(c) + TestDuration
         /\ c <= MaxTyped => Spent(c) <= LastTime
<1>1. MaxTime \in Nat /\ MaxTyped \in Nat /\ TestDuration \in Nat
  BY TimesAreSeconds
<1>2. \A x, y \in Nat : x * y \in Nat /\ (x + 1) * y = x * y + y
  OBVIOUS
<1>3. ASSUME c <= MaxTyped
      PROVE  Spent(c) <= LastTime
  <2>1. \A x, y, z \in Nat : x <= y => x * z <= y * z
    OBVIOUS
  <2>2. c * TestDuration <= MaxTyped * TestDuration
    BY <1>1, <1>3, <2>1
  <2>3. c * TestDuration \in Nat /\ MaxTyped * TestDuration \in Nat
    BY <1>1, <1>2
  <2> QED BY <1>1, <2>2, <2>3 DEF Spent, LastTime
<1>4. c * TestDuration \in Nat /\ (c + 1) * TestDuration = c * TestDuration + TestDuration
  BY <1>1, <1>2
<1> QED BY <1>1, <1>3, <1>4 DEF Spent

Budget ==
  /\ now <= Spent(Consumed)
  /\ pc = "client" => deadline <= Spent(Consumed)
  /\ deadline <= LastTime + 1

LEMMA BudgetStep == Inv /\ Lines /\ Budget /\ [Next]_vars => Budget'
<1> SUFFICES ASSUME Inv, Lines, Budget, [Next]_vars
             PROVE  Budget'
  OBVIOUS
<1>1. Consumed \in Nat /\ Consumed <= MaxTyped
  BY LinesFacts, TimesAreSeconds DEF Lines
<1>2. /\ Spent(Consumed) \in Nat /\ Spent(Consumed + 1) = Spent(Consumed) + TestDuration
      /\ Spent(Consumed) <= LastTime
  BY <1>1, SpentFacts
<1>3. /\ MaxTime \in Nat /\ TestDuration \in Nat /\ LastTime \in Nat
  <2>1. \A x, y \in Nat : x * y \in Nat
    OBVIOUS
  <2> QED BY <2>1, TimesAreSeconds DEF LastTime
<1>4. MaxTime <= Spent(Consumed)
  <2>1. \A x, y \in Nat : x * y \in Nat
    OBVIOUS
  <2>2. Consumed * TestDuration \in Nat
    BY <1>1, <1>3, <2>1
  <2> HIDE DEF Consumed
  <2> QED BY <1>3, <2>2 DEF Spent
<1>5. now \in Nat /\ deadline \in Nat
  BY DEF Inv, Clocks
<1>0. /\ now <= Spent(Consumed) /\ deadline <= LastTime + 1
      /\ pc = "client" => deadline <= Spent(Consumed)
  BY DEF Budget
<1> USE DEF Budget
<1>6. CASE ReadLine
  <2>1. /\ Fgets /\ UNCHANGED <<now, script>>
        /\ \/ buffer' = "/iperf client" /\ pc' = "client" /\ deadline' = now + TestDuration
           \/ pc' \in {"server", "done", "sock"} /\ UNCHANGED deadline
    BY <1>6, ReadCases
  <2>2. CASE buffer' = "" /\ UNCHANGED <<stdio, typed>>
    <3>1. Consumed' = Consumed
      BY <2>1, <2>2 DEF Consumed
    <3> QED BY <2>1, <2>2, <3>1
  <2>3. CASE Lines' /\ Consumed' = Consumed + 1 /\ Consumed + 1 <= Len(script)
    <3>1. Consumed + 1 \in Nat /\ Consumed + 1 <= MaxTyped
      BY <1>1, <2>3, LinesFacts, TimesAreSeconds DEF Lines
    <3>2. Spent(Consumed + 1) \in Nat /\ Spent(Consumed + 1) <= LastTime
      BY <3>1, SpentFacts
    <3>3. Spent(Consumed') = Spent(Consumed) + TestDuration
      BY <1>2, <2>3
    <3>4. now + TestDuration <= Spent(Consumed) + TestDuration
      BY <1>0, <1>2, <1>3, <1>5
    <3>5. now + TestDuration <= Spent(Consumed') /\ Spent(Consumed') <= LastTime
      BY <2>3, <3>2, <3>3, <3>4
    <3>6. now <= Spent(Consumed') /\ now + TestDuration <= LastTime + 1
      <4>1. Spent(Consumed') \in Nat
        BY <2>3, <3>2
      <4> QED BY <1>3, <1>5, <3>5, <4>1
    <3> QED BY <1>0, <2>1, <3>5, <3>6
  <2> QED BY <2>1, <2>2, <2>3, FgetsFacts
<1>7. ASSUME NEW line \in Line, Type(line)
      PROVE  Budget'
  <2>1. Consumed' = Consumed /\ UNCHANGED <<now, pc, deadline>>
    BY <1>7, TypeFacts DEF Type, loopVars
  <2> QED BY <2>1
<1>8. CASE ~ReadLine /\ \A line \in Line : ~Type(line)
  <2>1. Consumed' = Consumed
    BY <1>8, OtherSteps DEF Consumed
  <2>2. now' <= Spent(Consumed) /\ deadline' <= LastTime + 1
        /\ (pc' = "client" => pc = "client" /\ deadline' = deadline)
    <3> USE DEF loopVars
    <3>1. CASE SelectReturns \/ SelectFails \/ NoInput \/ NoDatagram
      BY <3>1 DEF SelectReturns, SelectFails, NoInput, NoDatagram
    <3>2. CASE RecvError \/ SendKeepalive \/ NoKeepalive
      <4>1. pc' = "select" /\ deadline' = now + 1 /\ now' = now
        BY <3>2 DEF RecvError, SendKeepalive, NoKeepalive, Loop
      <4>2. now + 1 <= LastTime + 1
        BY <1>0, <1>2, <1>3, <1>5
      <4> QED BY <1>0, <4>1, <4>2
    <3>3. CASE RecvDatagram
      BY <3>3 DEF RecvDatagram
    <3>4. CASE ServerRecv \/ ClientEnds \/ CloseInput \/ \E d \in Arrival : Receive(d)
      BY <3>4 DEF ServerRecv, ClientEnds, CloseInput, Receive
    <3>5. CASE ClientSend
      <4>1. pc = "client" /\ now < deadline /\ now' = now + 1 /\ UNCHANGED loopVars
        BY <3>5 DEF ClientSend
      <4> QED BY <1>2, <1>5, <4>1
    <3>6. CASE Tick
      <4>1. now < MaxTime /\ now' = now + 1 /\ UNCHANGED loopVars
        BY <3>6 DEF Tick
      <4> QED BY <1>2, <1>3, <1>4, <1>5, <4>1
    <3>7. CASE UNCHANGED vars
      BY <3>7 DEF vars
    <3> QED BY <1>8, <3>1, <3>2, <3>3, <3>4, <3>5, <3>6, <3>7
            DEF Next, Program, Stdin, Sock, Check, Test
  <2> QED BY <2>1, <2>2
<1> QED BY <1>6, <1>7, <1>8

\* The clocks stay within the time bounded by MaxTime and the tests asked for, and
\* the descriptors, queues and the one buffer hold what the loop expects in them:
\* select's answer that the socket is readable is still true when it is read.
THEOREM LoopTypeCorrect == Spec => []TypeOK
<1>1. Init => Inv /\ Lines /\ Order /\ Values /\ Socket /\ Budget
  <2> SUFFICES ASSUME Init
               PROVE  Lines /\ Order /\ Values /\ Socket /\ Budget
    BY InvInit
  <2>1. /\ pc = "select" /\ now = 0 /\ deadline = 1 /\ ready = {} /\ buffer = ""
        /\ peer_addr = "peer" /\ tty \in BOOLEAN /\ eof = FALSE
        /\ inbox = <<>> /\ arrivals = 0 /\ skipped = 0
        /\ typed = <<>> /\ stdio = <<>> /\ script = <<>>
    BY DEF Init
  <2>2. Values
    BY <2>1 DEF Values, Text, Host
  <2>3. <<>> \in Seq(Arrival) /\ Len(<<>>) = 0
    BY EmptySeq, LenProperties
  <2>4. Socket
    <3>1. Len(inbox) = 0 /\ inbox \in Seq(Arrival)
      BY <2>1, <2>3
    <3>2. arrivals \in 0 .. MaxInputs
      <4>1. MaxInputs \in Nat /\ arrivals = 0
        BY <2>1, TimesAreSeconds
      <4> QED BY <4>1
    <3>3. skipped = 0 /\ arrivals = 0
      BY <2>1
    <3>4. skipped + Len(inbox) <= arrivals
      BY <3>1, <3>3
    <3> QED BY <2>1, <3>1, <3>2, <3>4, Zenon DEF Socket
  <2>5. Lines /\ Order
    BY OrderInit
  <2>6. Budget
    <3>1. Consumed = 0
      <4>1. Len(script) = 0 /\ Len(stdio) = 0 /\ Len(typed) = 0
        BY <2>1, <2>3
      <4> QED BY <4>1 DEF Consumed
    <3>2. Spent(0) \in Nat /\ Spent(0) <= LastTime
      BY SpentFacts, TimesAreSeconds
    <3>3. LastTime \in Nat
      <4>1. \A x, y \in Nat : x * y \in Nat
        OBVIOUS
      <4> QED BY <4>1, TimesAreSeconds DEF LastTime
    <3>4. 0 <= Spent(Consumed) /\ 1 <= LastTime + 1
      BY <3>1, <3>2, <3>3
    <3> QED BY <2>1, <3>4 DEF Budget
  <2> QED BY <2>2, <2>4, <2>5, <2>6
<1>2. Inv /\ Lines /\ Order /\ Values /\ Socket /\ Budget => TypeOK
  <2> SUFFICES ASSUME Inv, Lines, Order, Values, Socket, Budget
               PROVE  TypeOK
    OBVIOUS
  <2>1. /\ now \in Nat /\ current_time \in Nat /\ last_activity \in Nat
        /\ last_traffic \in Nat /\ deadline \in Nat /\ skipped \in Nat /\ pc \in Label
        /\ last_activity <= current_time /\ current_time <= now /\ last_traffic <= now
    BY DEF Inv, Clocks, CheckedInTime
  <2>2. LastTime \in Nat
    <3>1. \A x, y \in Nat : x * y \in Nat
      OBVIOUS
    <3> QED BY <3>1, TimesAreSeconds DEF LastTime
  <2>3. now <= LastTime
    <3>1. Consumed \in Nat /\ Consumed <= MaxTyped
      BY LinesFacts, TimesAreSeconds DEF Lines
    <3>2. Spent(Consumed) \in Nat /\ Spent(Consumed) <= LastTime
      BY <3>1, SpentFacts
    <3> QED BY <2>1, <2>2, <3>2 DEF Budget
  <2>4. {now, current_time, last_activity, last_traffic} \subseteq Time
    BY <2>1, <2>2, <2>3 DEF Time
  <2>5. deadline \in Time \union {LastTime + 1}
    BY <2>1, <2>2 DEF Time, Budget
  <2>6. Len(inbox) \in Nat /\ MaxInputs \in Nat
    BY LenProperties, TimesAreSeconds DEF Socket
  <2>7. skipped \in 0 .. MaxInputs
    BY <2>1, <2>6 DEF Socket
  <2> QED BY <2>1, <2>4, <2>5, <2>7 DEF TypeOK, Lines, Order, Values, Socket
<1> QED BY <1>1, <1>2, InvStep, LinesStep, OrderStep, ValuesStep, SocketStep, BudgetStep,
           PTL DEF Spec, Inv
=============================================================================
