------------------------------ MODULE ChatLoop ------------------------------
(***************************************************************************)
(* The main loop of test3/p2p_client.c after hole punching: one select on  *)
(* standard input and the socket, the commands, the chat lines and the     *)
(* keepalive that holds the NAT mapping open.  Time is in seconds.         *)
(*                                                                         *)
(* The loop's body takes no time; time passes inside select, and while a   *)
(* bandwidth test runs.  The user types when they like, and so do the peer *)
(* and any other host send: every receive overwrites peer_addr with the    *)
(* sender's address.                                                       *)
(***************************************************************************)
EXTENDS Naturals, Sequences, SequencesExt

CONSTANTS
  Chatter,            \* the chat lines a user may type
  Commands,           \* the commands this run's user knows
  KeepaliveInterval,  \* KEEPALIVE_INTERVAL
  TestDuration,       \* TEST_DURATION
  Interrupts,         \* select may fail (a stop and continue of the process)
  MaxTime,            \* bound: seconds, but for a test under way
  MaxTyped,           \* bound: lines the user types
  MaxInputs           \* bound: lines, and datagrams and errors at the socket

AllCommands == {"/iperf server", "/iperf client", "/quit"}
Incoming == {"CHAT", "KEEPALIVE"}
Host == {"peer", "other"}
Error == <<"ERROR", "nobody">>
Arrival == (Incoming \X Host) \union {Error}

ASSUME CommandsAreKnown == Commands \subseteq AllCommands
ASSUME ChatterIsChat ==
  Chatter \cap (AllCommands \union Incoming \union {""}) = {}
ASSUME TimesAreSeconds == /\ KeepaliveInterval \in Nat \ {0, 1}
                          /\ TestDuration \in Nat \ {0}
                          /\ {MaxTime, MaxTyped, MaxInputs} \subseteq Nat
ASSUME SelectKind == Interrupts \in BOOLEAN

VARIABLES
  pc,            \* "select", "stdin", "sock", "check", "server", "client", "done"
  now,           \* the clock
  current_time,  \* time(NULL) when select last returned
  last_activity,
  deadline,      \* when select, or the test, runs out
  ready,         \* the descriptors select found readable
  tty,           \* standard input is a terminal: a read returns one line at most
  typed,         \* lines in the terminal or pipe, not read yet
  stdio,         \* lines read into stdin's buffer, not returned by fgets yet
  eof,           \* standard input has been closed
  buffer,        \* the one buffer of main
  peer_addr,     \* the host that lines, tests and keepalives go to
  inbox,         \* the socket's receive queue; Error is a receive that fails
  arrivals,      \* datagrams and errors so far
  script,        \* history: every line typed
  said,          \* history: the non-empty texts handed to sendto
  last_traffic,  \* history: when something last went to the peer or came from it
  skipped        \* history: keepalive checks skipped in a row

loopVars == <<pc, current_time, last_activity, deadline, ready, buffer, peer_addr>>
inputVars == <<tty, typed, stdio, eof, script>>
sockVars == <<inbox, arrivals>>
pathVars == <<said, last_traffic, skipped>>
vars == <<loopVars, now, inputVars, sockVars, pathVars>>

Line == Chatter \union Commands
Text == Line \union Incoming \union {""}
Label == {"select", "stdin", "sock", "check", "server", "client", "done"}

\* A test that begins by MaxTime is carried to its end.
LastTime == MaxTime + MaxTyped * TestDuration
Time == 0 .. LastTime

\* The clocks, descriptors and queues of the loop within their ranges.
TypeOK ==
  /\ pc \in Label
  /\ {now, current_time, last_activity, last_traffic} \subseteq Time
  /\ deadline \in Time \union {LastTime + 1}
  /\ ready \subseteq {"stdin", "sock"}
  /\ {typed, stdio, script} \subseteq Seq(Line)
  /\ tty \in BOOLEAN /\ eof \in BOOLEAN
  /\ buffer \in Text
  /\ peer_addr \in Host
  /\ inbox \in Seq(Arrival)
  /\ arrivals \in 0 .. MaxInputs
  /\ said \in Seq(Text \ {""})
  /\ skipped \in 0 .. MaxInputs

Init ==
  /\ pc = "select" /\ ready = {} /\ buffer = "" /\ peer_addr = "peer"
  /\ now = 0 /\ current_time = 0 /\ last_activity = 0 /\ deadline = 1
  /\ tty \in BOOLEAN
  /\ typed = <<>> /\ stdio = <<>> /\ script = <<>> /\ eof = FALSE
  /\ inbox = <<>> /\ arrivals = 0
  /\ said = <<>> /\ last_traffic = 0 /\ skipped = 0

-----------------------------------------------------------------------------
\* The user, the peer and other hosts.

MoreInput == Len(script) + arrivals < MaxInputs

Type(line) ==
  /\ ~eof
  /\ Len(script) < MaxTyped /\ MoreInput
  /\ typed' = Append(typed, line)
  /\ script' = Append(script, line)
  /\ UNCHANGED <<loopVars, now, tty, stdio, eof, sockVars, pathVars>>

CloseInput ==
  /\ ~eof
  /\ eof' = TRUE
  /\ UNCHANGED <<loopVars, now, tty, typed, stdio, script, sockVars, pathVars>>

Receive(d) ==
  /\ MoreInput
  /\ arrivals' = arrivals + 1
  /\ inbox' = Append(inbox, d)
  /\ UNCHANGED <<loopVars, now, inputVars, pathVars>>

-----------------------------------------------------------------------------
\* select.

\* select looks at the descriptor: it does not see stdin's own buffer.
Readable == {fd \in {"stdin", "sock"} :
               \/ fd = "stdin" /\ (typed # <<>> \/ eof)
               \/ fd = "sock" /\ inbox # <<>>}

\* Fault: the timeout runs on from turn to turn.
LoopOn == /\ pc' = "select"
          /\ deadline' = deadline + 1

\* The next turn of the loop: select waits for a second at most.
Loop == /\ pc' = "select"
        /\ deadline' = now + 1

SelectReturns ==
  /\ pc = "select"
  /\ Readable # {} \/ now = deadline
  /\ ready' = Readable
  /\ current_time' = now
  /\ pc' = "stdin"
  /\ UNCHANGED <<now, last_activity, deadline, buffer, peer_addr, inputVars,
                 sockVars, pathVars>>

SelectFails ==
  /\ Interrupts
  /\ pc = "select"
  /\ pc' = "done"
  /\ UNCHANGED <<now, current_time, last_activity, deadline, ready, buffer,
                 peer_addr, inputVars, sockVars, pathVars>>

-----------------------------------------------------------------------------
\* The standard input branch.

NoInput ==
  /\ pc = "stdin"
  /\ "stdin" \notin ready
  /\ pc' = "sock"
  /\ UNCHANGED <<now, current_time, last_activity, deadline, ready, buffer,
                 peer_addr, inputVars, sockVars, pathVars>>

\* memset(buffer), then fgets: one line of stdin's buffer, which is filled
\* first if it is empty; at the end of input fgets leaves the buffer alone.
\* Fault: the buffer is not cleared.
AfterEofStale(old) == old

AfterEof(old) == ""

\* Fault: all that was read is buffered, on a terminal too.
FgetsAhead ==
  IF stdio # <<>>
  THEN /\ buffer' = Head(stdio)
       /\ stdio' = Tail(stdio)
       /\ UNCHANGED typed
  ELSE IF typed # <<>>
  THEN /\ buffer' = Head(typed)
       /\ stdio' = Tail(typed)
       /\ typed' = <<>>
  ELSE /\ buffer' = AfterEof(buffer)
       /\ UNCHANGED <<stdio, typed>>

\* Fault: only the first line of what was read is used.
FgetsFirst ==
  IF typed # <<>>
  THEN /\ buffer' = Head(typed)
       /\ typed' = <<>>
       /\ UNCHANGED stdio
  ELSE /\ buffer' = AfterEof(buffer)
       /\ UNCHANGED <<stdio, typed>>

Fgets ==
  IF stdio # <<>>
  THEN /\ buffer' = Head(stdio)
       /\ stdio' = Tail(stdio)
       /\ UNCHANGED typed
  ELSE IF typed # <<>>
  THEN \E n \in IF tty THEN {1} ELSE DOMAIN typed :
         /\ buffer' = Head(typed)
         /\ stdio' = SubSeq(typed, 2, n)
         /\ typed' = SubSeq(typed, n + 1, Len(typed))
  ELSE /\ buffer' = AfterEof(buffer)
       /\ UNCHANGED <<stdio, typed>>

\* Something goes to peer_addr.
Touch == last_traffic' = IF peer_addr = "peer" THEN now ELSE last_traffic

\* sendto(sock, text, ...): an empty text is an empty datagram.  A send that
\* fails is only reported, and counts as activity all the same.
Send(text) ==
  /\ said' = IF text = "" THEN said ELSE Append(said, text)
  /\ Touch
  /\ UNCHANGED skipped

ReadLine ==
  /\ pc = "stdin"
  /\ "stdin" \in ready
  /\ Fgets
  /\ CASE buffer' = "/iperf server" ->
            /\ pc' = "server"
            /\ UNCHANGED <<last_activity, deadline, pathVars>>
       [] buffer' = "/iperf client" ->
            /\ pc' = "client"
            /\ deadline' = now + TestDuration
            /\ UNCHANGED <<last_activity, pathVars>>
       [] buffer' = "/quit" ->
            /\ pc' = "done"
            /\ UNCHANGED <<last_activity, deadline, pathVars>>
       [] OTHER ->
            /\ Send(buffer')
            /\ last_activity' = current_time
            /\ pc' = "sock"
            /\ UNCHANGED deadline
  /\ UNCHANGED <<now, current_time, ready, peer_addr, tty, eof, script, sockVars>>

\* run_iperf_server: it reads the socket for ever.
ServerRecv ==
  /\ pc = "server"
  /\ inbox # <<>>
  /\ inbox' = Tail(inbox)
  /\ UNCHANGED <<loopVars, now, inputVars, arrivals, pathVars>>

\* run_iperf_client: a second with a datagram in each of its milliseconds, until
\* the time is over; then the activity is dated from before the test.
ClientSend ==
  /\ pc = "client"
  /\ now < deadline
  /\ Touch
  /\ now' = now + 1
  /\ UNCHANGED <<loopVars, inputVars, sockVars, said, skipped>>

ClientEnds ==
  /\ pc = "client"
  /\ now = deadline
  /\ last_activity' = current_time
  /\ pc' = "sock"
  /\ UNCHANGED <<now, current_time, deadline, ready, buffer, peer_addr, inputVars,
                 sockVars, pathVars>>

-----------------------------------------------------------------------------
\* The socket branch.

NoDatagram ==
  /\ pc = "sock"
  /\ "sock" \notin ready
  /\ pc' = "check"
  /\ UNCHANGED <<now, current_time, last_activity, deadline, ready, buffer,
                 peer_addr, inputVars, sockVars, pathVars>>

\* A receive that fails goes straight back to select.
RecvError ==
  /\ pc = "sock"
  /\ "sock" \in ready
  /\ Head(inbox) = Error
  /\ inbox' = Tail(inbox)
  /\ buffer' = ""
  /\ skipped' = skipped + 1
  /\ Loop
  /\ UNCHANGED <<now, current_time, last_activity, ready, peer_addr, inputVars,
                 arrivals, said, last_traffic>>

\* What counts as activity, whoever sent it.
IsActivity(text) == text # "KEEPALIVE"

\* Fault: peer_addr is kept, and any host's datagram counts as activity.
RecvKeepingPeer ==
  /\ pc = "sock"
  /\ "sock" \in ready
  /\ \E text \in Incoming, from \in Host :
       /\ Head(inbox) = <<text, from>>
       /\ buffer' = text
       /\ last_activity' = IF IsActivity(text) THEN current_time ELSE last_activity
       /\ last_traffic' = IF from = "peer" THEN now ELSE last_traffic
  /\ inbox' = Tail(inbox)
  /\ pc' = "check"
  /\ UNCHANGED <<now, current_time, deadline, ready, peer_addr, inputVars, arrivals,
                 said, skipped>>

RecvDatagram ==
  /\ pc = "sock"
  /\ "sock" \in ready
  /\ \E text \in Incoming, from \in Host :
       /\ Head(inbox) = <<text, from>>
       /\ buffer' = text
       /\ peer_addr' = from
       /\ last_activity' = IF IsActivity(text) THEN current_time ELSE last_activity
       /\ last_traffic' = IF from = "peer" THEN now ELSE last_traffic
  /\ inbox' = Tail(inbox)
  /\ pc' = "check"
  /\ UNCHANGED <<now, current_time, deadline, ready, inputVars, arrivals, said, skipped>>

-----------------------------------------------------------------------------
\* The keepalive check.

KeepaliveDue == current_time - last_activity >= KeepaliveInterval

SendKeepalive ==
  /\ pc = "check"
  /\ KeepaliveDue
  /\ last_activity' = current_time
  /\ Touch
  /\ skipped' = 0
  /\ Loop
  /\ UNCHANGED <<now, current_time, ready, buffer, peer_addr, inputVars, sockVars, said>>

NoKeepalive ==
  /\ pc = "check"
  /\ ~KeepaliveDue
  /\ skipped' = 0
  /\ Loop
  /\ UNCHANGED <<now, current_time, last_activity, ready, buffer, peer_addr,
                 inputVars, sockVars, said, last_traffic>>

-----------------------------------------------------------------------------
\* A second passes in select or in the server's receive.
Tick ==
  /\ \/ pc = "select" /\ now < deadline
     \/ pc = "server"
  /\ now < MaxTime
  /\ now' = now + 1
  /\ UNCHANGED <<loopVars, inputVars, sockVars, pathVars>>

Stdin == NoInput \/ ReadLine
Sock == NoDatagram \/ RecvError \/ RecvDatagram
Check == SendKeepalive \/ NoKeepalive
Test == ServerRecv \/ ClientSend \/ ClientEnds

Program == SelectReturns \/ Stdin \/ Sock \/ Check \/ Test

Next ==
  \/ Program \/ SelectFails \/ Tick \/ CloseInput
  \/ \E line \in Line : Type(line)
  \/ \E d \in Arrival : Receive(d)

Spec == Init /\ [][Next]_vars

\* The process is scheduled and the clock runs.
LiveSpec == Spec /\ WF_vars(Program) /\ WF_vars(Tick)

-----------------------------------------------------------------------------
\* The NAT mapping for the peer is held open: outside the server mode, as long as
\* no other host's datagram was the last one read, something goes to the peer or
\* comes from it at least every KEEPALIVE_INTERVAL seconds, and a second later for
\* each failed receive in a row, since such a receive skips the keepalive check.
\* A diversion to another host leaves no debt: the peer's next datagram, even a
\* keepalive, restores the bound.  Input, tests and failures do not widen it.
PathKeptWarm ==
  pc # "server" /\ peer_addr = "peer" =>
    now - last_traffic <= KeepaliveInterval + skipped

ChatLines == SelectSeq(script, LAMBDA line : line \in Chatter)

\* What has been sent is the chat lines typed up to some line, in the order typed;
\* places tells where among all that was typed each text sent is.
SentFrom(places) ==
  /\ \A i, j \in DOMAIN said : i < j => places[i] < places[j]
  /\ \A i \in DOMAIN said : said[i] = script[places[i]]
  /\ \A n \in DOMAIN script :
       (\E i \in DOMAIN said : places[i] = n)
         <=> script[n] \in Chatter /\ \E i \in DOMAIN said : n <= places[i]

\* Each chat line is sent once, in the order typed: the one buffer that input and
\* socket share never sends a stale line, or what a peer sent back to it,
\* at the end of input either.
LinesInOrder == \E places \in [DOMAIN said -> DOMAIN script] : SentFrom(places)

\* "/quit - Exit program", as the client's help puts it: true at a terminal, as
\* long as the server mode has not been entered.  (Lines from a pipe may stay in
\* stdin's buffer, where select does not see them.)
QuitEnds == tty /\ Contains(script, "/quit") ~> pc \in {"done", "server"}

\* A user at a terminal has every line sent, unless the program ends or becomes
\* a server first.
EachLineSaid ==
  \A n \in 1 .. MaxTyped :
    tty /\ Len(ChatLines) >= n ~> Len(said) >= n \/ pc \in {"done", "server"}

\* Why PathKeptWarm holds: activity is never dated later than the traffic it
\* stands for, a test ends within a second of its last datagram, and select is
\* entered with enough of the interval left for its second.
CheckedInTime ==
  /\ last_activity <= current_time /\ current_time <= now /\ last_traffic <= now
  /\ pc = "select" => now <= deadline
  /\ pc = "stdin" => now = current_time
  /\ pc = "client" => deadline = current_time + TestDuration
  /\ peer_addr = "peer" =>
       /\ pc # "client" => last_activity <= last_traffic
       /\ pc = "select" => deadline - last_traffic <= KeepaliveInterval + skipped
       /\ pc \in {"client", "sock", "check"} =>
            now = current_time \/ now - last_traffic <= 1
       /\ pc \in {"stdin", "sock", "check", "client", "done"} =>
            now - last_traffic <= KeepaliveInterval + skipped
=============================================================================
