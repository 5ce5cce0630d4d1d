------------------------------ MODULE Exchange ------------------------------
(***************************************************************************)
(* The repository's exchanges over UDP without any handshake:              *)
(* - "message": udp_test_02/main.c, the same program at both ends, sends   *)
(*   one message and waits for one;                                        *)
(* - "talk": week1/p2p_client.c, the same program at both ends, sends one  *)
(*   NAT_PUNCH into the blue and then talks;                               *)
(* - "echo": udp_test, a client (A) that sends one message and waits for   *)
(*   it to come back from a server (B) that is behind no NAT.              *)
(*                                                                         *)
(* Nothing is ever sent again, and every receive waits for ever.  The only *)
(* losses modelled are those at a closed NAT or socket: they are the ones  *)
(* the order of the two users' steps decides about.                        *)
(***************************************************************************)
EXTENDS UdpNat

CONSTANT MaxLines  \* bound: lines each user of "talk" types

ASSUME LinesAreCounted == MaxLines \in Nat

VARIABLES
  program,  \* which of the three is run; "none" if those of TcpExchange are
  phase,    \* phase[p]: where p's program is
  lines,    \* lines[p]: lines p's user has typed, in "talk"
  heard,    \* history: heard[p], datagrams p's program has read
  due       \* history: due[p], datagrams sent to p once it was ready

vars == <<program, phase, lines, heard, due, netVars>>

Message == {"NAT_PUNCH", "TEXT"}
Ended == {"done", "failed"}
Phase == {"prompt", "bound", "wait", "loop"} \union Ended

\* week1 binds its socket before the prompt, the others after it.
SocketOpen(p) == \/ phase[p] \in {"bound", "wait", "loop"}
                 \/ phase[p] = "prompt" /\ program = "talk"

\* p has sent what it sends before it receives, or is a server that listens.
Ready(p) == phase[p] \in {"wait", "loop"}

\* Where the programs are, and what they have sent, read and could have read.
TypeOK ==
  /\ program \in {"message", "talk", "echo", "none"}
  /\ phase \in [Peers -> Phase]
  /\ lines \in [Peers -> 0 .. MaxLines]
  /\ heard \in [Peers -> 0 .. MaxLines + 1]
  /\ due \in [Peers -> 0 .. MaxLines + 1]
  /\ NetTypeOK(Message)

Init ==
  /\ program \in {"message", "talk", "echo", "none"}
  /\ phase = [p \in Peers |-> "prompt"]
  /\ lines = [p \in Peers |-> 0]
  /\ heard = [p \in Peers |-> 0]
  /\ due = [p \in Peers |-> 0]
  /\ wire = [p \in Peers |-> <<>>]
  /\ inbox = [p \in Peers |-> <<>>]
  /\ opened = [p \in Peers |-> program = "echo" /\ p = B]
  /\ dups = 0

Goto(p, label) == phase' = [phase EXCEPT ![p] = label]

\* sendto, noting whether the other side is ready.
SendTo(p, m) ==
  /\ Post(p, m)
  /\ due' = IF Ready(Other(p)) THEN [due EXCEPT ![Other(p)] = @ + 1] ELSE due

ReceiveFrom(p) ==
  /\ Take(p)
  /\ heard' = [heard EXCEPT ![p] = @ + 1]

\* The program ends and its socket is closed.
Exit(p, label) ==
  /\ Goto(p, label)
  /\ inbox' = [inbox EXCEPT ![p] = <<>>]
  /\ UNCHANGED <<wire, opened, dups>>

-----------------------------------------------------------------------------
\* udp_test_02/main.c.

\* The endpoint has been typed: a new socket is bound, or that fails.
Bind(p) ==
  /\ program = "message" /\ phase[p] = "prompt"
  /\ Goto(p, "bound") \/ Goto(p, "failed")
  /\ UNCHANGED <<program, lines, heard, due, netVars>>

\* Fault: the message is only sent when one has come.
SendMessageBack(p) ==
  /\ program = "message" /\ phase[p] = "bound"
  /\ inbox[p] # <<>>
  /\ SendTo(p, "TEXT") /\ Goto(p, "wait")
  /\ UNCHANGED <<program, lines, heard, inbox>>

\* The message has been typed.
SendMessage(p) ==
  /\ program = "message" /\ phase[p] = "bound"
  /\ \/ SendTo(p, "TEXT") /\ Goto(p, "wait") /\ UNCHANGED inbox
     \/ Exit(p, "failed") /\ UNCHANGED due
  /\ UNCHANGED <<program, lines, heard>>

ReadMessage(p) ==
  /\ program = "message" /\ phase[p] = "wait"
  /\ ReceiveFrom(p)
  /\ Goto(p, "done")
  /\ UNCHANGED <<program, lines, due, wire, opened, dups>>

-----------------------------------------------------------------------------
\* week1/p2p_client.c.

\* Fault: nothing is sent before the first line.
StartSilently(p) ==
  /\ program = "talk" /\ phase[p] = "prompt"
  /\ Goto(p, "loop")
  /\ UNCHANGED <<program, lines, heard, due, netVars>>

\* The endpoint has been typed: one datagram opens the NAT.
Start(p) ==
  /\ program = "talk" /\ phase[p] = "prompt"
  /\ SendTo(p, "NAT_PUNCH")
  /\ Goto(p, "loop")
  /\ UNCHANGED <<program, lines, heard, inbox>>

\* A line, or the empty datagram each turn of the loop sends after the end of input.
Say(p) ==
  /\ program = "talk" /\ phase[p] = "loop"
  /\ lines[p] < MaxLines
  /\ lines' = [lines EXCEPT ![p] = @ + 1]
  /\ SendTo(p, "TEXT")
  /\ UNCHANGED <<program, phase, heard, inbox>>

\* Whatever comes is printed, a NAT_PUNCH too.
Hear(p) ==
  /\ program = "talk" /\ phase[p] = "loop"
  /\ ReceiveFrom(p)
  /\ UNCHANGED <<program, phase, lines, due, wire, opened, dups>>

\* Fault: an error in select starts the program again.
StartAgain(p) ==
  /\ program = "talk" /\ phase[p] = "loop"
  /\ Exit(p, "prompt")
  /\ UNCHANGED <<program, lines, heard, due>>

SelectFails(p) ==
  /\ program = "talk" /\ phase[p] = "loop"
  /\ Exit(p, "failed")
  /\ UNCHANGED <<program, lines, heard, due>>

-----------------------------------------------------------------------------
\* udp_test/udp_client.c and udp_server.c.

Listen ==
  /\ program = "echo" /\ phase[B] = "prompt"
  /\ Goto(B, "loop") \/ Goto(B, "failed")
  /\ UNCHANGED <<program, lines, heard, due, netVars>>

\* Fault: what was received is not sent back.
Swallow ==
  /\ program = "echo" /\ phase[B] = "loop"
  /\ ReceiveFrom(B)
  /\ UNCHANGED <<program, phase, lines, due, wire, opened, dups>>

Echo ==
  /\ program = "echo" /\ phase[B] = "loop"
  /\ ReceiveFrom(B)
  /\ SendTo(B, "TEXT")
  /\ UNCHANGED <<program, phase, lines>>

ServerFails ==
  /\ program = "echo" /\ phase[B] = "loop"
  /\ Exit(B, "failed")
  /\ UNCHANGED <<program, lines, heard, due>>

Hello ==
  /\ program = "echo" /\ phase[A] = "prompt"
  /\ \/ SendTo(A, "TEXT") /\ Goto(A, "wait")
     \/ Goto(A, "failed") /\ UNCHANGED <<due, wire, opened, dups>>
  /\ UNCHANGED <<program, lines, heard, inbox>>

ReadEcho ==
  /\ program = "echo" /\ phase[A] = "wait"
  /\ ReceiveFrom(A)
  /\ Goto(A, "done")
  /\ UNCHANGED <<program, lines, due, wire, opened, dups>>

-----------------------------------------------------------------------------
\* A receive of "message" or of the echo client fails.
WaitFails(p) ==
  /\ phase[p] = "wait"
  /\ Exit(p, "failed")
  /\ UNCHANGED <<program, lines, heard, due>>

Deliver(p) == /\ Arrive(p, SocketOpen(p))
              /\ UNCHANGED <<program, phase, lines, heard, due>>

Peer(p) == \/ Bind(p) \/ SendMessage(p) \/ ReadMessage(p)
           \/ Start(p) \/ Hear(p)

Server == Listen \/ Echo
EchoClient == Hello \/ ReadEcho
Error(p) == SelectFails(p) \/ WaitFails(p)

Next == \/ Server \/ EchoClient \/ ServerFails
        \/ \E p \in Peers : Peer(p) \/ Say(p) \/ Error(p) \/ Deliver(p)

\* The programs run, their users type the endpoint and the message, and what is
\* sent arrives at the NAT.  Nobody has to go on talking.
Fairness == /\ WF_vars(Server) /\ WF_vars(EchoClient)
            /\ \A p \in Peers : WF_vars(Peer(p)) /\ WF_vars(Deliver(p))

-----------------------------------------------------------------------------
\* What is sent to a program that is ready is read there, unless that program
\* ends: a program that has sent something, be it only its NAT_PUNCH, needs no
\* second try, in whatever order the two users proceed.
ReadyHears ==
  \A p \in Peers : \A n \in 1 .. MaxLines + 1 :
    due[p] >= n ~> heard[p] >= n \/ phase[p] \in Ended

\* In "message" what is sent before the other side is ready is lost for good,
\* but not at both ends: the one who sends second reaches the one who waits.
NotBothWait == program = "message" ~> \E p \in Peers : phase[p] \in Ended

\* An echo client that finds its server listening gets its answer.
EchoReturns ==
  program = "echo" /\ due[B] > 0 ~> \E p \in Peers : phase[p] \in Ended
=============================================================================
