------------------------------- MODULE Punch -------------------------------
(***************************************************************************)
(* UDP hole punching between two clients: perform_nat_punching of          *)
(* test3/p2p_client.c, from the prompt for the peer's endpoint up to the   *)
(* chat loop.  Time is counted in punch intervals (PUNCH_INTERVAL_MS); the *)
(* code reads it in whole seconds of IntervalsPerSecond intervals.         *)
(*                                                                         *)
(* Two notions of time.  Without Lockstep each peer sleeps as long as it   *)
(* likes between two attempts and the network is arbitrarily slow; with    *)
(* Lockstep both clocks run at one rate, a datagram crosses the network    *)
(* within one interval, and the users start at most MaxSkew apart.         *)
(*                                                                         *)
(* Every datagram is one of these two runs': the code never compares a     *)
(* sender (recv_addr), and what a third host or an earlier run's peer      *)
(* would send to a socket that punches is not modelled.                    *)
(***************************************************************************)
EXTENDS UdpNat

CONSTANTS
  PunchTimeout,  \* PUNCH_TIMEOUT_SEC, in punch intervals
  IntervalsPerSecond,
  Lockstep,      \* equal clocks and a prompt network
  MaxSkew,       \* Lockstep: intervals between the two users' entries
  MaxChat        \* bound: chat lines a peer sends

ASSUME TimeoutIsPositive == /\ PunchTimeout \in Nat \ {0}
                            /\ IntervalsPerSecond \in 1 .. PunchTimeout
ASSUME SchedulingKind == /\ Lockstep \in BOOLEAN
                         /\ MaxSkew \in Nat
                         /\ MaxChat \in Nat

VARIABLES
  phase,    \* phase[p]: where p's program is
  elapsed,  \* elapsed[p]: time(NULL) - start_time, up to PunchTimeout
  chats,    \* chats[p]: chat lines p has sent
  heard     \* history: heard[p] iff p has read a PUNCH_REQ while punching

vars == <<phase, elapsed, chats, heard, netVars>>

Datagram == {"REQ", "ACK", "CHAT"}
Phase == {"prompt", "top", "recv", "sleep", "chat", "failed", "quit"}

Established(p) == phase[p] \in {"chat", "quit"}
Failed(p) == phase[p] = "failed"
Punching(p) == phase[p] \in {"top", "recv", "sleep"}
SocketOpen(p) == phase[p] \notin {"failed", "quit"}

\* Where each program is, its elapsed time within the timeout, and datagrams of
\* the three kinds only.
TypeOK ==
  /\ phase \in [Peers -> Phase]
  /\ elapsed \in [Peers -> 0 .. PunchTimeout]
  /\ chats \in [Peers -> 0 .. MaxChat]
  /\ heard \in [Peers -> BOOLEAN]
  /\ NetTypeOK(Datagram)

Init ==
  /\ phase = [p \in Peers |-> "prompt"]
  /\ elapsed = [p \in Peers |-> 0]
  /\ chats = [p \in Peers |-> 0]
  /\ heard = [p \in Peers |-> FALSE]
  /\ NetInit

Goto(p, label) == phase' = [phase EXCEPT ![p] = label]

\* close(sock): what was queued on the socket is gone.
CloseSocket(p) == inbox' = [inbox EXCEPT ![p] = <<>>]

-----------------------------------------------------------------------------
\* perform_nat_punching.

\* The user has typed the peer's endpoint; start_time is taken in whole
\* seconds, so the part of the second already gone counts as elapsed.
Enter(p) ==
  /\ phase[p] = "prompt"
  /\ Goto(p, "top")
  /\ \E gone \in 0 .. IntervalsPerSecond - 1 :
       elapsed' = [elapsed EXCEPT ![p] = gone]
  /\ UNCHANGED <<chats, heard, netVars>>

TimeLeft(p) == elapsed[p] < PunchTimeout

\* Fault: the two messages swapped.
SendAck(p) ==
  /\ phase[p] = "top"
  /\ TimeLeft(p)
  /\ Post(p, "ACK")
  /\ Goto(p, "recv")
  /\ UNCHANGED <<elapsed, chats, heard, inbox>>

SendReq(p) ==
  /\ phase[p] = "top"
  /\ TimeLeft(p)
  /\ Post(p, "REQ")
  /\ Goto(p, "recv")
  /\ UNCHANGED <<elapsed, chats, heard, inbox>>

\* Fault: no giving up once the other peer has been heard.
GiveUpUnheard(p) ==
  /\ phase[p] = "top"
  /\ ~TimeLeft(p) /\ ~heard[p]
  /\ CloseSocket(p)
  /\ Goto(p, "failed")
  /\ UNCHANGED <<elapsed, chats, heard, wire, opened, dups>>

\* The timeout: the function returns -1 and main closes the socket.
GiveUp(p) ==
  /\ phase[p] = "top"
  /\ ~TimeLeft(p)
  /\ CloseSocket(p)
  /\ Goto(p, "failed")
  /\ UNCHANGED <<elapsed, chats, heard, wire, opened, dups>>

\* The one non-blocking recvfrom of an iteration finds nothing.
RecvNothing(p) ==
  /\ phase[p] = "recv"
  /\ inbox[p] = <<>>
  /\ Goto(p, "sleep")
  /\ UNCHANGED <<elapsed, chats, heard, netVars>>

\* Fault: a request is not answered.
RecvReqSilent(p) ==
  /\ phase[p] = "recv"
  /\ Take(p)
  /\ Head(inbox[p]) = "REQ"
  /\ heard' = [heard EXCEPT ![p] = TRUE]
  /\ Goto(p, "sleep")
  /\ UNCHANGED <<elapsed, chats, wire, opened, dups>>

\* Fault: a request ends the punching before it is answered.
RecvReqEnds(p) ==
  /\ phase[p] = "recv"
  /\ Take(p)
  /\ Head(inbox[p]) = "REQ"
  /\ heard' = [heard EXCEPT ![p] = TRUE]
  /\ Goto(p, "chat")
  /\ UNCHANGED <<elapsed, chats, wire, opened, dups>>

\* A request is answered and punching goes on: only an answer ends it.
RecvReq(p) ==
  /\ phase[p] = "recv"
  /\ Take(p)
  /\ Head(inbox[p]) = "REQ"
  /\ heard' = [heard EXCEPT ![p] = TRUE]
  /\ Post(p, "ACK")
  /\ Goto(p, "sleep")
  /\ UNCHANGED <<elapsed, chats>>

\* Fault: whatever the peer sent counts as its answer.
RecvAny(p) ==
  /\ phase[p] = "recv"
  /\ Take(p)
  /\ Goto(p, "chat")
  /\ UNCHANGED <<elapsed, chats, heard, wire, opened, dups>>

RecvAck(p) ==
  /\ phase[p] = "recv"
  /\ Take(p)
  /\ Head(inbox[p]) = "ACK"
  /\ Goto(p, "chat")
  /\ UNCHANGED <<elapsed, chats, heard, wire, opened, dups>>

\* A chat line or keepalive of a peer that got through earlier is dropped.
RecvOther(p) ==
  /\ phase[p] = "recv"
  /\ Take(p)
  /\ Head(inbox[p]) = "CHAT"
  /\ Goto(p, "sleep")
  /\ UNCHANGED <<elapsed, chats, heard, wire, opened, dups>>

\* Fault: an interval more, whether or not the timeout has passed.
LaterUncapped(p) == {elapsed[p] + 1, elapsed[p] + 2}

\* usleep lasts at least one interval.
Later(p) == elapsed[p] + 1 .. PunchTimeout

Sleep(p) ==
  /\ ~Lockstep
  /\ phase[p] = "sleep"
  /\ \E t \in Later(p) : elapsed' = [elapsed EXCEPT ![p] = t]
  /\ Goto(p, "top")
  /\ UNCHANGED <<chats, heard, netVars>>

\* Lockstep: one interval passes for both peers at once.
Tick ==
  /\ Lockstep
  /\ \A p \in Peers :
       /\ phase[p] \notin {"top", "recv"}
       /\ wire[p] = <<>>
       /\ phase[p] = "prompt" => elapsed[Other(p)] < MaxSkew
  /\ \E p \in Peers : phase[p] = "sleep"
  /\ phase' = [p \in Peers |-> IF phase[p] = "sleep" THEN "top" ELSE phase[p]]
  /\ elapsed' = [p \in Peers |->
                   IF phase[p] = "sleep" THEN elapsed[p] + 1 ELSE elapsed[p]]
  /\ UNCHANGED <<chats, heard, netVars>>

-----------------------------------------------------------------------------
\* The chat loop, as far as a peer that is still punching can tell.

ChatSend(p) ==
  /\ phase[p] = "chat"
  /\ chats[p] < MaxChat
  /\ chats' = [chats EXCEPT ![p] = @ + 1]
  /\ Post(p, "CHAT")
  /\ UNCHANGED <<phase, elapsed, heard, inbox>>

\* Whatever comes in is printed, a late PUNCH_REQ included: no answer.
ChatRecv(p) ==
  /\ phase[p] = "chat"
  /\ Take(p)
  /\ UNCHANGED <<phase, elapsed, chats, heard, wire, opened, dups>>

Quit(p) ==
  /\ phase[p] = "chat"
  /\ CloseSocket(p)
  /\ Goto(p, "quit")
  /\ UNCHANGED <<elapsed, chats, heard, wire, opened, dups>>

-----------------------------------------------------------------------------
Punch(p) == \/ SendReq(p) \/ GiveUp(p) \/ Sleep(p)
            \/ RecvNothing(p) \/ RecvReq(p) \/ RecvAck(p) \/ RecvOther(p)

Chat(p) == ChatSend(p) \/ ChatRecv(p) \/ Quit(p)

Network(p) == /\ Arrive(p, SocketOpen(p)) \/ Lose(p) \/ Duplicate(p)
              /\ UNCHANGED <<phase, elapsed, chats, heard>>

Next == \/ Tick
        \/ \E p \in Peers : Enter(p) \/ Punch(p) \/ Chat(p) \/ Network(p)

Spec == Init /\ [][Next]_vars

\* A program that can take a step takes one, the users do type the endpoint,
\* datagrams that are not lost arrive, and the clock runs.
Deliver(p) == /\ Arrive(p, SocketOpen(p))
              /\ UNCHANGED <<phase, elapsed, chats, heard>>

Fairness == /\ WF_vars(Tick)
            /\ \A p \in Peers : /\ WF_vars(Enter(p))
                                /\ WF_vars(Punch(p))
                                /\ WF_vars(Deliver(p))

LiveSpec == Spec /\ Fairness

-----------------------------------------------------------------------------
\* An attempt is only ever under way before the timeout: no request is sent and
\* no datagram read by a peer whose time is up.
InTime == \A p \in Peers : phase[p] \in {"recv", "sleep"} => TimeLeft(p)

\* "P2P connection established" is never claimed over a path that works one
\* way only: the other peer has read a request this peer sent.  Holds on any
\* network, with losses, duplicates, overtaking and filtering.
TwoWayPath == \A p \in Peers : Established(p) => heard[Other(p)]

\* Why TwoWayPath holds: a PUNCH_ACK is only ever sent to answer a request, so
\* one that is still to be read proves that its sender heard the reader.
AckMeansHeard == \A p \in Peers : Pending(p, "ACK") => heard[Other(p)]

\* An established peer never answers a PUNCH_REQ again, so the answer the other
\* peer needs must be on its way when the first one stops punching.  That is
\* so on a network that delivers everything in order.
Reliable == ~Lossy /\ ~Reordering /\ ~Filtering

AckOwed ==
  Reliable =>
    \A p \in Peers :
      Established(p) => \/ Established(Other(p)) \/ Failed(Other(p))
                        \/ Pending(Other(p), "ACK")

\* Why AckOwed holds.  Datagrams to p arrive in the order they were sent, and
\* a peer sends its own request before it can answer one:
\* - a peer that has sent anything has a request to p still unread, if p has
\*   not heard it;
\* - ahead of every PUNCH_ACK a peer has yet to read there is a request, which
\*   it will answer first;
\* - a peer that has heard the other has its answer still unread there, or the
\*   other one has stopped punching.
Gone(p) == Established(p) \/ Failed(p)

ReqFirst ==
  \A p \in Peers : ~heard[p] /\ ~Failed(p) =>
    /\ opened[Other(p)] => Pending(p, "REQ")
    /\ \A i \in DOMAIN inbox[p] : inbox[p][i] = "ACK" =>
         \E j \in DOMAIN inbox[p] : j < i /\ inbox[p][j] = "REQ"
    /\ \A i \in DOMAIN wire[p] : wire[p][i] = "ACK" =>
         \/ Contains(inbox[p], "REQ")
         \/ \E j \in DOMAIN wire[p] : j < i /\ wire[p][j] = "REQ"

AnswerPending ==
  \A p \in Peers :
    /\ heard[p] => Gone(Other(p)) \/ Pending(Other(p), "ACK")
    /\ Established(p) => heard[p]
    /\ phase[p] \in {"recv", "chat"} => opened[p]

AckOrder == Reliable => ReqFirst /\ AnswerPending

\* "P2P connection established": the user who types the endpoint while the other
\* client is punching already does not get a timeout where that one is told so:
\* nothing is lost on this network, and the early client chats.
LateStarterConnects ==
  \A p \in Peers :
    [](phase[p] = "prompt" /\ Punching(Other(p))
         => [](Established(Other(p)) => ~Failed(p)))

\* The main loop that follows is reached, or the program ends, within the
\* timeout: no peer punches for ever, whatever arrives.
PunchEnds == \A p \in Peers : Punching(p) ~> Established(p) \/ Failed(p)

\* Two users who start close enough to each other get a connection at both
\* ends: every peer works through the requests queued before it started and
\* finds the answer before its own timeout.
BothConnect == <>(\A p \in Peers : Established(p))

\* Punching as PunchContract promises it: one final verdict per peer, and a
\* connection only with a peer that heard this one.
Contract == INSTANCE PunchContract WITH
  status <- [p \in Peers |-> IF Established(p) THEN "connected"
                             ELSE IF Failed(p) THEN "failed" ELSE "trying"],
  reached <- {p \in Peers : heard[p]}

KeepsContract == Contract!Spec

=============================================================================
