---------------------------- MODULE TcpExchange -----------------------------
(***************************************************************************)
(* The repository's programs over TCP, a server that serves one client and *)
(* exits, and clients:                                                     *)
(* - "week2": server_tcp.c and client_tcp.c, which look at no result;      *)
(* - "week3": server_peer2.c and client_peer1.c, which do;                 *)
(* - "tcp_test": connect and close, nothing is said.                       *)
(*                                                                         *)
(* In the first two the client greets, the server reads with one recv and  *)
(* greets back, and the client reads with one recv.  Users start, kill and *)
(* restart the programs as they like.                                      *)
(***************************************************************************)
EXTENDS TcpHost, FiniteSets

CONSTANT MaxStarts  \* bound: times the server is started

ASSUME StartsAreCounted == MaxStarts \in Nat

VARIABLES
  pair,    \* which programs are run; "none" if those of Exchange are
  server,  \* "off", "bind", "accept", "recv", "send", "close"
  client,  \* client[c]: where c is
  starts,  \* times the server has been started
  read,    \* history: read[c], parts of c's greeting that a server has read
  got,     \* history: got[c], parts of a server's greeting that c has read
  cut      \* history: cut[c], the server was killed while it served c

tcpVars == <<pair, server, client, starts, read, got, cut, tcpHostVars>>
historyVars == <<read, got, cut>>

AtEnd == {"done", "SIGPIPE", "killed"}

TcpTypeOK ==
  /\ pair \in {"week2", "week3", "tcp_test", "none"}
  /\ server \in {"off", "bind", "accept", "recv", "send", "close"}
  /\ client \in [Clients -> {"off", "refused", "send", "recv", "close"} \union AtEnd]
  /\ starts \in 0 .. MaxStarts
  /\ read \in [Clients -> 0 .. 2] /\ got \in [Clients -> 0 .. 2]
  /\ cut \in [Clients -> BOOLEAN]
  /\ HostTypeOK

TcpInit ==
  /\ pair \in {"week2", "week3", "tcp_test", "none"}
  /\ server = "off" /\ starts = 0
  /\ client = [c \in Clients |-> "off"]
  /\ read = [c \in Clients |-> 0] /\ got = [c \in Clients |-> 0]
  /\ cut = [c \in Clients |-> FALSE]
  /\ HostInit

-----------------------------------------------------------------------------
\* The server.

StartServer ==
  /\ pair # "none"
  /\ server = "off" /\ starts < MaxStarts
  /\ server' = "bind"
  /\ starts' = starts + 1
  /\ UNCHANGED <<pair, client, historyVars, tcpHostVars>>

\* The program looks at the result of bind.
BindChecked ==
  /\ server = "bind" /\ pair # "week2"
  /\ \/ port = "free" /\ port' = "held" /\ server' = "accept"
     \/ port # "free" /\ server' = "off" /\ UNCHANGED port
  /\ UNCHANGED <<pair, client, starts, historyVars, conn, up, down>>

\* Or it does not: a socket that is not bound listens all the same, on a port that
\* the kernel chooses and nobody knows.
BindUnchecked ==
  /\ server = "bind" /\ pair = "week2"
  /\ port' = IF port = "free" THEN "held" ELSE port
  /\ server' = "accept"
  /\ UNCHANGED <<pair, client, starts, historyVars, conn, up, down>>

Accept(c) ==
  /\ server = "accept"
  /\ conn[c] = "queued"
  /\ conn' = [conn EXCEPT ![c] = "open"]
  /\ server' = IF pair = "tcp_test" THEN "close" ELSE "recv"
  /\ UNCHANGED <<pair, client, starts, historyVars, port, up, down>>

\* socket or accept fails, and with it in week2 whatever follows.
ServerError ==
  /\ server \in {"bind", "accept"}
  /\ server' = "off"
  /\ CloseServer
  /\ UNCHANGED <<pair, client, starts, historyVars>>

\* One recv, a part of the greeting or nothing will do.
ServerRecv(c) ==
  /\ server = "recv" /\ conn[c] = "open"
  /\ up[c] # <<>>
  /\ \E n \in Readable(up[c]) :
       /\ read' = [read EXCEPT ![c] = n]
       /\ up' = [up EXCEPT ![c] = SubSeq(@, n + 1, Len(@))]
  /\ server' = "send"
  /\ UNCHANGED <<pair, client, starts, got, cut, port, conn, down>>

ServerSend(c) ==
  /\ server = "send" /\ conn[c] = "open"
  /\ down' = [down EXCEPT ![c] = @ \o Greeting]
  /\ server' = "close"
  /\ UNCHANGED <<pair, client, starts, historyVars, port, conn, up>>

\* Fault: the server keeps its listening socket, for the next client in its queue.
ServerCloseServesOn ==
  /\ server = "close"
  /\ server' = "accept"
  /\ conn' = [c \in Clients |-> IF conn[c] = "open" THEN "closed" ELSE conn[c]]
  /\ down' = [c \in Clients |-> IF conn[c] = "open" THEN AfterClose(down[c], up[c])
                                                   ELSE down[c]]
  /\ UNCHANGED <<pair, client, starts, historyVars, port, up>>

ServerClose ==
  /\ server = "close"
  /\ server' = "off"
  /\ CloseServer
  /\ UNCHANGED <<pair, client, starts, historyVars>>

KillServer ==
  /\ server # "off"
  /\ server' = "off"
  /\ CloseServer
  /\ cut' = [c \in Clients |-> cut[c] \/ conn[c] = "open"]
  /\ UNCHANGED <<pair, client, starts, read, got>>

-----------------------------------------------------------------------------
\* The clients.

AfterConnect == IF pair = "tcp_test" THEN "close" ELSE "send"

\* Somebody listens on the port and queues the client, or connect fails.
Connect(c) ==
  /\ pair # "none" /\ client[c] = "off"
  /\ \/ Queue(c) /\ client' = [client EXCEPT ![c] = AfterConnect]
     \/ client' = [client EXCEPT ![c] = "refused"] /\ UNCHANGED tcpHostVars
  /\ UNCHANGED <<pair, server, starts, historyVars>>

Refused(c) ==
  /\ client[c] = "refused" /\ pair # "week2"
  /\ client' = [client EXCEPT ![c] = "done"]
  /\ UNCHANGED <<pair, server, starts, historyVars, tcpHostVars>>

\* The client of week2 sends on a socket that was never connected.
SendUnconnected(c) ==
  /\ client[c] = "refused" /\ pair = "week2"
  /\ client' = [client EXCEPT ![c] = "SIGPIPE"]
  /\ UNCHANGED <<pair, server, starts, historyVars, tcpHostVars>>

\* Fault: the client waits for the server's greeting first.
ClientSendBack(c) ==
  /\ client[c] = "send"
  /\ down[c] # <<>>
  /\ up' = [up EXCEPT ![c] = @ \o Greeting]
  /\ client' = [client EXCEPT ![c] = "recv"]
  /\ UNCHANGED <<pair, server, starts, historyVars, port, conn, down>>

\* Fault: the client does not wait for the server's greeting.
ClientSendLeaves(c) ==
  /\ client[c] = "send"
  /\ up' = [up EXCEPT ![c] = @ \o Greeting]
  /\ client' = [client EXCEPT ![c] = "close"]
  /\ UNCHANGED <<pair, server, starts, historyVars, port, conn, down>>

\* What is sent to a connection the server has closed goes nowhere.
ClientSend(c) ==
  /\ client[c] = "send"
  /\ up' = IF conn[c] = "closed" THEN up ELSE [up EXCEPT ![c] = @ \o Greeting]
  /\ client' = [client EXCEPT ![c] = "recv"]
  /\ UNCHANGED <<pair, server, starts, historyVars, port, conn, down>>

\* One recv.  If it returns nothing the client of week3 reports nothing; that of
\* week2 shows its own greeting, which is still in the buffer, as the server's.
ClientRecv(c) ==
  /\ client[c] = "recv"
  /\ down[c] # <<>>
  /\ \E n \in Readable(down[c]) :
       /\ got' = [got EXCEPT ![c] = n]
       /\ down' = [down EXCEPT ![c] = SubSeq(@, n + 1, Len(@))]
  /\ client' = [client EXCEPT ![c] = "close"]
  /\ UNCHANGED <<pair, server, starts, read, cut, port, conn, up>>

ClientClose(c) ==
  /\ client[c] = "close"
  /\ CloseClient(c)
  /\ client' = [client EXCEPT ![c] = "done"]
  /\ UNCHANGED <<pair, server, starts, historyVars>>

KillClient(c) ==
  /\ client[c] \in {"send", "recv", "close"}
  /\ CloseClient(c)
  /\ client' = [client EXCEPT ![c] = "killed"]
  /\ UNCHANGED <<pair, server, starts, historyVars>>

PortLingers == /\ LingerEnds
               /\ UNCHANGED <<pair, server, client, starts, historyVars>>

-----------------------------------------------------------------------------
ServerStep == \/ BindChecked \/ BindUnchecked \/ ServerClose
              \/ \E c \in Clients : Accept(c) \/ ServerRecv(c) \/ ServerSend(c)
ClientStep(c) == \/ Refused(c) \/ SendUnconnected(c)
                 \/ ClientSend(c) \/ ClientRecv(c) \/ ClientClose(c)

TcpNext == \/ StartServer \/ ServerStep \/ ServerError \/ KillServer \/ PortLingers
           \/ \E c \in Clients : Connect(c) \/ ClientStep(c) \/ KillClient(c)

\* Programs that have been started run on; nobody has to start, kill or connect.
TcpFairness == /\ WF_tcpVars(ServerStep)
               /\ \A c \in Clients : WF_tcpVars(ClientStep(c))

-----------------------------------------------------------------------------
\* A client whose connect and send have succeeded has reached a queue, not a
\* server: of all the clients only one is heard, or answered, for each time that a
\* user starts the server.
Served == {c \in Clients : read[c] > 0 \/ got[c] > 0}
OneClientEach == Cardinality(Served) <= starts

\* A client that waits for its greeting gets at least the beginning of it from a
\* server that has read the whole of the client's and was not killed.  (A server
\* that has read a part only resets the connection, and its greeting may be lost.)
GreetingArrives ==
  \A c \in Clients : client[c] = "done" /\ read[c] = 2 /\ ~cut[c] => got[c] > 0

\* Every client ends, whether it is refused, served, left in the queue of a server
\* that serves another one, or its server is killed; and but for week2's it ends
\* by itself or its user's hand, never by a SIGPIPE.
ClientEnds ==
  \A c \in Clients :
    client[c] # "off" ~> \/ client[c] \in {"done", "killed"}
                         \/ client[c] = "SIGPIPE" /\ pair = "week2"
=============================================================================
