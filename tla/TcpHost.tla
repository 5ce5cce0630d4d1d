------------------------------ MODULE TcpHost -------------------------------
(***************************************************************************)
(* The kernel's side of the TCP programs, modelled from how they use it: a *)
(* server's port, the connections that wait in its listen queue or have    *)
(* been accepted, and the two streams of each connection.                  *)
(*                                                                         *)
(* A stream is what its reader has not taken yet, arrived or not: parts of *)
(* a message, then the end.  A close that leaves parts unread resets the   *)
(* connection, and what the other side has not taken may then be lost.     *)
(***************************************************************************)
EXTENDS Naturals, Sequences, SequencesExt

CONSTANT Clients

VARIABLES
  port,  \* "free", "held" by a server, or "lingering": its last connection lives on
  conn,  \* conn[c]: the server's end of c's connection
  up,    \* up[c]: the stream from c
  down   \* down[c]: the stream to c

tcpHostVars == <<port, conn, up, down>>

Stream == Seq({"part", "FIN", "RST"})
Greeting == <<"part", "part">>

HostTypeOK ==
  /\ port \in {"free", "held", "lingering"}
  /\ conn \in [Clients -> {"none", "queued", "open", "closed"}]
  /\ up \in [Clients -> Stream] /\ down \in [Clients -> Stream]

HostInit ==
  /\ port = "free"
  /\ conn = [c \in Clients |-> "none"]
  /\ up = [c \in Clients |-> <<>>] /\ down = [c \in Clients |-> <<>>]

\* How many parts one recv may return: those at the head of the stream or the
\* first of them, and none if the stream has ended there or a reset overtakes them.
Readable(stream) ==
  {n \in 0 .. Len(stream) :
     /\ \A i \in 1 .. n : stream[i] = "part"
     /\ n = 0 => stream[1] # "part" \/ Contains(stream, "RST")}

\* A stream whose writer has closed, with the other stream not read to its end.
AfterClose(stream, unread) ==
  Append(stream, IF Contains(unread, "part") THEN "RST" ELSE "FIN")

\* The listening socket on the port takes up c's connection.
Queue(c) ==
  /\ port = "held"
  /\ conn' = [conn EXCEPT ![c] = "queued"]
  /\ UNCHANGED <<port, up, down>>

\* c's socket is closed, by c or by the end of c.
CloseClient(c) ==
  /\ up' = IF conn[c] \in {"queued", "open"}
           THEN [up EXCEPT ![c] = AfterClose(@, down[c])] ELSE up
  /\ UNCHANGED <<port, conn, down>>

\* All sockets of the server are closed: what was queued is reset, and a
\* connection that ends with FIN keeps the port for a while.
CloseServer ==
  /\ conn' = [c \in Clients |-> IF conn[c] = "none" THEN "none" ELSE "closed"]
  /\ down' = [c \in Clients |-> CASE conn[c] = "open" -> AfterClose(down[c], up[c])
                                  [] conn[c] = "queued" -> <<"RST">>
                                  [] OTHER -> down[c]]
  /\ port' = IF \E c \in Clients : conn[c] = "open" /\ ~Contains(up[c], "part")
             THEN "lingering"
             ELSE IF port = "held" THEN "free" ELSE port
  /\ UNCHANGED up

LingerEnds ==
  /\ port = "lingering"
  /\ port' = "free"
  /\ UNCHANGED <<conn, up, down>>
=============================================================================
