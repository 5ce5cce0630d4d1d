------------------------------- MODULE UdpNat -------------------------------
(***************************************************************************)
(* The two peers' UDP sockets and the NATs between them, modelled from how *)
(* the clients use them: sendto never blocks and reports nothing about     *)
(* delivery, recvfrom takes the oldest datagram of the socket's queue.     *)
(*                                                                         *)
(* A peer's NAT keeps the mapping the STUN server saw (without that no     *)
(* client of this repository can work) and, when Filtering holds, lets a   *)
(* datagram in only once its own peer has sent one out.                    *)
(***************************************************************************)
EXTENDS Naturals, Sequences, SequencesExt

CONSTANTS
  A, B,        \* the two peers
  Filtering,   \* the NATs drop what arrives before their peer has sent
  Lossy,       \* a datagram in flight may disappear
  Reordering,  \* datagrams in flight may overtake each other
  MaxDup       \* bound: datagrams the network duplicates in one behaviour

ASSUME PeersDiffer == A # B
ASSUME NetworkKind == /\ Filtering \in BOOLEAN
                      /\ Lossy \in BOOLEAN
                      /\ Reordering \in BOOLEAN
                      /\ MaxDup \in Nat

VARIABLES
  wire,    \* wire[p]: datagrams in flight to p
  inbox,   \* inbox[p]: the receive queue of p's socket
  opened,  \* opened[p]: p has sent through its NAT
  dups     \* datagrams duplicated so far

netVars == <<wire, inbox, opened, dups>>

Peers == {A, B}
Other(p) == IF p = A THEN B ELSE A

NetInit ==
  /\ wire = [p \in Peers |-> <<>>]
  /\ inbox = [p \in Peers |-> <<>>]
  /\ opened = [p \in Peers |-> FALSE]
  /\ dups = 0

NetTypeOK(Datagram) ==
  /\ wire \in [Peers -> Seq(Datagram)]
  /\ inbox \in [Peers -> Seq(Datagram)]
  /\ opened \in [Peers -> BOOLEAN]
  /\ dups \in 0 .. MaxDup

-----------------------------------------------------------------------------
\* What a client does to the network: the socket queue is left to the caller.

\* sendto(sock, m, ..., the other peer's public endpoint).
Post(p, m) ==
  /\ wire' = [wire EXCEPT ![Other(p)] = Append(@, m)]
  /\ opened' = [opened EXCEPT ![p] = TRUE]
  /\ UNCHANGED dups

\* recvfrom(sock, ...) when a datagram is waiting.
Take(p) ==
  /\ inbox[p] # <<>>
  /\ inbox' = [inbox EXCEPT ![p] = Tail(@)]

-----------------------------------------------------------------------------
\* What the network does by itself.

Deliverable(s) == IF Reordering THEN DOMAIN s ELSE DOMAIN s \cap {1}

\* A datagram reaches p's NAT, and p's socket if the NAT lets it in and the
\* socket is still open.
Arrive(p, isOpen) ==
  \E i \in Deliverable(wire[p]) :
    /\ wire' = [wire EXCEPT ![p] = RemoveAt(@, i)]
    /\ inbox' = IF isOpen /\ (Filtering => opened[p])
                THEN [inbox EXCEPT ![p] = Append(@, wire[p][i])]
                ELSE inbox
    /\ UNCHANGED <<opened, dups>>

Lose(p) ==
  /\ Lossy
  /\ \E i \in DOMAIN wire[p] : wire' = [wire EXCEPT ![p] = RemoveAt(@, i)]
  /\ UNCHANGED <<inbox, opened, dups>>

Duplicate(p) ==
  /\ dups < MaxDup
  /\ \E i \in DOMAIN wire[p] :
       wire' = [wire EXCEPT ![p] = Append(@, wire[p][i])]
  /\ dups' = dups + 1
  /\ UNCHANGED <<inbox, opened>>

\* Everything sent to p that p has not read yet.
Pending(p, m) == Contains(inbox[p], m) \/ Contains(wire[p], m)

=============================================================================
