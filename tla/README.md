# A TLA+ development of InnoWireless_Project

The repository is a set of small C programs around one idea: two users behind
NATs find out their public endpoints with STUN, punch a hole for UDP between
them, and then chat or measure bandwidth.  The programs are independent of each
other (every directory under `src/` builds its own), and later ones grew out of
earlier ones: `week1`, `test`, `test2` and `test3` are four versions of one P2P
client, `stun` and `udp_test_02` share a STUN library.  `test3` is the newest
and fullest; it is modelled first and in most detail.

The modules model the programs' control: every step, guard, early return and
failure, in the order the code has them.  Data is reduced to what the
properties tell apart.  `PROJECT.json` maps each definition to its lines.

## 1. The system

### Components

| component | code | state | operations |
|---|---|---|---|
| hole punching | `test3` `perform_nat_punching`, `main` | time since the start; the socket's queue | send a request, read one datagram, answer, give up |
| chat loop | `test3` `main` | `buffer`, `last_activity`, `current_time`, `peer_addr`; stdin's own buffer | select, read a line, run a command, receive, keepalive |
| bandwidth test | `test3` `run_iperf_*`, `print_stats` | `struct test_stats` | count a datagram, report, end |
| STUN query of the client's own socket | `get_public_endpoint`, `parse_stun_response` in `test3`, `test2`, `test`, `week1` | the reply and a pointer into it | resolve, send, receive, walk the attributes |
| port-scan punching | `test` `perform_nat_punching` | 16-bit port counter and range, last port heard from | ask a port, look at the socket, move on |
| maintenance thread | `test` `connection_maintenance_thread` | `PunchingContext`, shared with the punching | keepalive every 15 s |
| STUN library | `stun/STUNExternalIP.c` (a copy in `udp_test_02`) | seven resources; the reply | seven calls that may each fail |
| clients A and B | `stun/client_*.c` | attempts made | `create_hole_punch`, then one message each way |
| UDP exchanges | `udp_test`, `udp_test_02/main.c`, the loop of `week1` | none beyond a buffer | bind, send, receive once; `week1`: talk |
| TCP exchanges | `week2`, `week3`, `tcp_test` | none beyond a buffer; the kernel's port, queue and streams | bind, listen, accept; connect, one message each way; kill and restart |

### How they interact

Within a program the parts run one after the other over one socket: STUN query,
a prompt for the peer's endpoint, punching, chat loop, with bandwidth tests
inside it.  The two sides of a connection are two processes that share nothing
but the datagrams between them.  Only `test` has a second thread.  The user, the
STUN server, the NATs and the network are external; they are modelled from how
the code uses them.

### What is hard

- **Two programs, no common clock, a network that loses, repeats and reorders.**
  Punching has two messages and no third one to close it: a peer that has its
  answer leaves, and answers no more.
- **One datagram per interval.**  A peer that starts late finds a queue.
- **Shared state in one loop**: one buffer for typed lines and received ones,
  a time read once per turn and used after steps that take long, stdin's buffer
  that `select` cannot see.
- **Whole seconds** compared where fractions are measured, and divided by.
- **16-bit ports** that wrap round.
- **Partial failure**: seven resources with a list of frees on each way out.
- **Waiting for ever**: receives without a timeout, the server mode.
- **A thread that outlives its data**: the maintenance thread of `test` and the
  function whose local it reads.
- **Restarts and streams**: a port that an ended connection still holds, a message
  read in part, a connection nobody has accepted when its server goes.

`PROJECT.json` lists each hazard at its line with the properties aimed at it, or
the reason why none covers it yet.

### What makes each component correct

- Punching: a connection is only claimed over a path that works in both
  directions; every peer reaches a verdict; neither is left alone.
- Chat loop: the NAT mapping is kept warm; each line goes out once and in order;
  `/quit` works.
- Bandwidth test: every byte is reported once, reports keep their interval and do
  not divide by zero, a test takes its duration.
- STUN: the endpoint is the one the server reported, for this request; the query
  comes back; nothing leaks.
- Port scan: the whole range is asked, the timeout is kept.
- Clients A and B: the punching returns, with a connection if the network works.
- Maintenance thread: keepalives only over a connection, and as long as there is one.
- UDP exchanges: a program that is ready hears what is sent to it, and two that
  exchange one message do not both wait.
- TCP exchanges: a start of the server serves one client, a greeting answered
  arrives, every client ends.

## 2. The modules

| module | models | builds on |
|---|---|---|
| `UdpNat` | sockets, NATs and network between two peers (external) | |
| `PunchContract` | what punching promises: the abstract specification | |
| `Punch`, `MCPunch` | `test3` punching of both peers | `UdpNat`; implements `PunchContract` |
| `ChatLoop` | `test3` main loop | |
| `Iperf` | `test3` bandwidth test | |
| `AckPunch` | `stun` `create_hole_punch` of both clients | `UdpNat` |
| `PortScan` | `test` punching of one client | |
| `ScanClient` | `test` client: its punching, maintenance thread and chat loop | `PortScan` |
| `StunWalk` | the walk over a reply's attributes, with and without padding | |
| `StunQuery`, `MCStunQuery` | the STUN library's query and the P2P client's | `StunWalk` |
| `Exchange` | the exchanges of `udp_test_02`, `week1` and `udp_test` | `UdpNat` |
| `TcpHost` | a server's port, its connections and their streams (external) | |
| `TcpExchange` | the programs of `week2`, `week3` and `tcp_test` | `TcpHost` |
| `MCExchange` | one of the UDP exchanges or of the TCP programs | `Exchange`, `TcpExchange` |
| `UdpNatProofs` | lemmas about the network, and about sequences | `UdpNat` |
| `PunchProofs`, `ChatLoopProofs`, `IperfProofs`, `AckPunchProofs`, `StunProofs` | theorems and proofs | the module they are named for |
| `ScanProofs` | theorems and proofs | `ScanClient` |
| `ExchangeProofs` | theorems and proofs | `MCExchange` |

A definition whose comment begins with "Fault:" is not part of a model: it is
the form of the definition below it that a plausible bug would give, and each
property has been seen to fail with one.

### UdpNat

`wire[p]` holds what is in flight to `p`, `inbox[p]` what its socket has queued.
`Post` is `sendto`, `Take` is `recvfrom`; both only ever append and take the
oldest.  The network's temper is three constants: `Lossy`, `Reordering`, and
`Filtering` (a NAT lets nothing in before its own peer has sent something out).
The endpoint STUN reported stays valid for the peer too; without that no client
of the repository can work, and nothing here is claimed about NATs that give
each destination a port of its own.

### Punch

One phase per place the loop of `perform_nat_punching` can be in: `top` (the
`while` test and `sendto`, lines 191-194), `recv` (the one non-blocking
`recvfrom`, 196-214), `sleep` (`usleep`, 216), then `chat` or `failed`.
`elapsed` is `time(NULL) - start_time` counted in intervals of 500 ms, starting
anywhere within a second because `time` gives whole seconds.  `RecvReq` answers
and stays in the loop; `RecvAck` leaves it.  A peer that chats takes whatever
comes and answers nothing (`ChatRecv`), which is why the half-open outcome
exists at all.  `heard` is a history variable.

Every datagram in the model was sent by one of the two runs.  The code never
compares the sender (`recv_addr`), so a socket that punches would take a
`PUNCH_ACK` from anywhere, a third host or a peer still punching with an earlier
run; no program of the repository sends one that was not asked for.  What such
datagrams do is modelled where the code is exposed to them for long: in the chat
loop and in the port scan.

Time is modelled in two ways.  Without `Lockstep`, `usleep` lasts any number of
intervals from one on, for each peer by itself: that covers a stopped process, a
loaded host, a slow network.  With `Lockstep` both clocks run at one rate, a
datagram crosses within one interval, and the users start at most `MaxSkew`
intervals apart.

### ChatLoop

One label per branch of the loop: `select`, `stdin`, `sock`, `check`, and
`server` or `client` while a test runs.  `typed` is what the terminal or pipe
holds, `stdio` what `fgets` has read ahead and not returned: a terminal hands
over one line per read, a pipe as many as there are, and `select` sees only
`typed`.  `buffer` is the one array of `main`, cleared before each read
(`AfterEof`).  `current_time` is read after `select` and stays what it was
through a whole bandwidth test, as in the code.  A receive that fails goes back
to `select` past the keepalive check.  `last_traffic`, `script`, `said` and
`skipped` are history variables.

The socket hears two hosts, the peer and any other (a STUN server's late reply, a
stray datagram).  A receive makes its sender the `peer_addr` of everything that
follows, so `PathKeptWarm` is about the time in which `peer_addr` is the peer:
while another host has it, nothing goes to the peer at all; once the peer is
heard again, be it by a keepalive, the bound holds at once, although the other
host's lines counted as activity.

### Iperf

Ticks are parts of a second; `Sec` is `tv_sec`.  The client may lose any number
of ticks where it sleeps or reads the clock again.  A datagram is counted and
then reported with the rest if a second has begun since the last report
(`ReportDue`).  A packet the non-blocking socket refuses is not counted.

### AckPunch

`create_hole_punch` of `client_common.h` by both clients: send, wait one second
for a datagram, answer if it is an ack, otherwise sleep and count the attempt.

### PortScan

`port`, `PortMin` and `PortMax` are `uint16_t`, hence `Word`.  `tried` is the
history of the ports asked in this attempt.  Arrivals are arbitrary in kind and
come from any of `ReplyPorts`.

### ScanClient

`PortScan`'s actions are `main`'s steps inside `perform_nat_punching`; `main` the
variable says where the program is, and `ctx` lives while it is `"punching"`.  The
thread has a step for its look at the context (`ThreadWakes`, at which it holds
the mutex and has read the time) and one for the keepalive (`ThreadSends`), so the
scan and its return fall between them.  The mutex itself needs no variable: the
thread is the only one that takes it.  `is_connected` is assigned just before `ctx`
dies, with no call in between, so a compiler may drop the assignment: both outcomes
are allowed.  After `Leave` each of the thread's steps is undefined
(`ThreadAstray`): it may do nothing, send something somewhere, block on what it
takes for the mutex, or bring the process down.  Of the chat loop, which is that of
`test3` without commands and keepalive, only what changes the peer's address or
ends the process is repeated.

### StunWalk, StunQuery

A reply is a sequence of attributes, of which at most one kind matters; the
others have a length.  A walk that does not skip padding goes on inside it, and
there it may find anything: `Stray`.  `StunQuery` has the two queries side by
side; `program` says which one runs.  The library has one label per call of
`getPublicIPAddressAndPort` and the set of resources held at each; the client
one per call of `get_public_endpoint`.  Both read one datagram from the same
environment: a server that answers or not (`Answer`, `Lose`), and what is left
of an earlier run on the same port (`Leftover`), a late reply or a request of a
peer that still punches.  Each converts the address its own way, and both ways are modelled octet by octet
for either byte order: what the reply holds (`WireOctets`), an integer loaded from
memory (`Load`, `InMemory`), `ntohl` and `htonl`, the exclusive or with the cookie,
`inet_ntop` reading memory (`Store`) and `snprintf` shifting the integer (`Dotted`).
The port's conversion stands beside it in both and is left out.

### Exchange

Three programs without handshake or retry, of which `program` picks one.  Two
users run the same program in `"message"` and `"talk"`; in `"echo"`, `B` is the
server and its NAT is open from the start.  The socket of `udp_test_02` is bound
after the endpoint is typed, `week1`'s before: `SocketOpen`.  `due` counts what
was sent to a program that was `Ready`, `heard` what it read.

### TcpHost, TcpExchange, MCExchange

`port` is the server's port: `"held"` by a listening server, or `"lingering"` while
the connection that the server closed first still occupies it (none of the programs
sets `SO_REUSEADDR`).  `up[c]` and `down[c]` are the two streams of a connection, as
what the reader has not taken; a message has two parts, of which one `recv` takes as
many as the network likes.  A side that closes with parts unread resets the
connection; a reset may overtake what was sent before it.  A client is connected
once the kernel has queued it, long before `accept`, if ever.  `pair` picks the
programs.  Those of `week3` and `tcp_test` look at their results (`BindChecked`,
`Refused`), those of `week2` do not: `bind` fails and `listen` takes another port
(`BindUnchecked`), `connect` fails and `send` raises SIGPIPE (`SendUnconnected`).
Users may kill the server or a client between any two steps and start the server
again.  `MCExchange` runs either `Exchange` or `TcpExchange`.

## 3. The runs

| run | what it asks | answer |
|---|---|---|
| `punch_faulty` | On a network that loses, duplicates, reorders and filters: is a connection claimed only with a peer that heard this one? Does `Punch` implement `PunchContract`? | yes |
| `punch_reliable` | When everything arrives in order, with any speeds: has a peer that leaves the punching left the other one its answer? Does each reach a verdict? | yes |
| `punch_lockstep` | With equal clocks and a prompt network: do two users who start at most `PunchTimeout - 4` intervals apart both connect? | yes |
| `punch_backlog` | The same with a skew up to the timeout: does a user who types the endpoint while the other client punches escape the timeout, if that one is told of a connection? | no: finding |
| `chat_loop` | Is the path kept warm, with a third host on the socket too, is each line sent once and in order, does `/quit` end a program at a terminal? | yes |
| `iperf_reports` | Does every byte get reported once, over a positive time, in no more reports than intervals, in a test that ends and is almost as long as it says? | yes |
| `ack_faulty` | Does `create_hole_punch` return, and is an ack ever sent? | it returns; never |
| `scan_inner` | For peer ports whose range ends below the last port: is the range asked in full, and is the client at most one attempt late? What does the maintenance thread send while its context exists? | yes; one keepalive, one more for each interval that `main` is held up in the function, and only once connected |
| `scan_wrap` | For peer ports within one step of the wrap: does punching end? | no: finding |
| `stun_query` | Does the library free everything on every way out? Is a reported endpoint taken, and only from the right reply, behind attributes of any length? Does the client print the address the server meant, on a little-endian host? Which query may wait for ever? | yes; yes; yes; the client's, for a lost datagram |
| `stun_octets` | Is the address the library prints the one the server reported, on a little-endian host? | no: finding |
| `exchange` | UDP without handshake or retry: is what is sent to a ready program read? Can two programs both wait for ever? TCP: is one client heard or answered, at most, for each start of the server? Does the greeting reach a client whose own was read? Does every client end? | yes; no; yes; yes; yes |

### Bounds

- *Peers*: two, as in the program.
- *PunchTimeout* is 3 intervals on the faulty network, 4 on the reliable one and
  6 or 8 in lockstep, for 60 s in the code (120 intervals).  Three attempts are enough for a
  request to be lost, one to be answered and the answer to be lost or overtaken.
  In lockstep the backlog grows by one request per interval of skew, and the
  boundary moves with the timeout: both sides of it are run.  `TwoWayPath`,
  `KeepsContract` and `AckOwed` are proved for every timeout.
- *MaxDup* = 1 duplicate on the faulty network, *MaxChat* = 1 chat line per peer:
  one of each is enough for a copy to outlive its original and for a line to reach
  a peer that still punches.  The theorems hold for any number.
- *ChatLoop*: the keepalive interval is 2 s, a test 3 s, so that a test outlasts
  the interval; 3 s of clock (a test that begins by then is carried to its end),
  and three inputs, of which two at most are typed lines and the others datagrams of
  either host or failed receives.  Two lines are what it takes for one to be left in
  stdin's buffer; three datagrams let another host take the address, keep it, and
  the peer take it back.  `PathKeptWarm` and
  `LinesInOrder` are proved for all values.
- *Iperf*: 3 ticks per second, tests of 3 s, pauses of up to 4 ticks, so that a
  pause can jump over a whole second; 3 datagrams at a server.
- *AckPunch*: 3 attempts for 5.
- *PortScan*: 64 ports for 65536, range 6 for 1000, step 3 for 10, 2 looks for 5,
  with peer ports of every kind: below the smallest port asked (an empty range),
  at and just above the range's width, in the middle, and the largest whose range
  does not wrap.  `scan_wrap` takes ports whose range ends within one step of the
  last port.
- *ScanClient*: `MaxHeld` is how long the scheduler may hold `main` up on its way out
  of the function, or the thread at its start: microseconds in truth, 4 looks in the
  run.  The keepalive interval is 2 looks there, shorter against the timeout than the
  code's 15 s against 60, so that several keepalives fall due while `main` is held up;
  nothing is assumed of the one against the other.
- *TcpExchange*: two clients, one to be served and one to stay in the queue, and two
  starts of the server, the second of which meets what the first has left.
- *StunWalk*: up to 3 attributes of lengths 4 and 5, that is without, and with,
  padding.  *StunQuery*: one datagram of an earlier run (only one is read);
  *Octet* is 4 for 256; the four octets of the address all differ, and so do those of
  the cookie, so that no order of them looks like another.
- *Exchange*: two lines per user of `week1`, so that one can be lost at the closed
  NAT and the next arrive.  Nothing is lost elsewhere: without retry any other loss
  loses the message, which needs no run.

Deadlock checking is off where programs end.  `punch_faulty` uses the symmetry of
the two peers, since all it checks is safety; runs with liveness do not use it.

### Fairness

- A program that is not waiting is scheduled (`WF` on each peer's punching, on the
  loop's steps, on the query's).  Without it nothing ever happens, with a program
  stopped for good.
- The clock runs (`Tick`).
- A datagram that is not lost arrives (`Deliver`, and `Answer` for the STUN
  server).  Loss itself is never fair, and no fairness keeps the network from
  losing everything: `PunchEnds` holds all the same, because the loop is driven
  by its timeout.
- The users of `Punch` and `AckPunch` do type the endpoint (`Enter`): needed for
  `BothConnect` only.  Those of `Exchange` type endpoint and message.  The users of
  `ChatLoop` and of `week1`, by contrast, need not say anything.
- A receive without a timeout waits for ever: there is no fairness on the failure
  of such a receive (`ReceiveFails` in `StunQuery`, `Error` in `Exchange`).
  `QueryReturns`, `NotBothWait` and `EchoReturns` say what remains true.  The
  library's `ReadFails` is its timeout, and fair.
- In `ScanClient` only `main` is fair: `PunchEnds` needs nothing of the thread.
- In `TcpExchange` a program that has been started runs on; nobody has to start,
  connect, kill or restart anything.  A client in the queue of a busy server gets its
  end from the server's.

## 4. What is proved

`tlapm` checks the eight `*Proofs` modules.  All results hold for every value of
the constants that satisfies the modules' assumptions, with unbounded queues.
Every invariant of a passing run is a theorem; so is the one abstract
specification, `PunchContract`.

| theorem | statement | argument |
|---|---|---|
| `TypeCorrect` (Punch) | `Spec => [](TypeOK /\ InTime)` | both together are inductive: an attempt is only under way before the timeout, so `Sleep` stays within it |
| `PathIsTwoWay`, `AnswersAreHeard` | `Spec => []TwoWayPath`, `[]AckMeansHeard` | `TwoWayPath` alone is not inductive: whoever reads an answer must know what it proves. `AckMeansHeard` says so for answers in flight or queued, and both together are inductive; only `RecvReq` creates an answer |
| `PunchKeepsContract` | `Spec => KeepsContract` | step simulation under that invariant: `RecvReq` is `Hear`, `RecvAck` is `Connect` and needs `AckMeansHeard`, `GiveUp` is `GiveUp`, everything else stutters |
| `AnswersInOrder`, `AnswerIsOwed` | `Spec => []AckOrder`, `[]AckOwed` | on a reliable ordered network, by `ReqFirst` and `AnswerPending`: ahead of each answer stands a request, so a peer answers before it leaves, and the answer it sent stays there until read |
| `PathStaysWarm` | `Spec => []PathKeptWarm` | `CheckedInTime`: activity is never dated later than its traffic, and `select` is entered with its second still in hand |
| `EachLineInOrder` | `Spec => []LinesInOrder` | `Unread`: what terminal, pipe and `stdin`'s buffer hold is the rest of the script, behind the lines `fgets` has returned; `Order`: what has been sent is the chat lines among those. A step either returns the next line and sends it or not, or leaves `buffer` empty |
| `LoopTypeCorrect` (ChatLoop) | `Spec => []TypeOK` | clocks by `Budget` (a test takes a line, so `MaxTime` and the tests asked for bound the time), the socket by `Socket` (what `select` saw is still queued when the loop reads it, a test in between included) |
| `ReportsCoverTime` | `Spec => []NoZeroDivision` | `LastReportBefore`: a test that is over last reported in a second when it was not |
| `BytesAreConserved` | `Spec => []BytesConserved` | inductive with the sizes' type |
| `ReportsArePaced` | `Spec => []OneAnInterval` | `Paced`: up to the last report there have been no more reports than whole intervals, counted in the clock's seconds; a report is made only when another one has passed (`ReportDue`) |
| `FullTest` | `Spec => []AlmostFullTest` | the last report comes when the clock's seconds are `TestDuration` on from the start's, and a start is less than a second into its own (`SecFacts`) |
| `TestTypeCorrect` (Iperf) | `Spec => []TypeOK` | with `Bytes` and the clocks' ranges |
| `NobodyIsAcked` | `Spec => []NeverAcked` | inductive: no ack pending, nobody connected |
| `PunchTypeCorrect` (AckPunch) | `Spec => []TypeOK` | `Counted`: an attempt under way is not the last one counted |
| `ScanTypeCorrect` | `Spec => []TypeOK` | `ScanTypes`; the 16-bit arithmetic stays in its words, wrapping or not |
| `EveryPortTried` | `ClientSpec => [](RangeFits => RangeTried)` | `Asked(k)`: after `k` ports `port` is `PortMin + k * PortStep` and all before it have been asked; past the range that is all of `Wanted` (division with remainder, `WantedTried`) |
| `ScanLate` | `Spec => [](RangeFits => LateByOneAttempt)` | `Asked(k)` also bounds the time by `k` ports' looks; a range has `MaxPorts` ports (`FewPorts`) |
| `ClientLate` | `ClientSpec => [](RangeFits /\ held <= PunchInterval + 1 => LateByOneAttempt)` | `HeldSince`: an answer is read before the pause of its attempt, so that much of the scheduler's delay is covered |
| `NoKeepaliveBefore`, `KeepalivesAreApart` | `ClientSpec => []KeepaliveConnected`, `[]KeptApart` | `ThreadInv`: until the context is gone, the keepalives sent, but for the first, and the time since the last one fit into what `main` was held up for (`Intervals`) |
| `ClientTypeCorrect` | `ClientSpec => []ClientTypeOK` | `ScanInv` and `ThreadInv` |
| `EverythingFreed` | `Spec => []NothingHeld` | `HeldInv`: what may be open before each call; each way out frees that |
| `ReplyIsUsed` | `Spec => []ReplyUsed` | `WalkInv`: where no padding can lead the pointer astray it stands before the attribute looked for, as long as the reply has one |
| `AddressRight` | `Spec => []ClientPrintsMapped` | the integer's octets by division (`DivMod`), so that `Dotted` undoes `Joined`; each conversion turns the octets round or leaves them, twice in all, and an exclusive or undoes itself |
| `LibraryPrints` | `Spec => [](Library /\ Returned /\ found = "mapped" => address = InMemory(MappedOctets))` | the same lemmas: one turn is left on a little-endian host, which is the one cause of finding 3 |
| `QueryTypeCorrect` | `Spec => []TypeOK` | with the walk's and the printed octets' types |
| `ServesOneEach` | `LiveSpec => []OneClientEach` | `SeatsInv`: the clients taken from the queue (`Accepted`: connected, heard, or with an answer to read or read) are a finite set, no larger than the number of starts, and smaller while a server has yet to accept; only `Accept` adds to it |
| `GreetingIsRead` | `LiveSpec => []GreetingArrives` | `Answered`: once a client's whole greeting has been read the server's is to be sent, can be read, or has been; this needs `OneOpen` (one client at a time), `StreamInv` (nothing is in a stream before it is sent) and `StepInv` (how far the two ends can be apart) |
| `ExchangeTypes` | `LiveSpec => []AllTypeOK` | UDP by counting: what was read, queued and in flight is no more than what the other side has sent (`Reached`, `Sent`) |

Each of these invariants but the simplest was strengthened until it was
inductive, and the strengthening checked by TLC on the run's instance before it
was proved.  `UdpNatProofs` has the lemmas about the network that `PunchProofs`,
`AckPunchProofs` and `ExchangeProofs` cite: what `Post`, `Take`, `Arrive`, `Lose`
and `Duplicate` do to the datagrams that are pending, and to their order.

`RangeFits` says that neither the range of ports nor the port after it reaches
2^16.  It is not an assumption on the constants but part of the statement: for
peer ports near the end of the range the code does not keep what the theorems say
(finding 2).  `scan_inner` has only ports for which it holds.

The assumptions are those of the modules: two different peers, positive times,
sizes, steps and attempts, ports within their word, a keepalive interval of at
least two seconds for the chat loop (its `select` takes one), an exclusive or that
undoes itself on octets, and chat lines that are no commands.

`LinesInOrder` and `TcpHost`'s `Readable` are stated with functions and sets, not
by selecting subsequences, so that they can be reasoned about: what `SelectSeq`
and the folds return is defined by recursion, and induction over data is beyond
the backends.  For the same reason `ChatLines` is used by `EachLineSaid` only.

Only model-checked: every liveness property (`PunchEnds`, `BothConnect`,
`QuitEnds`, `EachLineSaid`, `TestEnds`, `QueryReturns`, `ReadyHears`,
`NotBothWait`, `EchoReturns`, `ClientEnds`), since fairness and ENABLED are beyond
the proof system's backends here.

## 5. What the development shows of the code

Findings, each with a run whose counterexample shows it:

1. **A late starter can time out though nothing was lost** (`punch_backlog`).
   Requests sent to a peer whose user has not typed the endpoint yet queue up on
   its socket (with a NAT that does not filter), are read one per 500 ms, and the
   answer to its own request stands behind them.  In the counterexample the early
   peer's clock stands at the start of a second and the late one's enters in the
   middle of one, three intervals behind; the early one has its answer within two
   and chats, and the late one, which has read and answered a request in each of its
   attempts, gives up with the answer at the head of its queue.  The margin is about
   four intervals short of the timeout: `punch_lockstep`.
2. **The scan of `test` does not end for peer ports 64526 to 64535**
   (`scan_wrap`).  `port + 10` wraps round before it passes `port_max`.
3. **The library of `stun` and `udp_test_02` prints the address's octets in
   reverse on a little-endian host** (`stun_octets`).

Other observations, which the passing runs' properties take into account:

- *One lost `PUNCH_ACK`* leaves one peer chatting and the other timed out;
  `TwoWayPath` and `AckOwed` say what remains true with and without loss.
- *`create_hole_punch` never succeeds*: it acknowledges only an ack
  (`NeverAcked`), so each client waits for what only the other's success would
  bring, on every network, and the message exchange after it cannot be reached by
  two clients of this repository.  This is a defect; it is stated as an invariant
  that holds, and proved, because that says more than one counterexample would.
- *Server mode is for good*: after `/iperf server` no line is read, so `/quit`
  does nothing.  *Piped input*: lines that arrive in one read stay in stdin's
  buffer, unseen by `select`, until more input comes.  `QuitEnds` and
  `EachLineSaid` are stated for a terminal and allow for the server mode.
- *Whole seconds*: a test may be up to a second short (`AlmostFullTest`), and a
  report may come sooner than a second after the last, though never are there more
  reports than intervals (`OneAnInterval`).
- *Padding*: the library's walk does not skip it, the P2P clients' does; for the
  library `ReplyUsed` is stated for replies without padded attributes before the
  address.
- *Return codes*: a reply with another identifier gives -1
  (`stun/STUNExternalIP.c:133`), the code that the header documents for a failed
  bind (`stun/STUNExternalIP.h:18`), as does a failed `socket`: a caller cannot tell
  them apart.  `Check` and `Socket` return what the code does; no property pairs the
  codes with the steps, since each would repeat the literal of one `return`.
- *One datagram is read* by either query: a late reply of an earlier run or a
  request of a peer that still punches ends it although the right reply follows.
  The P2P client does not compare identifiers, so it takes the late reply.
- *The first message of `udp_test_02` may be lost* at the other side's NAT or
  socket, which open later; that side then waits for ever, while the first
  receives and ends.  `NotBothWait` says that it is never both.
- *Empty ranges*: for peer ports above 64535, and below 24, the scan asks no port
  of the range and never looks at the socket.  *Answer from elsewhere*: a
  `PUNCH_ACK` from another port than the one asked does not change where the chat
  goes, though that port is printed as the final one; the next datagram read in the
  chat does (`Hear`).
- *The maintenance thread maintains nothing*: `test/p2p_client.c:165` calls it the
  thread that maintains the connection, but the flag it waits for is set in the moment
  in which `perform_nat_punching` returns.  What it is sure to send is a keepalive in
  that moment, to the address typed even if another port answered (`KeptApart` bounds
  these); for the whole of the chat it reads a dead stack frame, and `ThreadAstray`
  allows whatever may come of that, a crash included.
- *A third host*: whatever reaches `test3`'s socket takes over the conversation;
  lines, tests and keepalives go to it until the peer is heard again.
- *A restarted `week2` server* that served a client moments ago listens on a port
  nobody knows and waits for ever, saying "Server listening on port 8080"
  (`week2/server_tcp.c:26`); `week3`'s looks at the result of `bind` and gives up.  A
  *refused `week2` client* dies of SIGPIPE, and one that reads nothing, or a part,
  prints its own greeting, or the rest of it, as the server's.
- *One `recv`*: a server that read a part of the greeting resets the connection when
  it closes, and its own greeting may be lost (`GreetingArrives` allows for that).
- *Time of one attempt*: the scan of `test` looks at its timeout every ten seconds
  only (`LateByOneAttempt`).

## 6. Not modelled, and the plan

Not modelled, by intent: wording and layout of messages, the contents of
bandwidth packets (nobody reads them), lengths of datagrams, memory other than the
thread's dead context.  The message exchange of `stun`'s clients is not modelled
because it cannot be reached (`NobodyIsAcked`).  `test2` is an earlier `test3`
without commands and is covered by `Punch` and `ChatLoop` as far as the code is the
same; what `week1`, `test2` and `udp_test_02` repeat of other programs (the STUN
queries above all) is modelled once.  The choice of a NAT that gives each
destination, or each socket, a port of its own is not modelled: no client of the
repository can connect behind one, and the port that `stun/client_A.c` binds, the
public one, is right only where the NAT keeps ports.

The order so far has been: punching (two processes, the heart of the system),
the loop that keeps its result alive, the test that runs inside it, the older
punching protocols, the STUN queries, the thread of `test`, TCP.  What comes next:

1. **Theorems**: the invariants of the runs are proved; what remains is a simpler
   abstract specification for the components that have none, above all the chat
   loop (a sender of lines) and the library's query (one outcome, nothing held),
   with the proof that each implements it.
2. **Composition**: `Punch` followed by two `ChatLoop`s, with the abstract
   specification that a line typed at one end shows at the other at most once per
   copy the network makes.
