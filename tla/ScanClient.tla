----------------------------- MODULE ScanClient -----------------------------
(***************************************************************************)
(* The client of test/p2p_client.c from the start of its punching on: the  *)
(* port scan of PortScan, the maintenance thread it creates and the chat   *)
(* loop that follows.                                                      *)
(*                                                                         *)
(* Thread and scan share ctx, a local of perform_nat_punching.  The thread *)
(* reads it under a mutex that the scan never takes, and goes on reading   *)
(* after the function has returned: from there on what it does is          *)
(* undefined.                                                              *)
(***************************************************************************)
EXTENDS PortScan

CONSTANTS
  KeepAliveInterval,  \* KEEP_ALIVE_INTERVAL, in looks
  MaxHeld             \* bound: looks the scheduler holds a thread up for

ASSUME DelaysAreNatural == {KeepAliveInterval, MaxHeld} \subseteq Nat

VARIABLES
  main,            \* "punching", "chat", "closing", "done" or "crashed"
  held,            \* looks since the answer, while main is in the function
  thread,          \* "new", "asleep", "send" (holding the mutex) or "stuck"
  is_connected,    \* ctx.is_connected
  last_keepalive,  \* the thread's own
  kept             \* history: keepalives sent out of a living ctx

clientVars == <<vars, main, held, thread, is_connected, last_keepalive, kept>>
threadVars == <<thread, last_keepalive, kept>>

\* The scan's words, and main, thread and clocks within their ranges.
ClientTypeOK ==
  /\ TypeOK
  /\ main \in {"punching", "chat", "closing", "done", "crashed"}
  /\ held \in 0 .. MaxHeld
  /\ thread \in {"new", "asleep", "send", "stuck"}
  /\ is_connected \in {0, 1}
  /\ last_keepalive \in 0 .. MaxElapsed
  /\ kept \in Nat

ClientInit ==
  /\ Init
  /\ main = "punching" /\ held = 0
  /\ thread = "new" /\ is_connected = 0 /\ last_keepalive = 0 /\ kept = 0

CtxLives == main = "punching"
Running == main \in {"punching", "chat", "closing"}

-----------------------------------------------------------------------------
\* main, in perform_nat_punching and after it.

Punching == \/ Attempt \/ GiveUp \/ AskPort \/ RangeDone \/ LookNothing \/ Pause
            \/ \E from \in ReplyPorts : LookReq(from) \/ LookOther(from)

\* Fault: whatever is heard counts as a connection.
ScanHears ==
  /\ Punching
  /\ is_connected' = IF last_working_port' # 0 THEN 1 ELSE is_connected
  /\ UNCHANGED <<main, held, threadVars>>

Scan ==
  /\ Punching
  /\ UNCHANGED <<main, held, is_connected, threadVars>>

\* ctx.is_connected = 1 just before the return: ctx is about to die, so the
\* compiler may leave the assignment out.
Answered ==
  /\ \E from \in ReplyPorts : LookAck(from)
  /\ is_connected' \in {is_connected, 1}
  /\ UNCHANGED <<main, held, threadVars>>

HeldUp ==
  /\ pc = "connected" /\ CtxLives
  /\ held < MaxHeld
  /\ held' = held + 1
  /\ Pass(1)
  /\ UNCHANGED <<pc, base_port, peer_port, port, looks, last_working_port, tried,
                 main, is_connected, threadVars>>

\* perform_nat_punching returns, and ctx is gone.
Leave ==
  /\ CtxLives
  /\ \/ pc = "connected" /\ main' = "chat"
     \/ pc = "failed" /\ main' = "closing"
  /\ UNCHANGED <<vars, held, is_connected, threadVars>>

\* What is read in the chat, whoever sent it, redirects the lines typed; a failed
\* receive changes nothing.
Hear(from) ==
  /\ main = "chat"
  /\ peer_port' = from
  /\ UNCHANGED <<pc, base_port, port, looks, elapsed, last_working_port, tried,
                 main, held, is_connected, threadVars>>

\* select fails in the chat, or punching has failed: the process exits.
ProcessEnds ==
  /\ main \in {"chat", "closing"}
  /\ main' = "done"
  /\ UNCHANGED <<vars, held, is_connected, threadVars>>

-----------------------------------------------------------------------------
\* connection_maintenance_thread.

ThreadStarts ==
  /\ Running
  /\ thread = "new" /\ elapsed <= MaxHeld
  /\ thread' = "asleep"
  /\ last_keepalive' = elapsed
  /\ UNCHANGED <<vars, main, held, is_connected, kept>>

KeepaliveDue == is_connected = 1 /\ elapsed - last_keepalive >= KeepAliveInterval

\* Fault: the time of the keepalive is not noted.
ThreadWakesAnew ==
  /\ CtxLives
  /\ thread = "asleep" /\ KeepaliveDue
  /\ thread' = "send"
  /\ UNCHANGED <<vars, main, held, is_connected, last_keepalive, kept>>

\* Every 100 ms the thread locks the mutex and looks.
ThreadWakes ==
  /\ CtxLives
  /\ thread = "asleep" /\ KeepaliveDue
  /\ thread' = "send"
  /\ last_keepalive' = elapsed
  /\ UNCHANGED <<vars, main, held, is_connected, kept>>

\* It sends to the peer's address as it was before punching, and unlocks.
ThreadSends ==
  /\ CtxLives
  /\ thread = "send"
  /\ kept' = kept + 1
  /\ thread' = "asleep"
  /\ UNCHANGED <<vars, main, held, is_connected, last_keepalive>>

\* ctx is gone: the thread may find nothing to do, send anything anywhere, wait
\* for ever for what it takes for the mutex, or bring the process down.
ThreadAstray ==
  /\ Running /\ ~CtxLives
  /\ thread \in {"asleep", "send"}
  /\ \/ thread' \in {"asleep", "stuck"} /\ UNCHANGED main
     \/ main' = "crashed" /\ UNCHANGED thread
  /\ UNCHANGED <<vars, held, is_connected, last_keepalive, kept>>

-----------------------------------------------------------------------------
Main == Scan \/ Answered \/ Leave
Thread == ThreadStarts \/ ThreadWakes \/ ThreadSends \/ ThreadAstray

ClientNext == \/ Main \/ HeldUp \/ ProcessEnds \/ Thread
              \/ \E from \in ReplyPorts : Hear(from)

ClientSpec == ClientInit /\ [][ClientNext]_clientVars

\* main is scheduled; nothing is asked of the thread.
ClientLiveSpec == ClientSpec /\ WF_clientVars(Main)

-----------------------------------------------------------------------------
\* Although the scan writes ctx without the mutex, no keepalive goes out, nor is
\* one on its way, before the peer's answer has been read.
KeepaliveConnected == thread = "send" \/ kept > 0 => pc = "connected"

\* While its ctx exists the thread sends one keepalive at most for the peer's answer,
\* and one for each interval that the scheduler then keeps main in the function:
\* neither the time spent scanning nor the unlocked flag brings about another.
\* That is all "the thread that maintains the connection" is sure to send: in the
\* chat ctx is gone, and what ThreadAstray may send is not counted here.
KeptApart == kept > 0 => (kept - 1) * KeepAliveInterval <= held
=============================================================================
