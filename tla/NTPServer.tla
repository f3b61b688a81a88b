------------------------------- MODULE NTPServer -------------------------------
(***************************************************************************)
(* internal/ntpserver: the UDP read loop, the packet handlers it starts,   *)
(* Rebind and Shutdown, with the three things App.Reset does that they can *)
(* see: a rebind, the wipe of the query log and the swap of the snapshot,  *)
(* in that order and with App.mu held, which no packet handler takes.      *)
(* A step is what runs between two points where another goroutine can act: *)
(* a lock, an atomic load, a channel operation or a system call.           *)
(***************************************************************************)
EXTENDS Naturals, Sequences, FiniteSets, FiniteSetsExt

CONSTANTS
  Addrs,          \* requested listen addresses
  FirstAddr,      \* Config.Addr
  Handlers,       \* handler goroutines that can exist at one time (a bound)
  MaxInflight,    \* capacity of the inflight channel
  MaxSockets,     \* bound: sockets ever opened
  MaxGeneration,  \* bound: snapshots ever installed
  LogSize         \* capacity of the query log

ASSUME ServerAssumption ==
  /\ FirstAddr \in Addrs
  /\ IsFiniteSet(Handlers)
  /\ {MaxInflight, MaxSockets, MaxGeneration, LogSize} \subseteq Nat

VARIABLES
  sockets,   \* every PacketConn opened so far: its address, and whether open
  udp,       \* Server.udp, an index of sockets; 0 is nil
  bindAddr,  \* Server.bindAddr
  started, stopped,
  loop,      \* serveUDP: [at, sock]
  handler,   \* what each handler goroutine is doing: [at, from, gen]
  inflight,  \* tokens in the inflight channel
  wg,        \* the WaitGroup's counter
  rebind,    \* Rebind: [at, addr, old, new]
  shutdown,  \* Shutdown: [at, sock]
  managed,   \* whether management requests can still begin or be running
  control,   \* App.Reset, with App.mu held: idle, rebind, undo, wipe or swap
  active,    \* generation of the snapshot the store holds
  lastReset, \* history: the generation the last reset installed
  log        \* generations under which the logged queries were served, newest first

network == <<sockets, udp, bindAddr>>
work    == <<loop, handler, inflight, wg>>
state   == <<managed, control, active, lastReset, log>>
vars    == <<network, started, stopped, work, rebind, shutdown, state>>

NoRebind == [at |-> "idle", addr |-> FirstAddr, old |-> 0, new |-> 0]
Resting  == [at |-> "idle", from |-> 0, gen |-> 0]

Open(s) == s # 0 /\ sockets[s].open

InUse(a) == \E s \in DOMAIN sockets : sockets[s] = [addr |-> a, open |-> TRUE]

\* s after its Close.
Closed(s) == IF s = 0 THEN sockets ELSE [sockets EXCEPT ![s].open = FALSE]

Opened(a) == Append(sockets, [addr |-> a, open |-> TRUE])

\* Bound: what readiness reports.
Bound == udp # 0 /\ started /\ ~stopped

\* The loop moves on; handle returns, and its deferred calls remain.
LoopAt(p, s) == loop' = [at |-> p, sock |-> s]
Finish(h)    == handler' = [handler EXCEPT ![h] = [Resting EXCEPT !.at = "release"]]

Init ==
  /\ sockets = << >> /\ udp = 0 /\ bindAddr = FirstAddr
  /\ started = FALSE /\ stopped = FALSE
  /\ loop = [at |-> "none", sock |-> 0]
  /\ handler = [h \in Handlers |-> Resting]
  /\ inflight = 0 /\ wg = 0
  /\ rebind = NoRebind
  /\ shutdown = [at |-> "none", sock |-> 0]
  /\ managed = TRUE /\ control = "idle" /\ active = 0 /\ lastReset = 0 /\ log = << >>

-------------------------------------------------------------------------------
\* Start, listening and starting the loop with s.mu held. When it fails the
\* process exits.
Start ==
  /\ ~started /\ ~stopped
  /\ sockets' = Opened(FirstAddr)
  /\ udp' = Len(sockets) + 1
  /\ bindAddr' = FirstAddr
  /\ started' = TRUE
  /\ wg' = wg + 1
  /\ LoopAt("check", 0)
  /\ UNCHANGED <<stopped, handler, inflight, rebind, shutdown, state>>

\* serveUDP looks at its context; Shutdown cancels it and sets stopped together.
LoopCheck ==
  /\ loop.at = "check"
  /\ IF stopped THEN LoopAt("leave", 0) ELSE LoopAt("conn", 0)
  /\ UNCHANGED <<network, started, stopped, handler, inflight, wg, rebind, shutdown, state>>

\* (Mutant) the loop keeps the socket it began with.
MutLoopConn ==
  /\ loop.at = "conn"
  /\ LoopAt("read", 1)
  /\ UNCHANGED <<network, started, stopped, handler, inflight, wg, rebind, shutdown, state>>

\* pc := s.conn(), and ReadFrom begins.
LoopConn ==
  /\ loop.at = "conn"
  /\ LoopAt("read", udp)
  /\ UNCHANGED <<network, started, stopped, handler, inflight, wg, rebind, shutdown, state>>

\* ReadFrom fails: because the socket was closed, or with some other error,
\* after which the loop goes on unless it was told to stop.
LoopReadFails ==
  /\ loop.at = "read"
  /\ ~Open(loop.sock)
  /\ IF stopped THEN LoopAt("leave", 0) ELSE LoopAt("check", 0)
  /\ UNCHANGED <<network, started, stopped, handler, inflight, wg, rebind, shutdown, state>>

LoopReadError ==
  /\ loop.at = "read"
  /\ Open(loop.sock)
  /\ LoopAt("check", 0)
  /\ UNCHANGED <<network, started, stopped, handler, inflight, wg, rebind, shutdown, state>>

\* A datagram arrives, and an inflight token is free.
LoopAdmits(h) ==
  /\ loop.at = "read" /\ Open(loop.sock)
  /\ inflight < MaxInflight
  /\ handler[h].at = "idle"
  /\ inflight' = inflight + 1
  /\ wg' = wg + 1
  /\ handler' = [handler EXCEPT ![h] = [Resting EXCEPT !.at = "load", !.from = loop.sock]]
  /\ LoopAt("check", 0)
  /\ UNCHANGED <<network, started, stopped, rebind, shutdown, state>>

\* A datagram arrives at the limit and is dropped.
LoopDrops ==
  /\ loop.at = "read" /\ Open(loop.sock)
  /\ inflight >= MaxInflight
  /\ LoopAt("check", 0)
  /\ UNCHANGED <<network, started, stopped, handler, inflight, wg, rebind, shutdown, state>>

\* The deferred wg.Done of serveUDP.
LoopLeaves ==
  /\ loop.at = "leave"
  /\ LoopAt("exited", 0)
  /\ wg' = wg - 1
  /\ UNCHANGED <<network, started, stopped, handler, inflight, rebind, shutdown, state>>

-------------------------------------------------------------------------------
\* handle loads the snapshot it will use throughout.
Load(h) ==
  /\ handler[h].at = "load"
  /\ handler' = [handler EXCEPT ![h].at = "decide", ![h].gen = active]
  /\ UNCHANGED <<network, started, stopped, loop, inflight, wg, rebind, shutdown, state>>

\* (Mutant) an early return does not release the token.
MutRefuse(h) ==
  /\ handler[h].at \in {"load", "decide"}
  /\ handler' = [handler EXCEPT ![h] = [Resting EXCEPT !.at = "leave"]]
  /\ UNCHANGED <<network, started, stopped, loop, inflight, wg, rebind, shutdown, state>>

\* One of the early returns: length, MAC, version, mode, allowlist, admission,
\* ignore, limited without a KoD, or no filter that matches.
Refuse(h) ==
  /\ handler[h].at \in {"load", "decide"}
  /\ Finish(h)
  /\ UNCHANGED <<network, started, stopped, loop, inflight, wg, rebind, shutdown, state>>

\* A reply or a KoD is ready: s.conn().WriteTo, whose error is ignored.
Reply(h) ==
  /\ handler[h].at = "decide"
  /\ handler' = [handler EXCEPT ![h].at = "log", ![h].from = 0]
  /\ UNCHANGED <<network, started, stopped, loop, inflight, wg, rebind, shutdown, state>>

\* TryInsert, which may give up.
LogQuery(h) ==
  /\ handler[h].at = "log"
  /\ Finish(h)
  /\ log' \in {log, SubSeq(<<handler[h].gen>> \o log, 1, Min({LogSize, Len(log) + 1}))}
  /\ UNCHANGED <<network, started, stopped, loop, inflight, wg, rebind, shutdown,
                 managed, control, active, lastReset>>

\* The deferred releaseInflight, and then the deferred wg.Done.
Release(h) ==
  /\ handler[h].at = "release"
  /\ inflight' = IF inflight > 0 THEN inflight - 1 ELSE inflight
  /\ handler' = [handler EXCEPT ![h].at = "leave"]
  /\ UNCHANGED <<network, started, stopped, loop, wg, rebind, shutdown, state>>

Leave(h) ==
  /\ handler[h].at = "leave"
  /\ wg' = wg - 1
  /\ handler' = [handler EXCEPT ![h] = Resting]
  /\ UNCHANGED <<network, started, stopped, loop, inflight, rebind, shutdown, state>>

Handle(h) ==
  Load(h) \/ Refuse(h) \/ Reply(h) \/ LogQuery(h) \/ Release(h) \/ Leave(h)

-------------------------------------------------------------------------------
\* Where a reset goes from a rebind that returned: on to its commit, or, when
\* the management listener fails to move, to a second rebind that takes the
\* first back, after which it returns the error.
AfterRebind == IF control = "rebind" THEN {"wipe", "undo"} ELSE {"idle"}

\* The first critical section of Rebind: not running, nothing to do, or the
\* old socket is noted.
RebindBegins(a) ==
  /\ control \in {"rebind", "undo"} /\ rebind.at = "idle"
  /\ IF ~started \/ stopped
       THEN control' = "idle" /\ UNCHANGED rebind
     ELSE IF a = bindAddr /\ udp # 0
       THEN control' \in AfterRebind /\ UNCHANGED rebind
     ELSE UNCHANGED control /\
          rebind' = [at |-> "listen", addr |-> a, old |-> udp, new |-> 0]
  /\ UNCHANGED <<network, started, stopped, work, shutdown, managed, active, lastReset, log>>

\* (Mutant) the old socket is closed before the new one is bound.
MutRebindListens ==
  /\ rebind.at = "listen"
  /\ ~InUse(rebind.addr)
  /\ Len(sockets) < MaxSockets
  /\ sockets' = Append(Closed(rebind.old), [addr |-> rebind.addr, open |-> TRUE])
  /\ rebind' = [rebind EXCEPT !.at = "commit", !.new = Len(sockets) + 1]
  /\ UNCHANGED <<udp, bindAddr, started, stopped, work, shutdown, state>>

\* net.ListenPacket, without the lock.
RebindListens ==
  /\ rebind.at = "listen"
  /\ ~InUse(rebind.addr)
  /\ Len(sockets) < MaxSockets
  /\ sockets' = Opened(rebind.addr)
  /\ rebind' = [rebind EXCEPT !.at = "commit", !.new = Len(sockets) + 1]
  /\ UNCHANGED <<udp, bindAddr, started, stopped, work, shutdown, state>>

\* ListenPacket fails, and the reset with it.
RebindFails ==
  /\ rebind.at = "listen"
  /\ rebind' = NoRebind
  /\ control' = "idle"
  /\ UNCHANGED <<network, started, stopped, work, shutdown, managed, active, lastReset, log>>

\* The second critical section.
RebindCommits ==
  /\ rebind.at = "commit"
  /\ udp' = rebind.new
  /\ bindAddr' = rebind.addr
  /\ rebind' = [rebind EXCEPT !.at = "close"]
  /\ UNCHANGED <<sockets, started, stopped, work, shutdown, state>>

\* (Mutant) the old socket is left open.
MutRebindCloses ==
  /\ rebind.at = "close"
  /\ rebind' = NoRebind
  /\ control' \in AfterRebind
  /\ UNCHANGED <<network, started, stopped, work, shutdown, managed, active, lastReset, log>>

\* old.Close().
RebindCloses ==
  /\ rebind.at = "close"
  /\ sockets' = Closed(rebind.old)
  /\ rebind' = NoRebind
  /\ control' \in AfterRebind
  /\ UNCHANGED <<udp, bindAddr, started, stopped, work, shutdown, managed, active, lastReset, log>>

\* serveCmd has shut management down, or given up on it at the deadline with a
\* request still running. Then Shutdown: the critical section, closing the socket
\* it saw, waiting for wg.
ShutdownBegins ==
  /\ ~stopped
  /\ stopped' = TRUE
  /\ shutdown' = [at |-> "close", sock |-> udp]
  /\ \/ control = "idle" /\ managed' = FALSE
     \/ UNCHANGED managed
  /\ UNCHANGED <<network, started, work, rebind, control, active, lastReset, log>>

\* (Mutant) Shutdown leaves closing the socket to the read loop.
MutShutdownCloses ==
  /\ shutdown.at = "close"
  /\ shutdown' = [at |-> "wait", sock |-> 0]
  /\ UNCHANGED <<network, started, stopped, work, rebind, state>>

ShutdownCloses ==
  /\ shutdown.at = "close"
  /\ sockets' = Closed(shutdown.sock)
  /\ shutdown' = [at |-> "wait", sock |-> 0]
  /\ UNCHANGED <<udp, bindAddr, started, stopped, work, rebind, state>>

\* (Mutant) Shutdown does not wait for the handlers.
MutShutdownReturns ==
  /\ shutdown.at = "wait"
  /\ shutdown' = [at |-> "ok", sock |-> 0]
  /\ UNCHANGED <<network, started, stopped, work, rebind, state>>

ShutdownReturns ==
  /\ shutdown.at = "wait"
  /\ \/ wg = 0 /\ shutdown' = [at |-> "ok", sock |-> 0]
     \/ shutdown' = [at |-> "timeout", sock |-> 0]
  /\ UNCHANGED <<network, started, stopped, work, rebind, state>>

-------------------------------------------------------------------------------
\* A reset begins with or without a move of the NTP address.
ResetBegins ==
  /\ control = "idle" /\ active < MaxGeneration
  /\ started /\ managed
  /\ control' \in {"rebind", "wipe"}
  /\ UNCHANGED <<network, started, stopped, work, rebind, shutdown, managed, active, lastReset, log>>

\* queryLog.Reset().
ResetWipes ==
  /\ control = "wipe"
  /\ log' = << >>
  /\ control' = "swap"
  /\ UNCHANGED <<network, started, stopped, work, rebind, shutdown, managed, active, lastReset>>

\* snaps.Swap(next).
ResetSwaps ==
  /\ control = "swap"
  /\ active' = active + 1
  /\ lastReset' = active + 1
  /\ control' = "idle"
  /\ UNCHANGED <<network, started, stopped, work, rebind, shutdown, managed, log>>

\* An apply is one swap.
ApplySwaps ==
  /\ control = "idle" /\ active < MaxGeneration
  /\ started /\ managed
  /\ active' = active + 1
  /\ UNCHANGED <<network, started, stopped, work, rebind, shutdown, managed, control, lastReset, log>>

\* The process is over, or will not be asked anything more.
Done ==
  /\ shutdown.at \in {"ok", "timeout"}
  /\ UNCHANGED vars

\* What serveUDP does on its own. A datagram need never arrive.
LoopSteps == LoopCheck \/ LoopConn \/ LoopReadFails \/ LoopLeaves

RebindSteps ==
  \/ \E a \in Addrs : RebindBegins(a)
  \/ RebindListens \/ RebindFails \/ RebindCommits \/ RebindCloses

Next ==
  \/ Start
  \/ LoopSteps \/ LoopReadError \/ LoopDrops
  \/ \E h \in Handlers : LoopAdmits(h) \/ Handle(h)
  \/ RebindSteps
  \/ ShutdownBegins \/ ShutdownCloses \/ ShutdownReturns
  \/ ResetBegins \/ ResetWipes \/ ResetSwaps \/ ApplySwaps
  \/ Done

Spec == Init /\ [][Next]_vars

\* Every goroutine that can take a step takes one; nobody has to send a
\* datagram, ask for a reset or stop the process.
Fairness ==
  /\ WF_vars(LoopSteps)
  /\ \A h \in Handlers : WF_vars(Handle(h))
  /\ WF_vars(RebindSteps)
  /\ WF_vars(ShutdownCloses) /\ WF_vars(ShutdownReturns)
  /\ WF_vars(ResetWipes) /\ WF_vars(ResetSwaps)

FairSpec == Spec /\ Fairness

-------------------------------------------------------------------------------
\* The server's variables have their types.
TypeOK ==
  /\ sockets \in Seq([addr : Addrs, open : BOOLEAN])
  /\ udp \in 0 .. Len(sockets)
  /\ bindAddr \in Addrs
  /\ started \in BOOLEAN /\ stopped \in BOOLEAN
  /\ loop \in [at : {"none", "check", "conn", "read", "leave", "exited"},
               sock : 0 .. Len(sockets)]
  /\ handler \in [Handlers -> [at : {"idle", "load", "decide", "log", "release", "leave"},
                               from : 0 .. Len(sockets), gen : Nat]]
  /\ inflight \in 0 .. MaxInflight
  /\ wg \in Nat
  /\ rebind \in [at : {"idle", "listen", "commit", "close"}, addr : Addrs,
                 old : 0 .. Len(sockets), new : 0 .. Len(sockets)]
  /\ shutdown \in [at : {"none", "close", "wait", "ok", "timeout"}, sock : 0 .. Len(sockets)]
  /\ managed \in BOOLEAN
  /\ control \in {"idle", "rebind", "undo", "wipe", "swap"}
  /\ active \in Nat /\ lastReset \in Nat
  /\ log \in Seq(Nat) /\ Len(log) <= LogSize

LoopLives == loop.at \notin {"none", "exited"}

Busy == {h \in Handlers : handler[h].at # "idle"}

\* The inflight tokens are exactly those of handlers that have not released
\* theirs, and the WaitGroup counts the loop and every handler: no token is
\* lost and releaseInflight never finds the channel empty (server.go:305-338).
TokensAndWaiters ==
  /\ inflight = Cardinality({h \in Busy : handler[h].at # "leave"})
  /\ wg = Cardinality(Busy) + (IF LoopLives THEN 1 ELSE 0)

\* While Bound reports the server ready, the socket it points at is open: a
\* rebind binds first and never closes what it installed (server.go:125, 213-228).
BoundIsOpen == Bound => Open(udp)

\* No socket is lost: an open one is the server's, or in the hands of the
\* Rebind that opened or replaced it (server.go:213-228).
NoLostSocket ==
  \A s \in DOMAIN sockets : Open(s) =>
    \/ s = udp
    \/ rebind.at = "commit" /\ s = rebind.new
    \/ rebind.at = "close" /\ s = rebind.old

\* When Shutdown returns without an error, and management was shut down before,
\* nothing of the server is left: no read loop, no handler, no open socket
\* (server.go:231-256).
ShutdownLeavesNothing ==
  shutdown.at = "ok" /\ ~managed =>
    /\ ~LoopLives
    /\ Busy = {}
    /\ \A s \in DOMAIN sockets : ~Open(s)

\* Once Rebind has replaced the socket, the read loop comes to read the new one
\* (or the server moves on or stops): closing the old one wakes it (server.go:288-299).
LoopFollowsRebind ==
  \A s \in 1 .. MaxSockets :
    (udp = s) ~> (loop.sock = s \/ udp # s \/ stopped)

\* After management was shut down, Shutdown ends the read loop and the handlers,
\* whatever they were doing (server.go:231-256).
ShutdownStopsLoop == (stopped /\ ~managed) ~> (~LoopLives /\ Busy = {})

\* (Refuted) "Shutdown stops the read loop" (server.go:231), also while a reset
\* is running; what does hold is ShutdownStopsLoop.
ShutdownAlwaysStopsLoop == stopped ~> (~LoopLives /\ Busy = {})

\* (Refuted) Rebind "binds addr first, then drains/closes the old conn" (server.go:201): a
\* request read from a socket is answered before a rebind closes it.
RebindDrains ==
  \A h \in Handlers :
    handler[h].at \in {"load", "decide"} /\ ~stopped => Open(handler[h].from)

\* (Refuted) Reset "wipes the query log" (docs/guide.md:326): after it, the log has no
\* query served from a snapshot that the reset replaced.
ResetWipesLog ==
  control = "idle" => \A i \in DOMAIN log : log[i] >= lastReset
===============================================================================
