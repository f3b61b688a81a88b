--------------------------- MODULE ManagementServer ---------------------------
(***************************************************************************)
(* internal/control/rest/server.go: the life of the management listener.   *)
(* Serve starts the first http.Server; Rebind, called by App.Reset inside  *)
(* a request this very server is answering, installs another one and       *)
(* drains the displaced one in the background; Shutdown stops the current  *)
(* one and waits for the drains.  All http.Servers share one in-flight     *)
(* gate, whose limit the hooks that run after an apply or a reset take     *)
(* from the active snapshot.                                               *)
(* An http.Server and its listener are one id; what net/http does with     *)
(* them (Serve, Shutdown, Close) is modelled from its documentation.       *)
(***************************************************************************)
EXTENDS Naturals, FiniteSets

CONSTANTS
  Addrs,       \* listen addresses
  Off,         \* the empty address: Rebind("") unbinds
  FirstAddr,   \* Config.Addr
  Requests,    \* requests that can be in flight at one time (a bound)
  Limits,      \* values of spec.management.maxConcurrent; 0 asks for the default
  DefaultMaxConcurrent,
  MaxServers,  \* bound: http.Servers ever made
  MaxChanges   \* bound: snapshots ever installed

Nobody == "nobody"

ASSUME ManagementAssumption ==
  /\ FirstAddr \in Addrs /\ Off \notin Addrs
  /\ IsFiniteSet(Requests) /\ Nobody \notin Requests
  /\ Limits # {} /\ Limits \subseteq Nat /\ DefaultMaxConcurrent \in Nat \ {0}
  /\ MaxServers \in Nat /\ MaxChanges \in Nat

Servers == 1 .. MaxServers

VARIABLES
  current,   \* Server.http and Server.ln, which are set together; 0 is nil
  addr,      \* Server.addr
  closed,    \* Server.closed
  drains,    \* Server.drains: the displaced servers whose drain is running
  listener,  \* what became of each server's listener: [addr, open]
  accept,    \* each server's http.Server.Serve: none, pending, running or returned
  drain,     \* each server's drain goroutine: none, launched, waiting or done
  stopping,  \* servers whose http.Server has inShutdown set
  forced,    \* servers whose drain timed out and was ended by Close
  request,   \* each request: [at, on, limit], on being the server it came in
             \* on and limit what its hook read from the active snapshot
  gate,      \* inflightGate: [cur, max]
  active,    \* the active snapshot: [generation, limit]
  limitsMu,  \* the request whose hook holds limitsMu, or Nobody
  rebind,    \* Rebind, under App.mu: [at, by, to, old, new]
  start,     \* ListenAndServe: listen, install, serving or returned
  shutdown   \* Shutdown: [at, known, pending, overtaken, late]

listening == <<current, addr, closed, drains>>
http      == <<listener, accept, drain, stopping, forced>>
limits    == <<gate, active, limitsMu>>
vars      == <<listening, http, request, limits, rebind, start, shutdown>>

NoRebind == [at |-> "idle", by |-> Nobody, to |-> Off, old |-> 0, new |-> 0]
Resting  == [at |-> "idle", on |-> 0, limit |-> 0]

Made   == {s \in Servers : listener[s].addr # Off}
Unmade == CHOOSE s \in Servers \ Made : \A t \in Servers \ Made : s <= t

Open(s)  == s # 0 /\ listener[s].open
InUse(a) == \E s \in Servers : listener[s] = [addr |-> a, open |-> TRUE]
CloseOf(s) == IF s = 0 THEN listener ELSE [listener EXCEPT ![s].open = FALSE]

\* The connections http.Server.Shutdown waits for.
Busy(s) == {r \in Requests : request[r].on = s /\ request[r].at # "idle"}

\* Requests between acquire and release.
Holding == {r \in Requests : request[r].at \notin {"idle", "arrived"}}

Becomes(r, p) == request' = [request EXCEPT ![r].at = p]

\* The gate's limit for a configured one; a gate with none would never refuse.
MaxFor(n) == IF n = 0 THEN DefaultMaxConcurrent ELSE n

\* Bound: what readiness and Rebind itself ask.
Bound == current # 0 /\ ~closed

Init ==
  /\ current = 0 /\ addr = FirstAddr /\ closed = FALSE /\ drains = {}
  /\ listener = [s \in Servers |-> [addr |-> Off, open |-> FALSE]]
  /\ accept = [s \in Servers |-> "none"]
  /\ drain = [s \in Servers |-> "none"]
  /\ stopping = {} /\ forced = {}
  /\ request = [r \in Requests |-> Resting]
  /\ \E n \in Limits : /\ gate = [cur |-> 0, max |-> MaxFor(n)]
                       /\ active = [generation |-> 0, limit |-> n]
  /\ limitsMu = Nobody
  /\ rebind = NoRebind
  /\ start = "listen"
  /\ shutdown = [at |-> "none", known |-> {}, pending |-> {},
                 overtaken |-> FALSE, late |-> FALSE]

-------------------------------------------------------------------------------
\* net.Listen.  It fails when the address is taken, and may fail otherwise.
Listens(a) ==
  /\ Servers \ Made # {} /\ ~InUse(a)
  /\ listener' = [listener EXCEPT ![Unmade] = [addr |-> a, open |-> TRUE]]

\* ListenAndServe, started by serve in a goroutine.
StartListens ==
  /\ start = "listen"
  /\ Listens(FirstAddr)
  /\ start' = "install"
  /\ UNCHANGED <<listening, accept, drain, stopping, forced, request, limits, rebind, shutdown>>

StartFails ==
  /\ start = "listen"
  /\ start' = "returned"
  /\ UNCHANGED <<listening, http, request, limits, rebind, shutdown>>

\* Serve, with s.mu held: refused after a Shutdown or a Rebind.  MaxServers
\* leaves the first listener the id 1, as no Rebind precedes Serve.
StartInstalls ==
  /\ start = "install"
  /\ IF closed
       THEN /\ listener' = CloseOf(1)
            /\ start' = "returned"
            /\ UNCHANGED <<listening, accept>>
       ELSE /\ current' = 1
            /\ addr' = FirstAddr
            /\ accept' = [accept EXCEPT ![1] = "pending"]
            /\ start' = "serving"
            /\ UNCHANGED <<closed, drains, listener>>
  /\ UNCHANGED <<drain, stopping, forced, request, limits, rebind, shutdown>>

\* http.Server.Serve begins: it tracks the listener, or closes it when a
\* Shutdown came first.
ServeTracks(s) ==
  /\ accept[s] = "pending"
  /\ IF s \in stopping
       THEN /\ accept' = [accept EXCEPT ![s] = "returned"]
            /\ listener' = CloseOf(s)
       ELSE /\ accept' = [accept EXCEPT ![s] = "running"]
            /\ UNCHANGED listener
  /\ UNCHANGED <<listening, drain, stopping, forced, request, limits, rebind, start, shutdown>>

\* What http.Server.Shutdown does before it waits: it closes what Serve tracks.
StopAccepting(s) ==
  /\ stopping' = stopping \cup {s}
  /\ IF accept[s] = "running"
       THEN /\ listener' = CloseOf(s)
            /\ accept' = [accept EXCEPT ![s] = "returned"]
       ELSE UNCHANGED <<listener, accept>>

-------------------------------------------------------------------------------
\* A request comes in on an open listener.
Arrive(r, s) ==
  /\ request[r].at = "idle"
  /\ accept[s] = "running" /\ Open(s)
  /\ request' = [request EXCEPT ![r] = [Resting EXCEPT !.at = "arrived", !.on = s]]
  /\ UNCHANGED <<listening, http, limits, rebind, start, shutdown>>

\* inflightGate.acquire, which never waits.
Acquire(r) ==
  /\ request[r].at = "arrived"
  /\ IF gate.max > 0 /\ gate.cur >= gate.max
       THEN /\ request' = [request EXCEPT ![r] = Resting]
            /\ UNCHANGED gate
       ELSE /\ Becomes(r, "handling")
            /\ gate' = [gate EXCEPT !.cur = @ + 1]
  /\ UNCHANGED <<listening, http, active, limitsMu, rebind, start, shutdown>>

\* (Mutant) a request let in under a higher limit is not counted out.
MutRelease(r) ==
  /\ request[r].at \in {"handling", "finishing"}
  /\ request' = [request EXCEPT ![r] = Resting]
  /\ gate' = [gate EXCEPT !.cur = IF @ \in 1 .. gate.max THEN @ - 1 ELSE @]
  /\ UNCHANGED <<listening, http, active, limitsMu, rebind, start, shutdown>>

\* The handler is done: the deferred release, on every path out of serveHTTP.
Release(r) ==
  /\ request[r].at \in {"handling", "finishing"}
  /\ request' = [request EXCEPT ![r] = Resting]
  /\ gate' = [gate EXCEPT !.cur = IF @ > 0 THEN @ - 1 ELSE @]
  /\ UNCHANGED <<listening, http, active, limitsMu, rebind, start, shutdown>>

\* The swap, with App.mu held; the hooks run after it is released.
Swap(r, n) ==
  /\ active.generation < MaxChanges
  /\ active' = [generation |-> active.generation + 1, limit |-> n]
  /\ Becomes(r, "hooks")

\* An apply, or a reset that need not move the management listener.
Apply(r, n) ==
  /\ request[r].at = "handling"
  /\ rebind.at = "idle"
  /\ Swap(r, n)
  /\ UNCHANGED <<listening, http, gate, limitsMu, rebind, start, shutdown>>

\* (Mutant) the snapshot is read before the mutex is taken.
MutHookReads(r) ==
  /\ request[r].at = "hooks"
  /\ request' = [request EXCEPT ![r].at = "publishing", ![r].limit = active.limit]
  /\ UNCHANGED <<listening, http, limits, rebind, start, shutdown>>

\* syncManagementLimits: limitsMu, then Active, then ApplyLimits.
HookReads(r) ==
  /\ request[r].at = "hooks"
  /\ limitsMu = Nobody
  /\ limitsMu' = r
  /\ request' = [request EXCEPT ![r].at = "publishing", ![r].limit = active.limit]
  /\ UNCHANGED <<listening, http, gate, active, rebind, start, shutdown>>

HookPublishes(r) ==
  /\ request[r].at = "publishing"
  /\ gate' = [gate EXCEPT !.max = MaxFor(request[r].limit)]
  /\ limitsMu' = Nobody
  /\ request' = [request EXCEPT ![r].at = "finishing", ![r].limit = 0]
  /\ UNCHANGED <<listening, http, active, rebind, start, shutdown>>

-------------------------------------------------------------------------------
(* Rebind, called by App.Reset with App.mu held, so that one runs at a time. *)

\* The first look under s.mu; nothing to do for the address it is bound to.
RebindBegins(r, a) ==
  /\ request[r].at = "handling"
  /\ rebind.at = "idle"
  /\ active.generation < MaxChanges
  /\ ~(a = addr /\ Bound)
  /\ rebind' = [NoRebind EXCEPT !.at = IF a = Off THEN "install" ELSE "listen", !.by = r, !.to = a]
  /\ Becomes(r, "rebinding")
  /\ UNCHANGED <<listening, http, limits, start, shutdown>>

RebindListens ==
  /\ rebind.at = "listen"
  /\ Listens(rebind.to)
  /\ rebind' = [rebind EXCEPT !.at = "install", !.new = Unmade]
  /\ UNCHANGED <<listening, accept, drain, stopping, forced, request, limits, start, shutdown>>

\* The error leaves everything as it was, and the reset is refused.
RebindFails ==
  /\ rebind.at = "listen"
  /\ rebind' = NoRebind
  /\ Becomes(rebind.by, "finishing")
  /\ UNCHANGED <<listening, http, limits, start, shutdown>>

\* (Mutant) the drain is announced only when it is under way.
MutRebindInstalls ==
  /\ rebind.at = "install"
  /\ current' = rebind.new
  /\ addr' = rebind.to
  /\ closed' = (rebind.to = Off)
  /\ drain' = IF current = 0 THEN drain ELSE [drain EXCEPT ![current] = "launched"]
  /\ rebind' = [rebind EXCEPT !.at = "return", !.old = current]
  /\ shutdown' = [shutdown EXCEPT !.overtaken = @ \/ (shutdown.at # "none" /\ rebind.new # 0)]
  /\ UNCHANGED <<drains, listener, accept, stopping, forced, request, limits, start>>

\* The critical section: the new server in place of the old one, and the
\* drain announced.  drainAsync launches it.
RebindInstalls ==
  /\ rebind.at = "install"
  /\ current' = rebind.new
  /\ addr' = rebind.to
  /\ closed' = (rebind.to = Off)
  /\ drains' = drains \cup ({current} \ {0})
  /\ drain' = IF current = 0 THEN drain ELSE [drain EXCEPT ![current] = "launched"]
  /\ rebind' = [rebind EXCEPT !.at = "return", !.old = current]
  /\ shutdown' = [shutdown EXCEPT !.overtaken = @ \/ (shutdown.at # "none" /\ rebind.new # 0)]
  /\ UNCHANGED <<listener, accept, stopping, forced, request, limits, start>>

\* The drain goroutine calls http.Server.Shutdown, whose hook says ready.
DrainStops(s) ==
  /\ drain[s] = "launched"
  /\ drain' = [drain EXCEPT ![s] = "waiting"]
  /\ StopAccepting(s)
  /\ UNCHANGED <<listening, forced, request, limits, rebind, start, shutdown>>

\* (Mutant) Rebind waits for the drain itself.
MutRebindWaits(n) ==
  /\ rebind.at = "return"
  /\ rebind.old # 0 => drain[rebind.old] = "done"
  /\ listener' = CloseOf(rebind.old)
  /\ accept' = IF rebind.new = 0 THEN accept ELSE [accept EXCEPT ![rebind.new] = "pending"]
  /\ rebind' = NoRebind
  /\ Swap(rebind.by, n)
  /\ UNCHANGED <<listening, drain, stopping, forced, gate, limitsMu, start, shutdown>>

\* (Mutant) the old listener is left to http.Server.Shutdown, which closes
\* only what Serve tracks.
MutRebindReturns(n) ==
  /\ rebind.at = "return"
  /\ rebind.old # 0 => drain[rebind.old] \in {"waiting", "done"}
  /\ accept' = IF rebind.new = 0 THEN accept ELSE [accept EXCEPT ![rebind.new] = "pending"]
  /\ rebind' = NoRebind
  /\ Swap(rebind.by, n)
  /\ UNCHANGED <<listening, listener, drain, stopping, forced, gate, limitsMu, start, shutdown>>

\* drainAsync waits for ready, closes the old listener and returns; Rebind
\* starts serving the new one, and the reset goes on to its swap.
RebindReturns(n) ==
  /\ rebind.at = "return"
  /\ rebind.old # 0 => drain[rebind.old] \in {"waiting", "done"}
  /\ listener' = CloseOf(rebind.old)
  /\ accept' = IF rebind.new = 0 THEN accept ELSE [accept EXCEPT ![rebind.new] = "pending"]
  /\ rebind' = NoRebind
  /\ Swap(rebind.by, n)
  /\ UNCHANGED <<listening, drain, stopping, forced, gate, limitsMu, start, shutdown>>

\* http.Server.Shutdown returns: no connection is active.  finishDrain.
DrainEnds(s) ==
  /\ drain[s] = "waiting"
  /\ Busy(s) = {}
  /\ drain' = [drain EXCEPT ![s] = "done"]
  /\ drains' = drains \ {s}
  /\ UNCHANGED <<current, addr, closed, listener, accept, stopping, forced, request,
                 limits, rebind, start, shutdown>>

\* rebindDrainTimeout: Close cuts the connections, the handlers run on.
DrainTimesOut(s) ==
  /\ drain[s] = "waiting"
  /\ Busy(s) # {}
  /\ forced' = forced \cup {s}
  /\ drain' = [drain EXCEPT ![s] = "done"]
  /\ drains' = drains \ {s}
  /\ UNCHANGED <<current, addr, closed, listener, accept, stopping, request, limits,
                 rebind, start, shutdown>>

-------------------------------------------------------------------------------
\* Shutdown, called once by serve: closed first, without the lock.
ShutdownBegins ==
  /\ shutdown.at = "none"
  /\ closed' = TRUE
  /\ shutdown' = [shutdown EXCEPT !.at = "stop"]
  /\ UNCHANGED <<current, addr, drains, http, request, limits, rebind, start>>

\* The current server, read under s.mu, is told to stop.  known is history:
\* the servers installed by then.
ShutdownStops ==
  /\ shutdown.at = "stop"
  /\ shutdown' = [shutdown EXCEPT !.at = "wait", !.pending = {current} \ {0},
                     !.known = Made \ {IF rebind.at = "install" THEN rebind.new ELSE 0}]
  /\ IF current = 0 THEN UNCHANGED <<listener, accept, stopping>> ELSE StopAccepting(current)
  /\ UNCHANGED <<listening, drain, forced, request, limits, rebind, start>>

\* (Mutant) the drains are not waited for.
MutShutdownCopies ==
  /\ shutdown.at = "wait"
  /\ \A s \in shutdown.pending : Busy(s) = {}
  /\ shutdown' = [shutdown EXCEPT !.at = "drains", !.pending = {}]
  /\ UNCHANGED <<listening, http, request, limits, rebind, start>>

\* http.Server.Shutdown returns.  waitDrains takes its copy of the drains.
ShutdownCopies ==
  /\ shutdown.at = "wait"
  /\ \A s \in shutdown.pending : Busy(s) = {}
  /\ shutdown' = [shutdown EXCEPT !.at = "drains", !.pending = drains]
  /\ UNCHANGED <<listening, http, request, limits, rebind, start>>

ShutdownReturns ==
  /\ shutdown.at = "drains"
  /\ shutdown.pending \cap drains = {}
  /\ shutdown' = [shutdown EXCEPT !.at = "returned", !.pending = {}]
  /\ UNCHANGED <<listening, http, request, limits, rebind, start>>

\* The deadline serve gives the whole shutdown.
ShutdownTimesOut ==
  /\ shutdown.at \in {"wait", "drains"}
  /\ \E s \in shutdown.pending : Busy(s) # {} \/ s \in drains
  /\ shutdown' = [shutdown EXCEPT !.at = "returned", !.pending = {}, !.late = TRUE]
  /\ UNCHANGED <<listening, http, request, limits, rebind, start>>

-------------------------------------------------------------------------------
ServeSteps == StartListens \/ StartFails \/ StartInstalls \/ \E s \in Servers : ServeTracks(s)

RequestSteps(r) ==
  \/ \E s \in Servers : Arrive(r, s)
  \/ Acquire(r)
  \/ \E n \in Limits : Apply(r, n)
  \/ HookReads(r)
  \/ HookPublishes(r)
  \/ \E a \in Addrs \cup {Off} : RebindBegins(r, a)
  \/ Release(r)

RebindSteps == RebindListens \/ RebindFails \/ RebindInstalls \/ \E n \in Limits : RebindReturns(n)

DrainSteps(s) == DrainStops(s) \/ DrainEnds(s) \/ DrainTimesOut(s)

ShutdownSteps ==
  ShutdownBegins \/ ShutdownStops \/ ShutdownCopies \/ ShutdownReturns \/ ShutdownTimesOut

Next ==
  \/ ServeSteps
  \/ \E r \in Requests : RequestSteps(r)
  \/ RebindSteps
  \/ \E s \in Servers : DrainSteps(s)
  \/ ShutdownSteps

Spec == Init /\ [][Next]_vars

\* A goroutine that can run runs.  No request need ever end, and no timeout
\* need ever come.
FairSpec ==
  /\ Spec
  /\ WF_vars(RebindSteps)
  /\ \A s \in Servers : WF_vars(DrainStops(s))

-------------------------------------------------------------------------------
(* Properties. *)

TypeOK ==
  /\ current \in Servers \cup {0} /\ addr \in Addrs \cup {Off} /\ closed \in BOOLEAN
  /\ drains \subseteq Servers /\ stopping \subseteq Servers /\ forced \subseteq Servers
  /\ listener \in [Servers -> [addr : Addrs \cup {Off}, open : BOOLEAN]]
  /\ accept \in [Servers -> {"none", "pending", "running", "returned"}]
  /\ drain \in [Servers -> {"none", "launched", "waiting", "done"}]
  /\ \A r \in Requests :
       /\ request[r].at \in {"idle", "arrived", "handling", "rebinding", "hooks",
                             "publishing", "finishing"}
       /\ request[r].on \in Servers \cup {0} /\ request[r].limit \in Limits \cup {0}
  /\ gate.cur \in 0 .. Cardinality(Requests) /\ gate.max \in {MaxFor(n) : n \in Limits} \ {0}
  /\ active.generation \in 0 .. MaxChanges /\ active.limit \in Limits
  /\ limitsMu \in Requests \cup {Nobody}
  /\ rebind.at \in {"idle", "listen", "install", "return"} /\ rebind.by \in Requests \cup {Nobody}
  /\ {rebind.old, rebind.new} \subseteq Servers \cup {0}
  /\ start \in {"listen", "install", "serving", "returned"}
  /\ shutdown.at \in {"none", "stop", "wait", "drains", "returned"}
  /\ shutdown.pending \cup shutdown.known \subseteq Servers

\* No Rebind leaves a listener behind: an open one is the current server's, or
\* a Serve or Rebind that has not returned still holds it.  And a server that
\* reports Bound has an open listener, also when a rebind failed, as long as
\* no rebind overtook a Shutdown.
ListenerAccounted ==
  /\ \A s \in Servers : Open(s) =>
       \/ s = current
       \/ start = "install" /\ s = 1
       \/ rebind.at # "idle" /\ s \in {rebind.old, rebind.new}
  /\ Bound /\ ~shutdown.overtaken => Open(current)

\* A displaced server that still answers a request is among the drains, where
\* a Shutdown will wait for it, until its drain gave up on it.
DrainsCoverDisplaced ==
  \A s \in Servers \ {current} : Busy(s) # {} => s \in drains \cup forced

\* (Refuted) "Shutdown closes the listener and waits for in-flight requests"
\* (server.go:347): a Rebind that overtakes it clears closed and serves on.
ShutdownCloses ==
  shutdown.at = "returned" /\ ~shutdown.late =>
    \A s \in Servers : accept[s] = "running" => ~Open(s)

\* A Shutdown that met its deadline waited for every request on every server
\* there was, whether current or displaced; and if no rebind overtook it, no
\* connection is accepted any more.
ShutdownWaited ==
  shutdown.at = "returned" /\ ~shutdown.late =>
    /\ \A s \in shutdown.known \ forced : Busy(s) = {}
    /\ ~shutdown.overtaken => ShutdownCloses

\* The gate counts exactly the requests it let in, whatever its limit was
\* when they came and is when they leave.
GateCounts == gate.cur = Cardinality(Holding)

\* When no hook is left to run, the gate has the active snapshot's limit: no
\* hook published an older one after a newer one.
LimitsAreCurrent ==
  (\A r \in Requests : request[r].at \notin {"hooks", "publishing"}) => gate.max = MaxFor(active.limit)

\* A reset that rebinds the server answering it never waits for its own
\* request: Rebind returns even if no request ends and no timeout comes.
RebindReturnsToItsRequest == rebind.at # "idle" ~> rebind.at = "idle"
===============================================================================
