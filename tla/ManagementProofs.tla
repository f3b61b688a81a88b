--------------------------- MODULE ManagementProofs ---------------------------
(***************************************************************************)
(* Proofs about ManagementServer, for any addresses, any finite number of  *)
(* requests, any limits and any number of servers and installed snapshots. *)
(* The strengthening of each property is a conjunct of its own, so that    *)
(* it can be shown inductive relative to those before it.                  *)
(***************************************************************************)
EXTENDS ManagementServer, FiniteSetTheorems, WellFoundedInduction, TLAPS

Points == {"idle", "arrived", "handling", "rebinding", "hooks", "publishing", "finishing"}
RequestStates  == [at : Points, on : Servers \cup {0}, limit : Limits \cup {0}]
ListenerStates == [addr : Addrs \cup {Off}, open : BOOLEAN]
RebindStates ==
  [at : {"idle", "listen", "install", "return"}, by : Requests \cup {Nobody},
   to : Addrs \cup {Off}, old : Servers \cup {0}, new : Servers \cup {0}]

\* What each variable holds.
Typed ==
  /\ current \in Servers \cup {0} /\ closed \in BOOLEAN
  /\ drains \subseteq Servers /\ stopping \subseteq Servers /\ forced \subseteq Servers
  /\ listener \in [Servers -> ListenerStates]
  /\ accept \in [Servers -> {"none", "pending", "running", "returned"}]
  /\ drain \in [Servers -> {"none", "launched", "waiting", "done"}]
  /\ request \in [Requests -> RequestStates]
  /\ gate \in [cur : Nat, max : Nat]
  /\ active \in [generation : Nat, limit : Limits]
  /\ limitsMu \in Requests \cup {Nobody}
  /\ rebind \in RebindStates
  /\ start \in {"listen", "install", "serving", "returned"}
  /\ shutdown \in [at : {"none", "stop", "wait", "drains", "returned"},
                   known : SUBSET Servers, pending : SUBSET Servers,
                   overtaken : BOOLEAN, late : BOOLEAN]

\* Until Serve has installed its server nothing else goes on.
StartInv ==
  /\ start \in {"listen", "install"} =>
       /\ current = 0 /\ rebind = NoRebind
       /\ \A r \in Requests : request[r].at = "idle"
       /\ \A s \in Servers : accept[s] = "none" /\ drain[s] = "none"
       /\ shutdown.at # "none" => closed
       /\ ~shutdown.overtaken
  /\ start = "listen" => Made = {}
  /\ start = "install" => Made = {1} /\ Open(1)

\* A rebind is of a request that waits for it, and its new server has a
\* listener that nobody else knows of until it is installed.
RebindInv ==
  /\ rebind.at = "idle" => rebind = NoRebind
  /\ rebind.at # "idle" => rebind.by \in Requests /\ request[rebind.by].at = "rebinding"
  /\ rebind.at = "listen" => rebind.new = 0 /\ rebind.to # Off
  /\ rebind.at \in {"listen", "install"} => rebind.old = 0
  /\ rebind.at \in {"install", "return"} => (rebind.new = 0 <=> rebind.to = Off)
  /\ rebind.at = "install" /\ rebind.new # 0 =>
       /\ rebind.new # current /\ Open(rebind.new)
       /\ accept[rebind.new] = "none" /\ drain[rebind.new] = "none"
  /\ rebind.at = "return" => rebind.new = current /\ (rebind.old # 0 => rebind.old # current)

\* Shutdown has told the current server to stop.
Waited == shutdown.at \in {"wait", "drains", "returned"}

\* How the fields that are about one server go together.
ServerInv ==
  \A s \in Servers :
       /\ s \in drains <=> drain[s] \in {"launched", "waiting"}
       /\ drain[s] \in {"waiting", "done"} => s \in stopping
       /\ s \in stopping => accept[s] # "running"
       /\ accept[s] # "none" => s = current \/ drain[s] # "none"
       /\ drain[s] # "none" => s # current
       /\ accept[s] # "none" \/ drain[s] # "none" \/ s \in stopping \/ s = current => s \in Made
       /\ Open(s) => s \in Made
       /\ s \in stopping => drain[s] # "none" \/ Waited

ShutdownBegun ==
  /\ shutdown.at = "none" => ~shutdown.overtaken
  /\ shutdown.at # "none" /\ ~shutdown.overtaken => closed

\* The hooks one after the other: the one that holds limitsMu read the active
\* snapshot, or another hook is still to come.
LimitsInv ==
  /\ \A r \in Requests : request[r].at = "publishing" <=> limitsMu = r
  /\ (\A r \in Requests : request[r].at # "hooks") =>
       IF limitsMu = Nobody THEN gate.max = MaxFor(active.limit)
       ELSE request[limitsMu].limit = active.limit

\* What a Shutdown knows of the servers there were when it began, and of the
\* current one, while it waits and once it has waited.
WaitInv ==
  /\ Waited =>
       /\ shutdown.known \subseteq Made
       /\ rebind.at = "install" => rebind.new \notin shutdown.known
       /\ \A s \in shutdown.known : accept[s] = "running" => drain[s] = "launched"
       /\ current \in shutdown.known => current \in stopping
       /\ ~shutdown.overtaken /\ current # 0 => current \in stopping
  /\ shutdown.at = "drains" =>
       /\ shutdown.known \cap drains \subseteq stopping \cup shutdown.pending
       /\ ~shutdown.overtaken => drains \subseteq stopping \cup shutdown.pending
  /\ shutdown.at = "returned" /\ ~shutdown.late =>
       /\ shutdown.known \cap drains \subseteq stopping
       /\ ~shutdown.overtaken => drains \subseteq stopping

\* The requests it has yet to wait for are on servers it has yet to wait for.
BusyInv ==
  \A s \in shutdown.known \ forced : Busy(s) # {} =>
    /\ shutdown.at = "wait" => s \in shutdown.pending \cup drains
    /\ shutdown.at = "drains" => s \in shutdown.pending \cap drains
    /\ shutdown.at = "returned" => shutdown.late

-------------------------------------------------------------------------------
\* Listens gives the new listener to a server that had none.
LEMMA UnmadeFree ==
  ASSUME Servers \ Made # {}
  PROVE  /\ Unmade \in Servers \ Made
         /\ Made = {} => Unmade = 1
<1> DEFINE Less == OpToRel(<, Nat)
           Free == Servers \ Made
<1>1. Servers \subseteq Nat
  BY ManagementAssumption DEF Servers
<1>2. \E s \in Free : \A t \in Free : ~(<<t, s>> \in Less)
  <2>1. IsWellFoundedOn(Less, Nat) /\ Free \subseteq Nat /\ Free # {}
    BY <1>1, NatLessThanWellFounded
  <2> HIDE DEF Less, Free
  <2> QED
    BY <2>1, WFMin
<1>3. \A s, t \in Nat : t < s => <<t, s>> \in Less
  BY DEF OpToRel
<1>4. \E s \in Free : \A t \in Free : s <= t
  <2> HIDE DEF Less
  <2>1. PICK s \in Free : \A t \in Free : <<t, s>> \notin Less
    BY <1>2
  <2>2. Free \subseteq Nat
    BY <1>1
  <2> HIDE DEF Free
  <2>3. \A t \in Free : ~(t < s)
    BY <1>3, <2>1, <2>2
  <2> QED
    BY <2>1, <2>2, <2>3
<1>5. Unmade \in Free /\ \A t \in Free : Unmade <= t
  BY <1>4 DEF Unmade
<1>6. ASSUME Made = {}
      PROVE  Unmade = 1
  BY <1>1, <1>5, <1>6, ManagementAssumption DEF Servers
<1> QED
  BY <1>5, <1>6

\* Closing a listener, or none, keeps the types.
LEMMA CloseType ==
  ASSUME Typed, NEW s \in Servers \cup {0}
  PROVE  CloseOf(s) \in [Servers -> ListenerStates]
<1> USE DEF Typed
<1>1. CASE s = 0
  BY <1>1 DEF CloseOf
<1>2. CASE s # 0
  <2>1. listener[s] \in ListenerStates
    BY <1>2
  <2>2. [listener[s] EXCEPT !.open = FALSE] \in ListenerStates
    BY <2>1 DEF ListenerStates
  <2> QED
    BY <1>2, <2>2 DEF CloseOf
<1> QED
  BY <1>1, <1>2

\* What http.Server.Shutdown does before it waits keeps the types.
LEMMA StopType ==
  ASSUME Typed, NEW s \in Servers, StopAccepting(s)
  PROVE  /\ stopping' \subseteq Servers
         /\ listener' \in [Servers -> ListenerStates]
         /\ accept' \in [Servers -> {"none", "pending", "running", "returned"}]
  BY CloseType DEF Typed, StopAccepting

\* A request that moves on, and one whose hook has read a limit, is a request.
LEMMA RequestType ==
  ASSUME Typed, NEW r \in Requests, NEW p \in Points, NEW n \in Limits \cup {0}
  PROVE  /\ [request EXCEPT ![r].at = p] \in [Requests -> RequestStates]
         /\ [request EXCEPT ![r].at = p, ![r].limit = n] \in [Requests -> RequestStates]
<1>1. request[r] \in RequestStates
  BY DEF Typed
<1>2. [request[r] EXCEPT !.at = p] \in RequestStates
  BY <1>1 DEF RequestStates
<1>3. [request[r] EXCEPT !.at = p, !.limit = n] \in RequestStates
  BY <1>1 DEF RequestStates
<1> QED
  BY <1>2, <1>3 DEF Typed

\* The gate's limit is a number (MaxFor).
LEMMA GateType ==
  ASSUME NEW n \in Limits \cup {0}
  PROVE  MaxFor(n) \in Nat
  BY ManagementAssumption DEF MaxFor

\* Every step keeps each variable of its type.
LEMMA TypedStep ==
  ASSUME Typed, StartInv, RebindInv, [Next]_vars
  PROVE  Typed'
<1> USE ManagementAssumption
<1> USE DEF Typed, listening, http, limits
<1>1. CASE StartListens
  BY <1>1, UnmadeFree DEF StartListens, Listens, ListenerStates
<1>2. CASE StartFails
  BY <1>2 DEF StartFails
<1>3. CASE StartInstalls
  BY <1>3, CloseType DEF StartInstalls, StartInv, Made
<1>4. ASSUME NEW s \in Servers, ServeTracks(s) PROVE Typed'
  BY <1>4, CloseType DEF ServeTracks
<1>5. ASSUME NEW r \in Requests, NEW s \in Servers, Arrive(r, s) PROVE Typed'
  BY <1>5 DEF Arrive, RequestStates, Points, Resting
<1>6. ASSUME NEW r \in Requests, Acquire(r) PROVE Typed'
  <2>1. request' \in [Requests -> RequestStates]
    <3>1. CASE gate.max > 0 /\ gate.cur >= gate.max
      BY <1>6, <3>1 DEF Acquire, RequestStates, Points, Resting
    <3>2. CASE ~(gate.max > 0 /\ gate.cur >= gate.max)
      <4>1. request' = [request EXCEPT ![r].at = "handling"] /\ "handling" \in Points
        BY <1>6, <3>2 DEF Acquire, Becomes, Points
      <4> HIDE DEF Typed
      <4> QED
        BY <4>1, RequestType
    <3> QED
      BY <3>1, <3>2
  <2>2. gate' \in [cur : Nat, max : Nat]
    BY <1>6 DEF Acquire
  <2> QED
    BY <1>6, <2>1, <2>2 DEF Acquire
<1>7. ASSUME NEW r \in Requests, NEW n \in Limits, Apply(r, n) PROVE Typed'
  <2>1. request' \in [Requests -> RequestStates]
    BY <1>7, RequestType DEF Apply, Swap, Becomes, Points
  <2>2. active' \in [generation : Nat, limit : Limits]
    BY <1>7 DEF Apply, Swap
  <2> QED
    BY <1>7, <2>1, <2>2 DEF Apply
<1>8. ASSUME NEW r \in Requests, HookReads(r) PROVE Typed'
  BY <1>8, RequestType DEF HookReads, Points
<1>9. ASSUME NEW r \in Requests, HookPublishes(r) PROVE Typed'
  BY <1>9, RequestType, GateType DEF HookPublishes, Points, RequestStates
<1>10. ASSUME NEW r \in Requests, NEW a \in Addrs \cup {Off}, RebindBegins(r, a)
      PROVE  Typed'
  <2>1. request' \in [Requests -> RequestStates]
    BY <1>10, RequestType DEF RebindBegins, Becomes, Points
  <2>2. rebind' \in RebindStates
    BY <1>10 DEF RebindBegins, RebindStates, NoRebind
  <2> QED
    BY <1>10, <2>1, <2>2 DEF RebindBegins
<1>11. ASSUME NEW r \in Requests, Release(r) PROVE Typed'
  BY <1>11 DEF Release, RequestStates, Points, Resting
<1>12. CASE RebindListens
  BY <1>12, UnmadeFree, ZenonT(30) DEF RebindListens, Listens, ListenerStates, RebindStates
<1>13. CASE RebindFails
  BY <1>13, RequestType, ZenonT(30) DEF RebindFails, Points, Becomes, RebindStates, NoRebind,
                            RebindInv
<1>14. CASE RebindInstalls
  BY <1>14 DEF RebindInstalls, RebindStates
<1>15. ASSUME NEW n \in Limits, RebindReturns(n) PROVE Typed'
  <2>1. rebind.by \in Requests /\ rebind.old \in Servers \cup {0} /\ rebind.new \in Servers \cup {0}
    BY <1>15 DEF RebindReturns, RebindInv, RebindStates
  <2>2. request' \in [Requests -> RequestStates]
    BY <1>15, <2>1, RequestType DEF RebindReturns, Swap, Becomes, Points
  <2>3. active' \in [generation : Nat, limit : Limits]
    BY <1>15 DEF RebindReturns, Swap
  <2>4. listener' \in [Servers -> ListenerStates]
    BY <1>15, <2>1, CloseType DEF RebindReturns
  <2>5. rebind' \in RebindStates
    BY <1>15 DEF RebindReturns, RebindStates, NoRebind
  <2>6. accept' \in [Servers -> {"none", "pending", "running", "returned"}]
    BY <1>15, <2>1 DEF RebindReturns
  <2> QED
    BY <1>15, <2>2, <2>3, <2>4, <2>5, <2>6 DEF RebindReturns
<1>16. ASSUME NEW s \in Servers, DrainStops(s) PROVE Typed'
  BY <1>16, StopType DEF DrainStops
<1>17. ASSUME NEW s \in Servers, DrainEnds(s) PROVE Typed'
  BY <1>17 DEF DrainEnds
<1>18. ASSUME NEW s \in Servers, DrainTimesOut(s) PROVE Typed'
  BY <1>18 DEF DrainTimesOut
<1>19. CASE ShutdownBegins
  BY <1>19 DEF ShutdownBegins
<1>20. CASE ShutdownStops
  <2>1. /\ stopping' \subseteq Servers
        /\ listener' \in [Servers -> ListenerStates]
        /\ accept' \in [Servers -> {"none", "pending", "running", "returned"}]
    BY <1>20, StopType DEF ShutdownStops
  <2>2. shutdown' \in [at : {"none", "stop", "wait", "drains", "returned"},
                       known : SUBSET Servers, pending : SUBSET Servers,
                       overtaken : BOOLEAN, late : BOOLEAN]
    BY <1>20 DEF ShutdownStops, Made
  <2> QED
    BY <1>20, <2>1, <2>2 DEF ShutdownStops
<1>21. CASE ShutdownCopies
  BY <1>21 DEF ShutdownCopies
<1>22. CASE ShutdownReturns
  BY <1>22 DEF ShutdownReturns
<1>23. CASE ShutdownTimesOut
  BY <1>23 DEF ShutdownTimesOut
<1>24. CASE UNCHANGED vars
  BY <1>24 DEF vars
<1> QED
  BY <1>1, <1>2, <1>3, <1>4, <1>5, <1>6, <1>7, <1>8, <1>9, <1>10, <1>11, <1>12,
     <1>13, <1>14, <1>15, <1>16, <1>17, <1>18, <1>19, <1>20, <1>21, <1>22, <1>23, <1>24
     DEF Next, ServeSteps, RequestSteps, RebindSteps, DrainSteps, ShutdownSteps

\* Nothing begins before Serve has installed its server.
LEMMA StartStep ==
  ASSUME Typed, StartInv, [Next]_vars
  PROVE  StartInv'
<1> USE ManagementAssumption
<1> USE DEF Typed, Points, RequestStates, ListenerStates, RebindStates, StartInv,
            Open, Made, listening, http, limits, Becomes, Swap, CloseOf,
            StopAccepting, MaxFor, Resting, NoRebind
<1>1. CASE StartListens
  BY <1>1, UnmadeFree DEF StartListens, Listens
<1>2. CASE StartFails
  BY <1>2 DEF StartFails
<1>3. CASE StartInstalls
  BY <1>3 DEF StartInstalls
<1>4. ASSUME NEW s \in Servers, ServeTracks(s) PROVE StartInv'
  BY <1>4 DEF ServeTracks
<1>5. ASSUME NEW r \in Requests, NEW s \in Servers, Arrive(r, s) PROVE StartInv'
  BY <1>5 DEF Arrive
<1>6. ASSUME NEW r \in Requests, Acquire(r) PROVE StartInv'
  BY <1>6 DEF Acquire
<1>7. ASSUME NEW r \in Requests, NEW n \in Limits, Apply(r, n) PROVE StartInv'
  BY <1>7 DEF Apply
<1>8. ASSUME NEW r \in Requests, HookReads(r) PROVE StartInv'
  BY <1>8 DEF HookReads
<1>9. ASSUME NEW r \in Requests, HookPublishes(r) PROVE StartInv'
  BY <1>9 DEF HookPublishes
<1>10. ASSUME NEW r \in Requests, NEW a \in Addrs \cup {Off}, RebindBegins(r, a)
      PROVE  StartInv'
  BY <1>10 DEF RebindBegins
<1>11. ASSUME NEW r \in Requests, Release(r) PROVE StartInv'
  BY <1>11 DEF Release
<1>12. CASE RebindListens
  BY <1>12, UnmadeFree DEF RebindListens, Listens
<1>13. CASE RebindFails
  BY <1>13 DEF RebindFails
<1>14. CASE RebindInstalls
  BY <1>14 DEF RebindInstalls
<1>15. ASSUME NEW n \in Limits, RebindReturns(n) PROVE StartInv'
  BY <1>15 DEF RebindReturns
<1>16. ASSUME NEW s \in Servers, DrainStops(s) PROVE StartInv'
  BY <1>16 DEF DrainStops
<1>17. ASSUME NEW s \in Servers, DrainEnds(s) PROVE StartInv'
  BY <1>17 DEF DrainEnds
<1>18. ASSUME NEW s \in Servers, DrainTimesOut(s) PROVE StartInv'
  BY <1>18 DEF DrainTimesOut
<1>19. CASE ShutdownBegins
  BY <1>19 DEF ShutdownBegins
<1>20. CASE ShutdownStops
  BY <1>20 DEF ShutdownStops
<1>21. CASE ShutdownCopies
  BY <1>21 DEF ShutdownCopies
<1>22. CASE ShutdownReturns
  BY <1>22 DEF ShutdownReturns
<1>23. CASE ShutdownTimesOut
  BY <1>23 DEF ShutdownTimesOut
<1>24. CASE UNCHANGED vars
  BY <1>24 DEF vars
<1> QED
  BY <1>1, <1>2, <1>3, <1>4, <1>5, <1>6, <1>7, <1>8, <1>9, <1>10, <1>11, <1>12,
     <1>13, <1>14, <1>15, <1>16, <1>17, <1>18, <1>19, <1>20, <1>21, <1>22, <1>23, <1>24
     DEF Next, ServeSteps, RequestSteps, RebindSteps, DrainSteps, ShutdownSteps

\* A rebind keeps its request and its new server to itself.
LEMMA RebindStep ==
  ASSUME Typed, StartInv, RebindInv, ServerInv, [Next]_vars
  PROVE  RebindInv'
<1> USE ManagementAssumption
<1> USE DEF Typed, Points, RequestStates, ListenerStates, RebindStates, StartInv,
            RebindInv, ServerInv, Open, listening, http, limits, Becomes, Swap,
            CloseOf, StopAccepting, MaxFor, Resting, NoRebind
<1>1. CASE StartListens
  BY <1>1, UnmadeFree DEF StartListens, Listens, Made
<1>2. CASE StartFails
  BY <1>2 DEF StartFails
<1>3. CASE StartInstalls
  BY <1>3 DEF StartInstalls
<1>4. ASSUME NEW s \in Servers, ServeTracks(s) PROVE RebindInv'
  BY <1>4 DEF ServeTracks
<1>5. ASSUME NEW r \in Requests, NEW s \in Servers, Arrive(r, s) PROVE RebindInv'
  BY <1>5 DEF Arrive
<1>6. ASSUME NEW r \in Requests, Acquire(r) PROVE RebindInv'
  BY <1>6 DEF Acquire
<1>7. ASSUME NEW r \in Requests, NEW n \in Limits, Apply(r, n) PROVE RebindInv'
  BY <1>7 DEF Apply
<1>8. ASSUME NEW r \in Requests, HookReads(r) PROVE RebindInv'
  BY <1>8 DEF HookReads
<1>9. ASSUME NEW r \in Requests, HookPublishes(r) PROVE RebindInv'
  BY <1>9 DEF HookPublishes
<1>10. ASSUME NEW r \in Requests, NEW a \in Addrs \cup {Off}, RebindBegins(r, a)
      PROVE  RebindInv'
  BY <1>10 DEF RebindBegins
<1>11. ASSUME NEW r \in Requests, Release(r) PROVE RebindInv'
  BY <1>11 DEF Release
<1>12. CASE RebindListens
  <2>1. Unmade \in Servers \ Made /\ Unmade # 0
    BY <1>12, UnmadeFree DEF RebindListens, Listens, Servers
  <2>2. /\ rebind' = [rebind EXCEPT !.at = "install", !.new = Unmade]
        /\ listener' = [listener EXCEPT ![Unmade] = [addr |-> rebind.to, open |-> TRUE]]
        /\ rebind.at = "listen"
    BY <1>12 DEF RebindListens, Listens
  <2>3. Unmade # current /\ accept[Unmade] = "none" /\ drain[Unmade] = "none"
    BY <2>1
  <2>4. listener'[Unmade].open
    BY <2>1, <2>2
  <2> QED
    BY <1>12, <2>1, <2>2, <2>3, <2>4 DEF RebindListens
<1>13. CASE RebindFails
  BY <1>13 DEF RebindFails
<1>14. CASE RebindInstalls
  BY <1>14 DEF RebindInstalls
<1>15. ASSUME NEW n \in Limits, RebindReturns(n) PROVE RebindInv'
  BY <1>15 DEF RebindReturns
<1>16. ASSUME NEW s \in Servers, DrainStops(s) PROVE RebindInv'
  BY <1>16 DEF DrainStops
<1>17. ASSUME NEW s \in Servers, DrainEnds(s) PROVE RebindInv'
  BY <1>17 DEF DrainEnds
<1>18. ASSUME NEW s \in Servers, DrainTimesOut(s) PROVE RebindInv'
  BY <1>18 DEF DrainTimesOut
<1>19. CASE ShutdownBegins
  BY <1>19 DEF ShutdownBegins
<1>20. CASE ShutdownStops
  BY <1>20 DEF ShutdownStops
<1>21. CASE ShutdownCopies
  BY <1>21 DEF ShutdownCopies
<1>22. CASE ShutdownReturns
  BY <1>22 DEF ShutdownReturns
<1>23. CASE ShutdownTimesOut
  BY <1>23 DEF ShutdownTimesOut
<1>24. CASE UNCHANGED vars
  BY <1>24 DEF vars
<1> QED
  BY <1>1, <1>2, <1>3, <1>4, <1>5, <1>6, <1>7, <1>8, <1>9, <1>10, <1>11, <1>12,
     <1>13, <1>14, <1>15, <1>16, <1>17, <1>18, <1>19, <1>20, <1>21, <1>22, <1>23, <1>24
     DEF Next, ServeSteps, RequestSteps, RebindSteps, DrainSteps, ShutdownSteps

\* The fields about one server stay together.
LEMMA ServerStep ==
  ASSUME Typed, StartInv, RebindInv, ServerInv, [Next]_vars
  PROVE  ServerInv'
<1> USE ManagementAssumption
<1> USE DEF Typed, Points, RequestStates, ListenerStates, RebindStates, StartInv,
            RebindInv, ServerInv, Waited, Open, Made, listening, http, limits,
            Becomes, Swap, CloseOf, StopAccepting, MaxFor, Resting, NoRebind
<1>1. CASE StartListens
  BY <1>1, UnmadeFree DEF StartListens, Listens
<1>2. CASE StartFails
  BY <1>2 DEF StartFails
<1>3. CASE StartInstalls
  BY <1>3 DEF StartInstalls
<1>4. ASSUME NEW s \in Servers, ServeTracks(s) PROVE ServerInv'
  BY <1>4 DEF ServeTracks
<1>5. ASSUME NEW r \in Requests, NEW s \in Servers, Arrive(r, s) PROVE ServerInv'
  BY <1>5 DEF Arrive
<1>6. ASSUME NEW r \in Requests, Acquire(r) PROVE ServerInv'
  BY <1>6 DEF Acquire
<1>7. ASSUME NEW r \in Requests, NEW n \in Limits, Apply(r, n) PROVE ServerInv'
  BY <1>7 DEF Apply
<1>8. ASSUME NEW r \in Requests, HookReads(r) PROVE ServerInv'
  BY <1>8 DEF HookReads
<1>9. ASSUME NEW r \in Requests, HookPublishes(r) PROVE ServerInv'
  BY <1>9 DEF HookPublishes
<1>10. ASSUME NEW r \in Requests, NEW a \in Addrs \cup {Off}, RebindBegins(r, a)
      PROVE  ServerInv'
  BY <1>10 DEF RebindBegins
<1>11. ASSUME NEW r \in Requests, Release(r) PROVE ServerInv'
  BY <1>11 DEF Release
<1>12. CASE RebindListens
  BY <1>12, UnmadeFree DEF RebindListens, Listens
<1>13. CASE RebindFails
  BY <1>13 DEF RebindFails
<1>14. CASE RebindInstalls
  <2>1. /\ current' = rebind.new /\ rebind.new \in Servers \cup {0}
        /\ drains' = drains \cup ({current} \ {0})
        /\ drain' = IF current = 0 THEN drain ELSE [drain EXCEPT ![current] = "launched"]
        /\ UNCHANGED <<listener, accept, stopping>> /\ shutdown'.at = shutdown.at
    BY <1>14 DEF RebindInstalls
  <2>2. rebind.new # 0 => /\ rebind.new # current /\ rebind.new \in Made
                          /\ drain[rebind.new] = "none"
    BY <1>14 DEF RebindInstalls
  <2>3. \A s \in Servers : /\ s # current => drain'[s] = drain[s]
                           /\ s = current => drain'[s] = "launched" /\ drain[s] = "none"
    BY <2>1 DEF Servers
  <2>4. \A s \in Servers : s # 0
    BY DEF Servers
  <2> QED
    BY <2>1, <2>2, <2>3, <2>4
<1>15. ASSUME NEW n \in Limits, RebindReturns(n) PROVE ServerInv'
  BY <1>15 DEF RebindReturns
<1>16. ASSUME NEW s \in Servers, DrainStops(s) PROVE ServerInv'
  BY <1>16 DEF DrainStops
<1>17. ASSUME NEW s \in Servers, DrainEnds(s) PROVE ServerInv'
  BY <1>17 DEF DrainEnds
<1>18. ASSUME NEW s \in Servers, DrainTimesOut(s) PROVE ServerInv'
  BY <1>18 DEF DrainTimesOut
<1>19. CASE ShutdownBegins
  BY <1>19 DEF ShutdownBegins
<1>20. CASE ShutdownStops
  <2>1. UNCHANGED <<current, drains, drain>> /\ Waited'
    BY <1>20 DEF ShutdownStops
  <2>2. CASE current = 0
    BY <1>20, <2>1, <2>2 DEF ShutdownStops
  <2>3. CASE current # 0
    <3>1. current \in Servers /\ StopAccepting(current)
      BY <1>20, <2>3 DEF ShutdownStops
    <3>2. /\ stopping' = stopping \cup {current}
          /\ \A s \in Servers : s # current => accept'[s] = accept[s] /\ listener'[s] = listener[s]
          /\ accept'[current] # "running" /\ (accept[current] = "none" => accept'[current] = "none")
          /\ \A s \in Servers : listener'[s].addr = listener[s].addr
                                /\ (listener'[s].open => listener[s].open)
      BY <3>1
    <3>3. \A s \in Servers : s \in Made' <=> s \in Made
      BY <3>2
    <3> QED
      BY <2>1, <3>1, <3>2, <3>3
  <2> QED
    BY <2>2, <2>3
<1>21. CASE ShutdownCopies
  BY <1>21 DEF ShutdownCopies
<1>22. CASE ShutdownReturns
  BY <1>22 DEF ShutdownReturns
<1>23. CASE ShutdownTimesOut
  BY <1>23 DEF ShutdownTimesOut
<1>24. CASE UNCHANGED vars
  BY <1>24 DEF vars
<1> QED
  BY <1>1, <1>2, <1>3, <1>4, <1>5, <1>6, <1>7, <1>8, <1>9, <1>10, <1>11, <1>12,
     <1>13, <1>14, <1>15, <1>16, <1>17, <1>18, <1>19, <1>20, <1>21, <1>22, <1>23, <1>24
     DEF Next, ServeSteps, RequestSteps, RebindSteps, DrainSteps, ShutdownSteps

\* A Shutdown that no rebind overtook keeps closed set.
LEMMA BegunStep ==
  ASSUME Typed, StartInv, RebindInv, ShutdownBegun, [Next]_vars
  PROVE  ShutdownBegun'
<1> USE DEF Typed, Points, RequestStates, ListenerStates, RebindStates, StartInv,
            RebindInv, ShutdownBegun, listening, http, limits, Becomes, Swap,
            CloseOf, StopAccepting, MaxFor, NoRebind
<1>1. CASE StartListens
  BY <1>1 DEF StartListens
<1>2. CASE StartFails
  BY <1>2 DEF StartFails
<1>3. CASE StartInstalls
  BY <1>3 DEF StartInstalls
<1>4. ASSUME NEW s \in Servers, ServeTracks(s) PROVE ShutdownBegun'
  BY <1>4 DEF ServeTracks
<1>5. ASSUME NEW r \in Requests, NEW s \in Servers, Arrive(r, s)
      PROVE  ShutdownBegun'
  BY <1>5 DEF Arrive
<1>6. ASSUME NEW r \in Requests, Acquire(r) PROVE ShutdownBegun'
  BY <1>6 DEF Acquire
<1>7. ASSUME NEW r \in Requests, NEW n \in Limits, Apply(r, n) PROVE ShutdownBegun'
  BY <1>7 DEF Apply
<1>8. ASSUME NEW r \in Requests, HookReads(r) PROVE ShutdownBegun'
  BY <1>8 DEF HookReads
<1>9. ASSUME NEW r \in Requests, HookPublishes(r) PROVE ShutdownBegun'
  BY <1>9 DEF HookPublishes
<1>10. ASSUME NEW r \in Requests, NEW a \in Addrs \cup {Off}, RebindBegins(r, a)
      PROVE  ShutdownBegun'
  BY <1>10 DEF RebindBegins
<1>11. ASSUME NEW r \in Requests, Release(r) PROVE ShutdownBegun'
  BY <1>11 DEF Release
<1>12. CASE RebindListens
  BY <1>12 DEF RebindListens
<1>13. CASE RebindFails
  BY <1>13 DEF RebindFails
<1>14. CASE RebindInstalls
  BY <1>14 DEF RebindInstalls
<1>15. ASSUME NEW n \in Limits, RebindReturns(n) PROVE ShutdownBegun'
  BY <1>15 DEF RebindReturns
<1>16. ASSUME NEW s \in Servers, DrainStops(s) PROVE ShutdownBegun'
  BY <1>16 DEF DrainStops
<1>17. ASSUME NEW s \in Servers, DrainEnds(s) PROVE ShutdownBegun'
  BY <1>17 DEF DrainEnds
<1>18. ASSUME NEW s \in Servers, DrainTimesOut(s) PROVE ShutdownBegun'
  BY <1>18 DEF DrainTimesOut
<1>19. CASE ShutdownBegins
  BY <1>19 DEF ShutdownBegins
<1>20. CASE ShutdownStops
  BY <1>20 DEF ShutdownStops
<1>21. CASE ShutdownCopies
  BY <1>21 DEF ShutdownCopies
<1>22. CASE ShutdownReturns
  BY <1>22 DEF ShutdownReturns
<1>23. CASE ShutdownTimesOut
  BY <1>23 DEF ShutdownTimesOut
<1>24. CASE UNCHANGED vars
  BY <1>24 DEF vars
<1> QED
  BY <1>1, <1>2, <1>3, <1>4, <1>5, <1>6, <1>7, <1>8, <1>9, <1>10, <1>11, <1>12,
     <1>13, <1>14, <1>15, <1>16, <1>17, <1>18, <1>19, <1>20, <1>21, <1>22, <1>23, <1>24
     DEF Next, ServeSteps, RequestSteps, RebindSteps, DrainSteps, ShutdownSteps

\* One hook at a time reads and publishes.
LEMMA LimitsStep ==
  ASSUME Typed, RebindInv, LimitsInv, [Next]_vars
  PROVE  LimitsInv'
<1> USE ManagementAssumption
<1> USE DEF Typed, Points, RequestStates, ListenerStates, RebindStates, RebindInv,
            LimitsInv, listening, http, limits, Becomes, Swap, CloseOf,
            StopAccepting, MaxFor, Resting, NoRebind
<1>1. CASE StartListens
  BY <1>1 DEF StartListens
<1>2. CASE StartFails
  BY <1>2 DEF StartFails
<1>3. CASE StartInstalls
  BY <1>3 DEF StartInstalls
<1>4. ASSUME NEW s \in Servers, ServeTracks(s) PROVE LimitsInv'
  BY <1>4 DEF ServeTracks
<1>5. ASSUME NEW r \in Requests, NEW s \in Servers, Arrive(r, s) PROVE LimitsInv'
  BY <1>5 DEF Arrive
<1>6. ASSUME NEW r \in Requests, Acquire(r) PROVE LimitsInv'
  <2>1. gate'.max = gate.max /\ active' = active /\ limitsMu' = limitsMu
    BY <1>6 DEF Acquire
  <2>2. \A q \in Requests :
          /\ request'[q].at \in {"publishing", "hooks"} => request'[q] = request[q]
          /\ request[q].at \in {"publishing", "hooks"} => request'[q] = request[q]
    BY <1>6 DEF Acquire
  <2> QED
    BY <2>1, <2>2
<1>7. ASSUME NEW r \in Requests, NEW n \in Limits, Apply(r, n) PROVE LimitsInv'
  BY <1>7 DEF Apply
<1>8. ASSUME NEW r \in Requests, HookReads(r) PROVE LimitsInv'
  BY <1>8 DEF HookReads
<1>9. ASSUME NEW r \in Requests, HookPublishes(r) PROVE LimitsInv'
  BY <1>9 DEF HookPublishes
<1>10. ASSUME NEW r \in Requests, NEW a \in Addrs \cup {Off}, RebindBegins(r, a)
      PROVE  LimitsInv'
  BY <1>10 DEF RebindBegins
<1>11. ASSUME NEW r \in Requests, Release(r) PROVE LimitsInv'
  BY <1>11 DEF Release
<1>12. CASE RebindListens
  BY <1>12 DEF RebindListens
<1>13. CASE RebindFails
  BY <1>13 DEF RebindFails
<1>14. CASE RebindInstalls
  BY <1>14 DEF RebindInstalls
<1>15. ASSUME NEW n \in Limits, RebindReturns(n) PROVE LimitsInv'
  BY <1>15 DEF RebindReturns
<1>16. ASSUME NEW s \in Servers, DrainStops(s) PROVE LimitsInv'
  BY <1>16 DEF DrainStops
<1>17. ASSUME NEW s \in Servers, DrainEnds(s) PROVE LimitsInv'
  BY <1>17 DEF DrainEnds
<1>18. ASSUME NEW s \in Servers, DrainTimesOut(s) PROVE LimitsInv'
  BY <1>18 DEF DrainTimesOut
<1>19. CASE ShutdownBegins
  BY <1>19 DEF ShutdownBegins
<1>20. CASE ShutdownStops
  BY <1>20 DEF ShutdownStops
<1>21. CASE ShutdownCopies
  BY <1>21 DEF ShutdownCopies
<1>22. CASE ShutdownReturns
  BY <1>22 DEF ShutdownReturns
<1>23. CASE ShutdownTimesOut
  BY <1>23 DEF ShutdownTimesOut
<1>24. CASE UNCHANGED vars
  BY <1>24 DEF vars
<1> QED
  BY <1>1, <1>2, <1>3, <1>4, <1>5, <1>6, <1>7, <1>8, <1>9, <1>10, <1>11, <1>12,
     <1>13, <1>14, <1>15, <1>16, <1>17, <1>18, <1>19, <1>20, <1>21, <1>22, <1>23, <1>24
     DEF Next, ServeSteps, RequestSteps, RebindSteps, DrainSteps, ShutdownSteps

\* No step loses a listener.
LEMMA AccountedStep ==
  ASSUME Typed, StartInv, RebindInv, ServerInv, ShutdownBegun, ListenerAccounted,
         [Next]_vars
  PROVE  ListenerAccounted'
<1> USE ManagementAssumption
<1> USE DEF Typed, Points, RequestStates, ListenerStates, RebindStates, StartInv,
            RebindInv, ServerInv, ShutdownBegun, ListenerAccounted,
           Waited, Bound, Open, Made, CloseOf, StopAccepting, NoRebind, listening,
           http, limits
<1>1. CASE StartListens
  BY <1>1, UnmadeFree DEF StartListens, Listens
<1>2. CASE StartFails
  BY <1>2 DEF StartFails
<1>3. CASE StartInstalls
  BY <1>3 DEF StartInstalls
<1>4. ASSUME NEW s \in Servers, ServeTracks(s) PROVE ListenerAccounted'
  BY <1>4 DEF ServeTracks
<1>5. ASSUME NEW r \in Requests, NEW s \in Servers, Arrive(r, s)
      PROVE  ListenerAccounted'
  BY <1>5 DEF Arrive
<1>6. ASSUME NEW r \in Requests, Acquire(r) PROVE ListenerAccounted'
  BY <1>6 DEF Acquire
<1>7. ASSUME NEW r \in Requests, NEW n \in Limits, Apply(r, n)
      PROVE  ListenerAccounted'
  BY <1>7 DEF Apply
<1>8. ASSUME NEW r \in Requests, HookReads(r) PROVE ListenerAccounted'
  BY <1>8 DEF HookReads
<1>9. ASSUME NEW r \in Requests, HookPublishes(r) PROVE ListenerAccounted'
  BY <1>9 DEF HookPublishes
<1>10. ASSUME NEW r \in Requests, NEW a \in Addrs \cup {Off}, RebindBegins(r, a)
      PROVE  ListenerAccounted'
  BY <1>10 DEF RebindBegins
<1>11. ASSUME NEW r \in Requests, Release(r) PROVE ListenerAccounted'
  BY <1>11 DEF Release
<1>12. CASE RebindListens
  BY <1>12, UnmadeFree DEF RebindListens, Listens
<1>13. CASE RebindFails
  BY <1>13 DEF RebindFails
<1>14. CASE RebindInstalls
  BY <1>14 DEF RebindInstalls
<1>15. ASSUME NEW n \in Limits, RebindReturns(n) PROVE ListenerAccounted'
  BY <1>15 DEF RebindReturns
<1>16. ASSUME NEW s \in Servers, DrainStops(s) PROVE ListenerAccounted'
  BY <1>16 DEF DrainStops
<1>17. ASSUME NEW s \in Servers, DrainEnds(s) PROVE ListenerAccounted'
  BY <1>17 DEF DrainEnds
<1>18. ASSUME NEW s \in Servers, DrainTimesOut(s) PROVE ListenerAccounted'
  BY <1>18 DEF DrainTimesOut
<1>19. CASE ShutdownBegins
  BY <1>19 DEF ShutdownBegins
<1>20. CASE ShutdownStops
  BY <1>20 DEF ShutdownStops
<1>21. CASE ShutdownCopies
  BY <1>21 DEF ShutdownCopies
<1>22. CASE ShutdownReturns
  BY <1>22 DEF ShutdownReturns
<1>23. CASE ShutdownTimesOut
  BY <1>23 DEF ShutdownTimesOut
<1>24. CASE UNCHANGED vars
  BY <1>24 DEF vars
<1> QED
  BY <1>1, <1>2, <1>3, <1>4, <1>5, <1>6, <1>7, <1>8, <1>9, <1>10, <1>11, <1>12,
     <1>13, <1>14, <1>15, <1>16, <1>17, <1>18, <1>19, <1>20, <1>21, <1>22, <1>23, <1>24
     DEF Next, ServeSteps, RequestSteps, RebindSteps, DrainSteps, ShutdownSteps

\* Only a server that accepts connections gets a first one.
LEMMA BusyStep ==
  ASSUME Typed, StartInv, RebindInv, NEW s0 \in Servers, [Next]_vars
  PROVE  (Busy(s0)' # {} => Busy(s0) # {} \/ accept[s0] = "running")
<1> USE DEF Typed, Points, RequestStates, ListenerStates, RebindStates, StartInv,
            RebindInv, Busy, Becomes, Swap, Resting, NoRebind, listening, http,
            limits
<1>1. CASE StartListens
  BY <1>1 DEF StartListens
<1>2. CASE StartFails
  BY <1>2 DEF StartFails
<1>3. CASE StartInstalls
  BY <1>3 DEF StartInstalls
<1>4. ASSUME NEW s \in Servers, ServeTracks(s)
      PROVE  (Busy(s0)' # {} => Busy(s0) # {} \/ accept[s0] = "running")
  BY <1>4 DEF ServeTracks
<1>5. ASSUME NEW r \in Requests, NEW s \in Servers, Arrive(r, s)
      PROVE  (Busy(s0)' # {} => Busy(s0) # {} \/ accept[s0] = "running")
  BY <1>5 DEF Arrive
<1>6. ASSUME NEW r \in Requests, Acquire(r)
      PROVE  (Busy(s0)' # {} => Busy(s0) # {} \/ accept[s0] = "running")
  BY <1>6 DEF Acquire
<1>7. ASSUME NEW r \in Requests, NEW n \in Limits, Apply(r, n)
      PROVE  (Busy(s0)' # {} => Busy(s0) # {} \/ accept[s0] = "running")
  BY <1>7 DEF Apply
<1>8. ASSUME NEW r \in Requests, HookReads(r)
      PROVE  (Busy(s0)' # {} => Busy(s0) # {} \/ accept[s0] = "running")
  BY <1>8 DEF HookReads
<1>9. ASSUME NEW r \in Requests, HookPublishes(r)
      PROVE  (Busy(s0)' # {} => Busy(s0) # {} \/ accept[s0] = "running")
  BY <1>9 DEF HookPublishes
<1>10. ASSUME NEW r \in Requests, NEW a \in Addrs \cup {Off}, RebindBegins(r, a)
      PROVE  (Busy(s0)' # {} => Busy(s0) # {} \/ accept[s0] = "running")
  BY <1>10 DEF RebindBegins
<1>11. ASSUME NEW r \in Requests, Release(r)
      PROVE  (Busy(s0)' # {} => Busy(s0) # {} \/ accept[s0] = "running")
  BY <1>11 DEF Release
<1>12. CASE RebindListens
  BY <1>12 DEF RebindListens
<1>13. CASE RebindFails
  BY <1>13 DEF RebindFails
<1>14. CASE RebindInstalls
  BY <1>14 DEF RebindInstalls
<1>15. ASSUME NEW n \in Limits, RebindReturns(n)
      PROVE  (Busy(s0)' # {} => Busy(s0) # {} \/ accept[s0] = "running")
  BY <1>15 DEF RebindReturns
<1>16. ASSUME NEW s \in Servers, DrainStops(s)
      PROVE  (Busy(s0)' # {} => Busy(s0) # {} \/ accept[s0] = "running")
  BY <1>16 DEF DrainStops
<1>17. ASSUME NEW s \in Servers, DrainEnds(s)
      PROVE  (Busy(s0)' # {} => Busy(s0) # {} \/ accept[s0] = "running")
  BY <1>17 DEF DrainEnds
<1>18. ASSUME NEW s \in Servers, DrainTimesOut(s)
      PROVE  (Busy(s0)' # {} => Busy(s0) # {} \/ accept[s0] = "running")
  BY <1>18 DEF DrainTimesOut
<1>19. CASE ShutdownBegins
  BY <1>19 DEF ShutdownBegins
<1>20. CASE ShutdownStops
  BY <1>20 DEF ShutdownStops
<1>21. CASE ShutdownCopies
  BY <1>21 DEF ShutdownCopies
<1>22. CASE ShutdownReturns
  BY <1>22 DEF ShutdownReturns
<1>23. CASE ShutdownTimesOut
  BY <1>23 DEF ShutdownTimesOut
<1>24. CASE UNCHANGED vars
  BY <1>24 DEF vars
<1> QED
  BY <1>1, <1>2, <1>3, <1>4, <1>5, <1>6, <1>7, <1>8, <1>9, <1>10, <1>11, <1>12,
     <1>13, <1>14, <1>15, <1>16, <1>17, <1>18, <1>19, <1>20, <1>21, <1>22, <1>23, <1>24
     DEF Next, ServeSteps, RequestSteps, RebindSteps, DrainSteps, ShutdownSteps

\* No step loses a server that still answers a request.
LEMMA CoverStep ==
  ASSUME Typed, StartInv, RebindInv, ServerInv, DrainsCoverDisplaced, [Next]_vars
  PROVE  DrainsCoverDisplaced'
<1> USE DEF Typed, StartInv, RebindInv, ServerInv, DrainsCoverDisplaced, NoRebind,
            listening, http, limits
<1>0. \A s \in Servers : Busy(s)' # {} => Busy(s) # {} \/ accept[s] = "running"
  BY BusyStep
<1>1. CASE StartListens
  BY <1>1, <1>0 DEF StartListens
<1>2. CASE StartFails
  BY <1>2, <1>0 DEF StartFails
<1>3. CASE StartInstalls
  BY <1>3, <1>0 DEF StartInstalls
<1>4. ASSUME NEW s \in Servers, ServeTracks(s) PROVE DrainsCoverDisplaced'
  BY <1>4, <1>0 DEF ServeTracks
<1>5. ASSUME NEW r \in Requests, NEW s \in Servers, Arrive(r, s)
      PROVE  DrainsCoverDisplaced'
  BY <1>5, <1>0 DEF Arrive
<1>6. ASSUME NEW r \in Requests, Acquire(r) PROVE DrainsCoverDisplaced'
  BY <1>6, <1>0 DEF Acquire
<1>7. ASSUME NEW r \in Requests, NEW n \in Limits, Apply(r, n)
      PROVE  DrainsCoverDisplaced'
  BY <1>7, <1>0 DEF Apply
<1>8. ASSUME NEW r \in Requests, HookReads(r) PROVE DrainsCoverDisplaced'
  BY <1>8, <1>0 DEF HookReads
<1>9. ASSUME NEW r \in Requests, HookPublishes(r) PROVE DrainsCoverDisplaced'
  BY <1>9, <1>0 DEF HookPublishes
<1>10. ASSUME NEW r \in Requests, NEW a \in Addrs \cup {Off}, RebindBegins(r, a)
      PROVE  DrainsCoverDisplaced'
  BY <1>10, <1>0 DEF RebindBegins
<1>11. ASSUME NEW r \in Requests, Release(r) PROVE DrainsCoverDisplaced'
  BY <1>11, <1>0 DEF Release
<1>12. CASE RebindListens
  BY <1>12, <1>0 DEF RebindListens
<1>13. CASE RebindFails
  BY <1>13, <1>0 DEF RebindFails
<1>14. CASE RebindInstalls
  <2>1. /\ current' = rebind.new /\ drains' = drains \cup ({current} \ {0})
        /\ forced' = forced /\ accept' = accept
    BY <1>14 DEF RebindInstalls
  <2>2. \A s \in Servers : s # 0
    BY DEF Servers
  <2>3. ASSUME NEW s \in Servers, s # current', Busy(s)' # {}
        PROVE  s \in drains' \cup forced'
    <3>1. CASE s = current
      BY <2>1, <2>2, <3>1
    <3>2. CASE s # current
      BY <1>0, <2>1, <2>3, <3>2
    <3> QED
      BY <3>1, <3>2
  <2> QED
    BY <2>1, <2>3
<1>15. ASSUME NEW n \in Limits, RebindReturns(n) PROVE DrainsCoverDisplaced'
  BY <1>15, <1>0 DEF RebindReturns
<1>16. ASSUME NEW s \in Servers, DrainStops(s) PROVE DrainsCoverDisplaced'
  BY <1>16, <1>0 DEF DrainStops
<1>17. ASSUME NEW s \in Servers, DrainEnds(s) PROVE DrainsCoverDisplaced'
  BY <1>17, <1>0 DEF DrainEnds
<1>18. ASSUME NEW s \in Servers, DrainTimesOut(s) PROVE DrainsCoverDisplaced'
  BY <1>18, <1>0 DEF DrainTimesOut
<1>19. CASE ShutdownBegins
  BY <1>19, <1>0 DEF ShutdownBegins
<1>20. CASE ShutdownStops
  BY <1>20, <1>0 DEF ShutdownStops
<1>21. CASE ShutdownCopies
  BY <1>21, <1>0 DEF ShutdownCopies
<1>22. CASE ShutdownReturns
  BY <1>22, <1>0 DEF ShutdownReturns
<1>23. CASE ShutdownTimesOut
  BY <1>23, <1>0 DEF ShutdownTimesOut
<1>24. CASE UNCHANGED vars
  BY <1>24, <1>0 DEF vars
<1> QED
  BY <1>1, <1>2, <1>3, <1>4, <1>5, <1>6, <1>7, <1>8, <1>9, <1>10, <1>11, <1>12,
     <1>13, <1>14, <1>15, <1>16, <1>17, <1>18, <1>19, <1>20, <1>21, <1>22, <1>23, <1>24
     DEF Next, ServeSteps, RequestSteps, RebindSteps, DrainSteps, ShutdownSteps

\* What Shutdown has told to stop stays told.
LEMMA WaitStep ==
  ASSUME Typed, StartInv, RebindInv, ServerInv, ShutdownBegun, WaitInv, [Next]_vars
  PROVE  WaitInv'
<1> USE ManagementAssumption
<1> USE DEF Typed, StartInv, RebindInv, ServerInv, ShutdownBegun,
           WaitInv, Waited, Made, ListenerStates, RebindStates, CloseOf,
           StopAccepting, NoRebind, listening, http, limits
<1>1. CASE StartListens
  BY <1>1, UnmadeFree DEF StartListens, Listens
<1>2. CASE StartFails
  BY <1>2 DEF StartFails
<1>3. CASE StartInstalls
  BY <1>3 DEF StartInstalls
<1>4. ASSUME NEW s \in Servers, ServeTracks(s) PROVE WaitInv'
  BY <1>4, SMTT(30) DEF ServeTracks
<1>5. ASSUME NEW r \in Requests, NEW s \in Servers, Arrive(r, s) PROVE WaitInv'
  BY <1>5 DEF Arrive
<1>6. ASSUME NEW r \in Requests, Acquire(r) PROVE WaitInv'
  BY <1>6 DEF Acquire
<1>7. ASSUME NEW r \in Requests, NEW n \in Limits, Apply(r, n) PROVE WaitInv'
  BY <1>7 DEF Apply
<1>8. ASSUME NEW r \in Requests, HookReads(r) PROVE WaitInv'
  BY <1>8 DEF HookReads
<1>9. ASSUME NEW r \in Requests, HookPublishes(r) PROVE WaitInv'
  BY <1>9 DEF HookPublishes
<1>10. ASSUME NEW r \in Requests, NEW a \in Addrs \cup {Off}, RebindBegins(r, a)
      PROVE  WaitInv'
  <2>1. 0 \notin Servers
    BY DEF Servers
  <2>2. /\ rebind'.at = "install" => rebind'.new = 0
        /\ UNCHANGED <<shutdown, listener, accept, drain, drains, current, stopping>>
    BY <1>10 DEF RebindBegins
  <2> QED
    BY <2>1, <2>2
<1>11. ASSUME NEW r \in Requests, Release(r) PROVE WaitInv'
  BY <1>11 DEF Release
<1>12. CASE RebindListens
  BY <1>12, UnmadeFree DEF RebindListens, Listens
<1>13. CASE RebindFails
  BY <1>13 DEF RebindFails
<1>14. CASE RebindInstalls
  BY <1>14 DEF RebindInstalls
<1>15. ASSUME NEW n \in Limits, RebindReturns(n) PROVE WaitInv'
  BY <1>15 DEF RebindReturns
<1>16. ASSUME NEW s \in Servers, DrainStops(s) PROVE WaitInv'
  <2>1. /\ UNCHANGED <<shutdown, drains, current, rebind>>
        /\ drain' = [drain EXCEPT ![s] = "waiting"] /\ stopping' = stopping \cup {s}
    BY <1>16 DEF DrainStops
  <2>2. /\ \A t \in Servers : listener'[t].addr = listener[t].addr
        /\ \A t \in Servers : accept'[t] = "running" => accept[t] = "running" /\ t # s
    BY <1>16 DEF DrainStops
  <2>3. Waited => \A t \in shutdown'.known : accept'[t] = "running" => drain'[t] = "launched"
    BY <2>1, <2>2
  <2>4. Made' = Made
    BY <2>2
  <2> QED
    BY <2>1, <2>3, <2>4
<1>17. ASSUME NEW s \in Servers, DrainEnds(s) PROVE WaitInv'
  BY <1>17 DEF DrainEnds
<1>18. ASSUME NEW s \in Servers, DrainTimesOut(s) PROVE WaitInv'
  BY <1>18 DEF DrainTimesOut
<1>19. CASE ShutdownBegins
  BY <1>19 DEF ShutdownBegins
<1>20. CASE ShutdownStops
  <2>1. /\ UNCHANGED <<current, drains, drain, rebind>> /\ shutdown'.at = "wait"
        /\ shutdown'.known = Made \ {IF rebind.at = "install" THEN rebind.new ELSE 0}
        /\ current # 0 => StopAccepting(current)
        /\ current = 0 => UNCHANGED <<listener, accept, stopping>>
    BY <1>20 DEF ShutdownStops
  <2>2. /\ \A t \in Servers : listener'[t].addr = listener[t].addr
        /\ \A t \in Servers : accept'[t] = "running" => accept[t] = "running" /\ t # current
        /\ current # 0 => current \in stopping'
    <3>1. CASE current = 0
      BY <2>1, <3>1 DEF Servers
    <3>2. CASE current # 0
      BY <2>1, <3>2
    <3> QED
      BY <3>1, <3>2
  <2>3. \A t \in Servers : accept'[t] = "running" => drain[t] = "launched"
    BY <2>2
  <2>4. Made' = Made /\ 0 \notin Servers
    BY <2>2 DEF Servers
  <2> QED
    BY <2>1, <2>2, <2>3, <2>4
<1>21. CASE ShutdownCopies
  BY <1>21 DEF ShutdownCopies
<1>22. CASE ShutdownReturns
  BY <1>22 DEF ShutdownReturns
<1>23. CASE ShutdownTimesOut
  BY <1>23 DEF ShutdownTimesOut
<1>24. CASE UNCHANGED vars
  BY <1>24 DEF vars
<1> QED
  BY <1>1, <1>2, <1>3, <1>4, <1>5, <1>6, <1>7, <1>8, <1>9, <1>10, <1>11, <1>12,
     <1>13, <1>14, <1>15, <1>16, <1>17, <1>18, <1>19, <1>20, <1>21, <1>22, <1>23, <1>24
     DEF Next, ServeSteps, RequestSteps, RebindSteps, DrainSteps, ShutdownSteps

\* What Shutdown has waited for stays done.
LEMMA BusyInvStep ==
  ASSUME Typed, StartInv, RebindInv, ServerInv, DrainsCoverDisplaced, WaitInv,
         BusyInv, [Next]_vars
  PROVE  BusyInv'
<1> USE DEF Typed, StartInv, RebindInv, ServerInv, DrainsCoverDisplaced,
           WaitInv, BusyInv, Waited, NoRebind, listening, http, limits
<1>0. \A s \in Servers : Busy(s)' # {} => Busy(s) # {} \/ accept[s] = "running"
  BY BusyStep
<1>1. CASE StartListens
  BY <1>1, <1>0 DEF StartListens
<1>2. CASE StartFails
  BY <1>2, <1>0 DEF StartFails
<1>3. CASE StartInstalls
  BY <1>3, <1>0 DEF StartInstalls
<1>4. ASSUME NEW s \in Servers, ServeTracks(s) PROVE BusyInv'
  BY <1>4, <1>0 DEF ServeTracks
<1>5. ASSUME NEW r \in Requests, NEW s \in Servers, Arrive(r, s) PROVE BusyInv'
  BY <1>5, <1>0 DEF Arrive
<1>6. ASSUME NEW r \in Requests, Acquire(r) PROVE BusyInv'
  BY <1>6, <1>0 DEF Acquire
<1>7. ASSUME NEW r \in Requests, NEW n \in Limits, Apply(r, n) PROVE BusyInv'
  BY <1>7, <1>0 DEF Apply
<1>8. ASSUME NEW r \in Requests, HookReads(r) PROVE BusyInv'
  BY <1>8, <1>0 DEF HookReads
<1>9. ASSUME NEW r \in Requests, HookPublishes(r) PROVE BusyInv'
  BY <1>9, <1>0 DEF HookPublishes
<1>10. ASSUME NEW r \in Requests, NEW a \in Addrs \cup {Off}, RebindBegins(r, a)
      PROVE  BusyInv'
  BY <1>10, <1>0 DEF RebindBegins
<1>11. ASSUME NEW r \in Requests, Release(r) PROVE BusyInv'
  BY <1>11, <1>0 DEF Release
<1>12. CASE RebindListens
  BY <1>12, <1>0 DEF RebindListens
<1>13. CASE RebindFails
  BY <1>13, <1>0 DEF RebindFails
<1>14. CASE RebindInstalls
  BY <1>14, <1>0 DEF RebindInstalls
<1>15. ASSUME NEW n \in Limits, RebindReturns(n) PROVE BusyInv'
  BY <1>15, <1>0 DEF RebindReturns
<1>16. ASSUME NEW s \in Servers, DrainStops(s) PROVE BusyInv'
  BY <1>16, <1>0 DEF DrainStops
<1>17. ASSUME NEW s \in Servers, DrainEnds(s) PROVE BusyInv'
  BY <1>17, <1>0 DEF DrainEnds
<1>18. ASSUME NEW s \in Servers, DrainTimesOut(s) PROVE BusyInv'
  BY <1>18, <1>0 DEF DrainTimesOut
<1>19. CASE ShutdownBegins
  BY <1>19, <1>0 DEF ShutdownBegins
<1>20. CASE ShutdownStops
  <2>1. /\ UNCHANGED <<current, drains, request, forced>> /\ shutdown'.at = "wait"
        /\ shutdown'.pending = {current} \ {0}
        /\ shutdown'.known \subseteq Servers
    BY <1>20 DEF ShutdownStops, Made
  <2>2. \A s \in Servers : s # 0 /\ Busy(s)' = Busy(s)
    BY <2>1 DEF Busy, Servers
  <2> QED
    BY <2>1, <2>2 DEF DrainsCoverDisplaced
<1>21. CASE ShutdownCopies
  BY <1>21, <1>0 DEF ShutdownCopies
<1>22. CASE ShutdownReturns
  BY <1>22, <1>0 DEF ShutdownReturns
<1>23. CASE ShutdownTimesOut
  BY <1>23, <1>0 DEF ShutdownTimesOut
<1>24. CASE UNCHANGED vars
  BY <1>24, <1>0 DEF vars
<1> QED
  BY <1>1, <1>2, <1>3, <1>4, <1>5, <1>6, <1>7, <1>8, <1>9, <1>10, <1>11, <1>12,
     <1>13, <1>14, <1>15, <1>16, <1>17, <1>18, <1>19, <1>20, <1>21, <1>22, <1>23, <1>24
     DEF Next, ServeSteps, RequestSteps, RebindSteps, DrainSteps, ShutdownSteps

\* The gate counts: acquire adds a request to those it let in, release takes one
\* out, and every other step leaves them as they are.
LEMMA GateStep ==
  ASSUME Typed, RebindInv, GateCounts, [Next]_vars
  PROVE  GateCounts'
<1>1. IsFiniteSet(Holding)
  BY FS_Subset, ManagementAssumption DEF Holding
<1>2. ASSUME NEW r \in Requests, Acquire(r)
      PROVE  GateCounts'
  <2>1. CASE gate.max > 0 /\ gate.cur >= gate.max
    <3>1. Holding' = Holding /\ gate' = gate
      BY <1>2, <2>1 DEF Acquire, Holding, Resting, Typed
    <3> QED
      BY <3>1 DEF GateCounts
  <2>2. CASE ~(gate.max > 0 /\ gate.cur >= gate.max)
    <3>1. Holding' = Holding \cup {r} /\ r \notin Holding
      BY <1>2, <2>2 DEF Acquire, Becomes, Holding, Typed, RequestStates
    <3>2. gate'.cur = gate.cur + 1
      BY <1>2, <2>2 DEF Acquire, Typed
    <3> QED
      BY <1>1, <3>1, <3>2, FS_AddElement DEF GateCounts
  <2> QED
    BY <2>1, <2>2
<1>3. ASSUME NEW r \in Requests, Release(r)
      PROVE  GateCounts'
  <2>1. Holding' = Holding \ {r} /\ r \in Holding
    BY <1>3 DEF Release, Resting, Holding, Typed, RequestStates
  <2>2. Cardinality(Holding) \in Nat /\ Cardinality(Holding) # 0
    BY <1>1, <2>1, FS_CardinalityType, FS_EmptySet
  <2>3. gate'.cur = gate.cur - 1
    BY <1>3, <2>2 DEF Release, Typed, GateCounts
  <2> QED
    BY <1>1, <2>1, <2>3, FS_RemoveElement DEF GateCounts
<1>4. ASSUME Holding' = Holding, gate'.cur = gate.cur
      PROVE  GateCounts'
  BY <1>4 DEF GateCounts
<1>5. CASE UNCHANGED <<request, gate>>
  <2>1. Holding' = Holding
    BY <1>5 DEF Holding
  <2> QED
    BY <1>4, <1>5, <2>1
<1>6. ASSUME NEW r \in Requests, NEW s \in Servers, Arrive(r, s)
      PROVE  GateCounts'
  <2>1. /\ gate' = gate
        /\ \A q \in Requests :    request[q].at \notin {"idle", "arrived"}
                              <=> request'[q].at \notin {"idle", "arrived"}
    BY <1>6 DEF Arrive, Resting, Typed, RequestStates, limits
  <2>2. Holding' = Holding
    BY <2>1 DEF Holding
  <2> QED
    BY <1>4, <2>1, <2>2
<1>7. ASSUME NEW r \in Requests, NEW n \in Limits, Apply(r, n)
      PROVE  GateCounts'
  <2>1. Holding' = Holding /\ gate'.cur = gate.cur
    BY <1>7 DEF Apply, Swap, Becomes, Holding, Typed, RequestStates
  <2> QED
    BY <1>4, <2>1
<1>8. ASSUME NEW r \in Requests, HookReads(r)
      PROVE  GateCounts'
  <2>1. Holding' = Holding /\ gate'.cur = gate.cur
    BY <1>8 DEF HookReads, Holding, Typed, RequestStates
  <2> QED
    BY <1>4, <2>1
<1>9. ASSUME NEW r \in Requests, HookPublishes(r)
      PROVE  GateCounts'
  <2>1. Holding' = Holding /\ gate'.cur = gate.cur
    BY <1>9 DEF HookPublishes, Holding, Typed, RequestStates
  <2> QED
    BY <1>4, <2>1
<1>10. ASSUME NEW r \in Requests, NEW a \in Addrs \cup {Off}, RebindBegins(r, a)
      PROVE  GateCounts'
  <2>1. /\ gate' = gate
        /\ \A q \in Requests :    request[q].at \notin {"idle", "arrived"}
                              <=> request'[q].at \notin {"idle", "arrived"}
    BY <1>10 DEF RebindBegins, Becomes, Typed, RequestStates, limits
  <2>2. Holding' = Holding
    BY <2>1 DEF Holding
  <2> QED
    BY <1>4, <2>1, <2>2
<1>11. CASE RebindFails
  <2>1. /\ gate' = gate
        /\ \A q \in Requests :    request[q].at \notin {"idle", "arrived"}
                              <=> request'[q].at \notin {"idle", "arrived"}
    BY <1>11 DEF RebindFails, Becomes, RebindInv, Typed, RequestStates, limits
  <2>2. Holding' = Holding
    BY <2>1 DEF Holding
  <2> QED
    BY <1>4, <2>1, <2>2
<1>12. ASSUME NEW n \in Limits, RebindReturns(n)
      PROVE  GateCounts'
  <2>1. Holding' = Holding /\ gate'.cur = gate.cur
    BY <1>12 DEF RebindReturns, Swap, Becomes, RebindInv, Holding, Typed,
                 RequestStates
  <2> QED
    BY <1>4, <2>1
<1> QED
  BY <1>2, <1>3, <1>5, <1>6, <1>7, <1>8, <1>9, <1>10, <1>11, <1>12
     DEF Next, ServeSteps, RequestSteps, RebindSteps, DrainSteps, ShutdownSteps,
         vars, limits,
         StartListens, StartFails, StartInstalls, ServeTracks, RebindListens,
         RebindInstalls, DrainStops, DrainEnds, DrainTimesOut, ShutdownBegins,
         ShutdownStops, ShutdownCopies, ShutdownReturns, ShutdownTimesOut

-------------------------------------------------------------------------------
\* All of it together.
IInv ==
  /\ Typed /\ StartInv /\ RebindInv /\ ServerInv /\ ShutdownBegun
  /\ LimitsInv /\ GateCounts
  /\ ListenerAccounted /\ DrainsCoverDisplaced /\ WaitInv /\ BusyInv

\* The initial states, of any configured limit, satisfy the invariant.
LEMMA InitIInv ==
  ASSUME Init
  PROVE  IInv
<1> USE ManagementAssumption DEF Init
<1>1. Typed
  <2>1. Resting \in RequestStates /\ NoRebind \in RebindStates
    BY DEF RequestStates, RebindStates, Points, Resting, NoRebind
  <2>2. gate \in [cur : Nat, max : Nat] /\ active \in [generation : Nat, limit : Limits]
    BY GateType
  <2>3. listener \in [Servers -> ListenerStates]
    BY DEF ListenerStates
  <2> QED
    BY <2>1, <2>2, <2>3 DEF Typed
<1>2. StartInv /\ RebindInv /\ ServerInv /\ ShutdownBegun
  BY DEF StartInv, RebindInv, ServerInv, ShutdownBegun, Waited, Made, Open,
         Resting, NoRebind, Servers
<1>3. LimitsInv
  BY DEF LimitsInv, Resting
<1>4. GateCounts
  <2>1. Holding = {}
    BY DEF Holding, Resting
  <2> QED
    BY <2>1, FS_EmptySet DEF GateCounts
<1>5. ListenerAccounted /\ DrainsCoverDisplaced /\ WaitInv /\ BusyInv
  BY DEF ListenerAccounted, DrainsCoverDisplaced, WaitInv, BusyInv, Waited, Busy,
         Bound, Open, Resting
<1> QED
  BY <1>1, <1>2, <1>3, <1>4, <1>5 DEF IInv

\* The invariant is inductive: each conjunct is kept relative to those before it.
THEOREM Inductive == Spec => []IInv
<1>1. IInv /\ [Next]_vars => IInv'
  BY TypedStep, StartStep, RebindStep, ServerStep, BegunStep, LimitsStep, GateStep,
     AccountedStep, CoverStep, WaitStep, BusyInvStep DEF IInv
<1> QED
  BY InitIInv, <1>1, PTL DEF Spec

\* Whatever rebinds, fails or is shut down at what moment, no listener is left
\* behind and a server that reports Bound has an open one (Rebind, Shutdown).
THEOREM ListenersAreAccounted == Spec => []ListenerAccounted
  BY Inductive, PTL DEF IInv

\* Shutdown will wait for every displaced server that still answers (Rebind
\* registers the drain before another goroutine can see the new server).
THEOREM DisplacedAreCovered == Spec => []DrainsCoverDisplaced
  BY Inductive, PTL DEF IInv

\* A Shutdown that returns in time has waited (Shutdown, waitDrains).
THEOREM ShutdownHasWaited == Spec => []ShutdownWaited
<1>1. IInv => ShutdownWaited
  <2> SUFFICES ASSUME IInv, shutdown.at = "returned", ~shutdown.late
               PROVE  /\ \A s \in shutdown.known \ forced : Busy(s) = {}
                      /\ ~shutdown.overtaken => ShutdownCloses
    BY DEF ShutdownWaited
  <2>1. \A s \in shutdown.known \ forced : Busy(s) = {}
    BY DEF IInv, BusyInv
  <2>2. ASSUME ~shutdown.overtaken, NEW s \in Servers, accept[s] = "running"
        PROVE  FALSE
    <3>1. s \notin stopping /\ (s = current \/ drain[s] \in {"launched", "waiting", "done"})
      BY <2>2 DEF IInv, ServerInv, Typed
    <3>2. s # current
      BY <2>2, <3>1 DEF IInv, WaitInv, Waited, Servers
    <3>3. drain[s] = "launched"
      BY <3>1, <3>2 DEF IInv, ServerInv
    <3> QED
      BY <2>2, <3>1, <3>3 DEF IInv, ServerInv, WaitInv
  <2> QED
    BY <2>1, <2>2 DEF ShutdownCloses
<1> QED
  BY Inductive, <1>1, PTL

\* acquire and release balance, also when the limit changes in between.
THEOREM GateIsExact == Spec => []GateCounts
  BY Inductive, PTL DEF IInv

\* Overlapping hooks never leave an older snapshot's limit (syncManagementLimits).
THEOREM LimitsFollowSnapshot == Spec => []LimitsAreCurrent
<1>1. IInv => LimitsAreCurrent
  BY ManagementAssumption DEF IInv, LimitsInv, LimitsAreCurrent, Typed
<1> QED
  BY Inductive, <1>1, PTL
===============================================================================
