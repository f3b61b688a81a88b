---------------------------- MODULE NTPServerProofs ----------------------------
(***************************************************************************)
(* Proofs about internal/ntpserver, for any number of sockets, handlers    *)
(* and tokens: its types, the count of tokens and of waiters, that a bound *)
(* server has an open socket, that no socket is lost, and what Shutdown    *)
(* leaves behind.                                                          *)
(***************************************************************************)
EXTENDS NTPServer, FiniteSetTheorems, SequenceTheorems, TLAPS

\* The handlers that have a token of the inflight channel.
Holding == {h \in Busy : handler[h].at # "leave"}

\* Before Start there is nothing, and after it a socket and a read loop.
StartInv ==
  /\ ~started => /\ sockets = << >> /\ udp = 0
                 /\ loop.at = "none" /\ Busy = {}
                 /\ control = "idle"
  /\ started => udp # 0 /\ loop.at # "none"

\* Who may be doing what: a rebind is part of a management request, which holds
\* App.mu, and there is none once management is down.
OrderInv ==
  /\ rebind.at # "idle" => control \in {"rebind", "undo"}
  /\ control # "idle" => managed
  /\ ~managed => stopped
  /\ stopped <=> shutdown.at # "none"

\* What a rebind knows of the sockets, between its critical sections.
RebindInv ==
  /\ rebind.at = "listen" => rebind.old = udp
  /\ rebind.at = "commit" =>
       rebind.old = udp /\ Open(rebind.new) /\ rebind.new \notin {udp, shutdown.sock}
  /\ rebind.at = "close" => rebind.new = udp /\ rebind.old # udp

\* The current socket is open until Shutdown closes it.
UdpOpen == started /\ ~stopped => Open(udp)

\* What Shutdown has done about the socket, when no rebind can come between, and
\* about the goroutines.
ShutdownInv ==
  /\ shutdown.at = "close" /\ ~managed => shutdown.sock = udp
  /\ shutdown.at \in {"wait", "ok", "timeout"} /\ ~managed => ~Open(udp)
  /\ shutdown.at = "ok" => wg = 0

\* All of it together.
IInv ==
  /\ TypeOK
  /\ TokensAndWaiters
  /\ StartInv
  /\ OrderInv
  /\ RebindInv
  /\ UdpOpen
  /\ NoLostSocket
  /\ ShutdownInv

\* What a handler's record may be, for the sockets there are.
HandlerStates ==
  [at : {"idle", "load", "decide", "log", "release", "leave"},
   from : 0 .. Len(sockets), gen : Nat]

One(b) == IF b THEN 1 ELSE 0

-------------------------------------------------------------------------------
\* The least of two numbers.
LEMMA MinOfTwo ==
  ASSUME NEW m \in Nat, NEW n \in Nat
  PROVE  Min({m, n}) \in Nat /\ Min({m, n}) <= m /\ Min({m, n}) <= n
<1>1. \E x \in {m, n} : \A y \in {m, n} : x =< y
  OBVIOUS
<1> QED
  BY <1>1 DEF Min

\* The query log takes a sample and keeps at most LogSize of them.
LEMMA LogType ==
  ASSUME TypeOK, NEW g \in Nat
  PROVE  LET l == SubSeq(<<g>> \o log, 1, Min({LogSize, Len(log) + 1}))
         IN  l \in Seq(Nat) /\ Len(l) <= LogSize
<1> DEFINE m == Min({LogSize, Len(log) + 1})
           s == <<g>> \o log
<1>1. log \in Seq(Nat) /\ LogSize \in Nat /\ Len(log) \in Nat
  BY ServerAssumption DEF TypeOK
<1>2. m \in Nat /\ m <= LogSize /\ m <= Len(log) + 1
  BY <1>1, MinOfTwo
<1>3. s \in Seq(Nat) /\ Len(s) = Len(log) + 1
  BY <1>1, ConcatProperties
<1> HIDE DEF m, s
<1>4. \A i \in 1 .. m : s[i] \in Nat
  BY <1>1, <1>2, <1>3
<1>5. SubSeq(s, 1, m) \in Seq(Nat) /\ Len(SubSeq(s, 1, m)) <= LogSize
  BY <1>1, <1>2, <1>4, SubSeqProperties
<1> QED
  BY <1>5 DEF m, s

\* Opening a socket and closing one.
LEMMA OpenedType ==
  ASSUME TypeOK, NEW a \in Addrs
  PROVE  /\ Opened(a) \in Seq([addr : Addrs, open : BOOLEAN])
         /\ Len(Opened(a)) = Len(sockets) + 1 /\ Len(sockets) \in Nat
         /\ Opened(a)[Len(sockets) + 1].open
         /\ \A s \in 1 .. Len(sockets) : Opened(a)[s] = sockets[s]
  BY DEF TypeOK, Opened

\* Closing one leaves the others as they are.
LEMMA ClosedType ==
  ASSUME TypeOK, NEW s \in 0 .. Len(sockets)
  PROVE  /\ Closed(s) \in Seq([addr : Addrs, open : BOOLEAN])
         /\ Len(Closed(s)) = Len(sockets)
         /\ s # 0 => ~Closed(s)[s].open
         /\ \A t \in (1 .. Len(sockets)) \ {s} : Closed(s)[t] = sockets[t]
<1>1. CASE s = 0
  BY <1>1 DEF TypeOK, Closed
<1>2. CASE s # 0
  <2> DEFINE c == [sockets[s] EXCEPT !.open = FALSE]
  <2>1. sockets \in Seq([addr : Addrs, open : BOOLEAN]) /\ s \in 1 .. Len(sockets)
    BY <1>2 DEF TypeOK
  <2>2. c \in [addr : Addrs, open : BOOLEAN] /\ ~c.open
    <3>1. sockets[s] \in [addr : Addrs, open : BOOLEAN]
      BY <2>1, ElementOfSeq
    <3> QED
      BY <3>1
  <2>3. Closed(s) = [sockets EXCEPT ![s] = c]
    BY <1>2 DEF Closed
  <2> HIDE DEF c
  <2> QED
    BY <2>1, <2>2, <2>3, <1>2, ExceptSeq
<1> QED
  BY <1>1, <1>2

\* A handler's record, and that of one that has nothing left to do but release.
LEMMA HandlerType ==
  ASSUME TypeOK, NEW h \in Handlers
  PROVE  /\ Len(sockets) \in Nat /\ 0 \in 0 .. Len(sockets)
         /\ handler \in [Handlers -> HandlerStates]
         /\ handler[h] \in HandlerStates
         /\ Resting \in HandlerStates /\ [Resting EXCEPT !.at = "release"] \in HandlerStates
<1>1. Len(sockets) \in Nat /\ handler \in [Handlers -> HandlerStates]
  BY DEF TypeOK, HandlerStates
<1> QED
  BY <1>1 DEF HandlerStates, Resting

\* Handlers are finitely many, so the busy ones can be counted.
LEMMA Countable ==
  ASSUME TypeOK
  PROVE  /\ IsFiniteSet(Busy) /\ IsFiniteSet(Holding)
         /\ Cardinality(Busy) \in Nat /\ Cardinality(Holding) \in Nat
         /\ Cardinality(Holding) <= Cardinality(Busy)
<1>1. Busy \in SUBSET Handlers /\ Holding \in SUBSET Busy
  BY DEF Busy, Holding
<1> QED
  BY <1>1, ServerAssumption, FS_Subset, FS_CardinalityType

\* Whoever holds a token is counted among the tokens, and a busy handler among
\* the waiters.
LEMMA Counting ==
  ASSUME TypeOK, TokensAndWaiters
  PROVE  /\ Holding # {} => inflight > 0
         /\ Busy # {} => wg > 0
         /\ LoopLives => wg > 0
<1>1. /\ IsFiniteSet(Busy) /\ IsFiniteSet(Holding)
      /\ Cardinality(Busy) \in Nat /\ Cardinality(Holding) \in Nat
  BY Countable
<1>2. /\ inflight = Cardinality(Holding)
      /\ wg = Cardinality(Busy) + (IF LoopLives THEN 1 ELSE 0)
  BY DEF TokensAndWaiters, Holding
<1>3. /\ Holding # {} => Cardinality(Holding) # 0
      /\ Busy # {} => Cardinality(Busy) # 0
  BY <1>1, FS_EmptySet
<1> QED
  BY <1>1, <1>2, <1>3

\* A set that one element joins, leaves or neither.
LEMMA OneMore ==
  ASSUME NEW S, NEW T, NEW h, IsFiniteSet(S), Cardinality(S) \in Nat,
         T = S \cup {h} \/ T = S \ {h}
  PROVE  Cardinality(T) = Cardinality(S) + One(h \in T) - One(h \in S)
<1>1. CASE T = S \cup {h}
  <2>1. Cardinality(T) = IF h \in S THEN Cardinality(S) ELSE Cardinality(S) + 1
    BY <1>1, FS_AddElement
  <2>2. One(h \in T) = 1
    BY <1>1 DEF One
  <2> QED
    BY <2>1, <2>2 DEF One
<1>2. CASE T = S \ {h}
  <2>1. Cardinality(T) = IF h \in S THEN Cardinality(S) - 1 ELSE Cardinality(S)
    BY <1>2, FS_RemoveElement
  <2>2. One(h \in T) = 0
    BY <1>2 DEF One
  <2> QED
    BY <2>1, <2>2 DEF One
<1> QED
  BY <1>1, <1>2

\* The counts follow one handler's step that takes or gives back what it says.
LEMMA Counted ==
  ASSUME TypeOK, TokensAndWaiters, NEW h \in Handlers,
         \A k \in Handlers \ {h} : handler'[k] = handler[k],
         inflight' = inflight + One(h \in Holding') - One(h \in Holding),
         wg' = wg + One(h \in Busy') - One(h \in Busy),
         LoopLives' <=> LoopLives
  PROVE  TokensAndWaiters'
<1>1. /\ IsFiniteSet(Busy) /\ IsFiniteSet(Holding)
      /\ Cardinality(Busy) \in Nat /\ Cardinality(Holding) \in Nat
  BY Countable
<1>2. /\ inflight = Cardinality(Holding)
      /\ wg = Cardinality(Busy) + (IF LoopLives THEN 1 ELSE 0)
  BY DEF TokensAndWaiters, Holding
<1>3. /\ Busy' = Busy \cup {h} \/ Busy' = Busy \ {h}
      /\ Holding' = Holding \cup {h} \/ Holding' = Holding \ {h}
  BY DEF Busy, Holding
<1>4. Cardinality(Busy') = Cardinality(Busy) + One(h \in Busy') - One(h \in Busy)
  BY <1>1, <1>3, OneMore
<1>5. Cardinality(Holding') = Cardinality(Holding) + One(h \in Holding') - One(h \in Holding)
  BY <1>1, <1>3, OneMore
<1>6. /\ inflight' = Cardinality(Holding')
      /\ wg' = Cardinality(Busy') + (IF LoopLives' THEN 1 ELSE 0)
  BY <1>1, <1>2, <1>4, <1>5 DEF One
<1> QED
  BY <1>6 DEF TokensAndWaiters, Holding

-------------------------------------------------------------------------------
\* Every step keeps each variable of its type.
LEMMA TypeStep ==
  ASSUME TypeOK, TokensAndWaiters, [Next]_vars
  PROVE  TypeOK'
<1>0. inflight \in 0 .. MaxInflight /\ wg \in Nat
  BY DEF TypeOK
<1> USE ServerAssumption
<1> USE DEF LoopAt, Finish, Resting, NoRebind, network, work, state
<1>1. CASE Start
  <2>1. FirstAddr \in Addrs /\ sockets' = Opened(FirstAddr)
    BY <1>1 DEF Start, TypeOK
  <2>2. /\ sockets' \in Seq([addr : Addrs, open : BOOLEAN])
        /\ Len(sockets') = Len(sockets) + 1 /\ Len(sockets) \in Nat
    BY <2>1, OpenedType
  <2>3. 0 .. Len(sockets) \subseteq 0 .. Len(sockets')
    BY <2>2
  <2>4. handler' \in [Handlers -> HandlerStates']
    BY <1>1, <2>3 DEF Start, HandlerStates, TypeOK
  <2> QED
    BY <1>1, <2>1, <2>2, <2>3, <2>4 DEF Start, HandlerStates, TypeOK
<1>2. CASE LoopCheck
  BY <1>2 DEF LoopCheck, TypeOK
<1>3. CASE LoopConn
  BY <1>3 DEF LoopConn, TypeOK
<1>4. CASE LoopReadFails
  BY <1>4 DEF LoopReadFails, TypeOK
<1>5. CASE LoopLeaves
  BY <1>5, Counting DEF LoopLeaves, LoopLives, TypeOK
<1>6. CASE LoopReadError
  BY <1>6 DEF LoopReadError, TypeOK
<1>7. CASE LoopDrops
  BY <1>7 DEF LoopDrops, TypeOK
<1>8. ASSUME NEW h \in Handlers, LoopAdmits(h) PROVE TypeOK'
  <2>1. handler' \in [Handlers -> HandlerStates]
    BY <1>8, HandlerType DEF LoopAdmits, HandlerStates, TypeOK
  <2>2. inflight' \in 0 .. MaxInflight /\ wg' \in Nat
    BY <1>0, <1>8 DEF LoopAdmits
  <2>3. loop' \in [at : {"none", "check", "conn", "read", "leave", "exited"},
                   sock : 0 .. Len(sockets)]
    BY <1>8 DEF LoopAdmits, TypeOK
  <2> QED
    BY <1>8, <2>1, <2>2, <2>3 DEF LoopAdmits, HandlerStates, TypeOK
<1>9. ASSUME NEW h \in Handlers, Load(h) PROVE TypeOK'
  <2>1. handler' \in [Handlers -> HandlerStates]
    BY <1>9, HandlerType DEF Load, HandlerStates, TypeOK
  <2>2. inflight' \in 0 .. MaxInflight /\ wg' \in Nat
    BY <1>0, <1>9 DEF Load
  <2> QED
    BY <1>9, <2>1, <2>2, SMTT(30) DEF Load, HandlerStates, TypeOK
<1>10. ASSUME NEW h \in Handlers, Refuse(h) PROVE TypeOK'
  <2>1. handler' \in [Handlers -> HandlerStates]
    BY <1>10, HandlerType DEF Refuse
  <2>2. inflight' \in 0 .. MaxInflight /\ wg' \in Nat
    BY <1>0, <1>10 DEF Refuse
  <2> QED
    BY <1>10, <2>1, <2>2 DEF Refuse, HandlerStates, TypeOK
<1>11. ASSUME NEW h \in Handlers, Reply(h) PROVE TypeOK'
  <2>1. handler' \in [Handlers -> HandlerStates]
    BY <1>11, HandlerType DEF Reply, HandlerStates
  <2>2. inflight' \in 0 .. MaxInflight /\ wg' \in Nat
    BY <1>0, <1>11 DEF Reply
  <2> QED
    BY <1>11, <2>1, <2>2, SMTT(30) DEF Reply, HandlerStates, TypeOK
<1>12. ASSUME NEW h \in Handlers, LogQuery(h) PROVE TypeOK'
  <2>1. handler' \in [Handlers -> HandlerStates]
    BY <1>12, HandlerType DEF LogQuery
  <2>2. log' \in Seq(Nat) /\ Len(log') <= LogSize
    <3>1. handler[h].gen \in Nat
      BY DEF TypeOK
    <3>2. log \in Seq(Nat) /\ Len(log) <= LogSize
      BY DEF TypeOK
    <3> QED
      BY <1>12, <3>1, <3>2, LogType DEF LogQuery
  <2> QED
    BY <1>12, <2>1, <2>2 DEF LogQuery, HandlerStates, TypeOK
<1>13. ASSUME NEW h \in Handlers, Release(h) PROVE TypeOK'
  <2>1. handler' \in [Handlers -> HandlerStates]
    BY <1>13, HandlerType DEF Release, HandlerStates
  <2>2. inflight' \in 0 .. MaxInflight /\ wg' \in Nat
    BY <1>0, <1>13 DEF Release
  <2> QED
    BY <1>13, <2>1, <2>2, SMTT(30) DEF Release, HandlerStates, TypeOK
<1>14. ASSUME NEW h \in Handlers, Leave(h) PROVE TypeOK'
  <2>1. handler' \in [Handlers -> HandlerStates]
    BY <1>14, HandlerType DEF Leave
  <2>2. inflight' \in 0 .. MaxInflight /\ wg' \in Nat
    <3>1. wg > 0
      BY <1>14, Counting DEF Leave, Busy
    <3> QED
      BY <1>0, <1>14, <3>1 DEF Leave
  <2> QED
    BY <1>14, <2>1, <2>2 DEF Leave, HandlerStates, TypeOK
<1>15. ASSUME NEW a \in Addrs, RebindBegins(a) PROVE TypeOK'
  BY <1>15 DEF RebindBegins, AfterRebind, TypeOK
<1>16. CASE RebindListens
  <2>1. rebind.addr \in Addrs /\ sockets' = Opened(rebind.addr)
    BY <1>16 DEF RebindListens, TypeOK
  <2>2. /\ sockets' \in Seq([addr : Addrs, open : BOOLEAN])
        /\ Len(sockets') = Len(sockets) + 1 /\ Len(sockets) \in Nat
    BY <2>1, OpenedType
  <2>3. 0 .. Len(sockets) \subseteq 0 .. Len(sockets')
    BY <2>2
  <2>4. handler' \in [Handlers -> HandlerStates']
    BY <1>16, <2>3 DEF RebindListens, HandlerStates, TypeOK
  <2>5. rebind.old \in 0 .. Len(sockets') /\ Len(sockets) + 1 \in 0 .. Len(sockets')
    <3>1. rebind.old \in 0 .. Len(sockets)
      BY DEF TypeOK
    <3> QED
      BY <2>2, <2>3, <3>1
  <2>6. rebind' \in [at : {"idle", "listen", "commit", "close"}, addr : Addrs,
                     old : 0 .. Len(sockets'), new : 0 .. Len(sockets')]
    <3>1. rebind' = [at |-> "commit", addr |-> rebind.addr, old |-> rebind.old,
                     new |-> Len(sockets) + 1]
      BY <1>16 DEF RebindListens, TypeOK
    <3> QED
      BY <2>1, <2>5, <3>1
  <2> QED
    BY <1>16, <2>1, <2>2, <2>3, <2>4, <2>6, SMTT(30) DEF RebindListens, HandlerStates, TypeOK
<1>17. CASE RebindFails
  BY <1>17 DEF RebindFails, TypeOK
<1>18. CASE RebindCommits
  BY <1>18, ZenonT(30) DEF RebindCommits, TypeOK
<1>19. CASE RebindCloses
  BY <1>19, ClosedType DEF RebindCloses, AfterRebind, TypeOK
<1>20. CASE ShutdownBegins
  BY <1>20 DEF ShutdownBegins, TypeOK
<1>21. CASE ShutdownCloses
  BY <1>21, ClosedType DEF ShutdownCloses, TypeOK
<1>22. CASE ShutdownReturns
  BY <1>22 DEF ShutdownReturns, TypeOK
<1>23. CASE ResetBegins
  BY <1>23 DEF ResetBegins, TypeOK
<1>24. CASE ResetWipes
  BY <1>24 DEF ResetWipes, TypeOK
<1>25. CASE ResetSwaps
  BY <1>25 DEF ResetSwaps, TypeOK
<1>26. CASE ApplySwaps
  BY <1>26 DEF ApplySwaps, TypeOK
<1>27. CASE Done
  BY <1>27 DEF Done, TypeOK, vars
<1>28. CASE UNCHANGED vars
  BY <1>28 DEF vars, TypeOK
<1> QED
  BY <1>1, <1>2, <1>3, <1>4, <1>5, <1>6, <1>7, <1>8, <1>9, <1>10, <1>11, <1>12,
     <1>13, <1>14, <1>15, <1>16, <1>17, <1>18, <1>19, <1>20, <1>21, <1>22, <1>23,
     <1>24, <1>25, <1>26, <1>27, <1>28
     DEF Next, LoopSteps, Handle, RebindSteps

\* A token is taken and given back, and a waiter counted, once for each handler.
LEMMA TokensStep ==
  ASSUME TypeOK, TokensAndWaiters, StartInv, [Next]_vars
  PROVE  TokensAndWaiters'
<1> USE ServerAssumption
<1> USE DEF LoopAt, Finish, Resting, NoRebind, network, work, state
<1>1. CASE Start
  BY <1>1, Countable DEF Start, TokensAndWaiters, StartInv, LoopLives, Busy, TypeOK
<1>2. CASE LoopCheck
  BY <1>2 DEF LoopCheck, TokensAndWaiters, LoopLives, Busy
<1>3. CASE LoopConn
  BY <1>3 DEF LoopConn, TokensAndWaiters, LoopLives, Busy
<1>4. CASE LoopReadFails
  BY <1>4 DEF LoopReadFails, TokensAndWaiters, LoopLives, Busy
<1>5. CASE LoopLeaves
  <2>1. LoopLives /\ ~LoopLives' /\ wg' = wg - 1
    BY <1>5 DEF LoopLeaves, LoopLives
  <2>2. wg \in Nat /\ Cardinality(Busy) \in Nat
    BY Countable DEF TypeOK
  <2> QED
    BY <1>5, <2>1, <2>2 DEF LoopLeaves, TokensAndWaiters, Busy
<1>6. CASE LoopReadError
  BY <1>6 DEF LoopReadError, TokensAndWaiters, LoopLives, Busy
<1>7. CASE LoopDrops
  BY <1>7 DEF LoopDrops, TokensAndWaiters, LoopLives, Busy
<1>8. ASSUME NEW h \in Handlers, LoopAdmits(h) PROVE TokensAndWaiters'
  <2>1. /\ \A k \in Handlers \ {h} : handler'[k] = handler[k]
        /\ h \notin Busy /\ h \notin Holding
        /\ h \in Busy' /\ h \in Holding'
    BY <1>8 DEF LoopAdmits, Busy, Holding, TypeOK
  <2>2. inflight \in Nat /\ wg \in Nat
    BY DEF TypeOK
  <2>3. /\ inflight' = inflight + One(h \in Holding') - One(h \in Holding)
        /\ wg' = wg + One(h \in Busy') - One(h \in Busy)
        /\ LoopLives' <=> LoopLives
    BY <1>8, <2>1, <2>2, Counting DEF LoopAdmits, LoopLives, One
  <2> QED
    BY <2>1, <2>3, Counted
<1>9. ASSUME NEW h \in Handlers, Load(h) PROVE TokensAndWaiters'
  <2>1. /\ \A k \in Handlers \ {h} : handler'[k] = handler[k]
        /\ h \in Busy /\ h \in Holding
        /\ h \in Busy' /\ h \in Holding'
    BY <1>9 DEF Load, Busy, Holding, TypeOK
  <2>2. inflight \in Nat /\ wg \in Nat
    BY DEF TypeOK
  <2>3. /\ inflight' = inflight + One(h \in Holding') - One(h \in Holding)
        /\ wg' = wg + One(h \in Busy') - One(h \in Busy)
        /\ LoopLives' <=> LoopLives
    BY <1>9, <2>1, <2>2, Counting DEF Load, LoopLives, One
  <2> QED
    BY <2>1, <2>3, Counted
<1>10. ASSUME NEW h \in Handlers, Refuse(h) PROVE TokensAndWaiters'
  <2>1. /\ \A k \in Handlers \ {h} : handler'[k] = handler[k]
        /\ h \in Busy /\ h \in Holding
        /\ h \in Busy' /\ h \in Holding'
    BY <1>10 DEF Refuse, Busy, Holding, TypeOK
  <2>2. inflight \in Nat /\ wg \in Nat
    BY DEF TypeOK
  <2>3. /\ inflight' = inflight + One(h \in Holding') - One(h \in Holding)
        /\ wg' = wg + One(h \in Busy') - One(h \in Busy)
        /\ LoopLives' <=> LoopLives
    BY <1>10, <2>1, <2>2, Counting DEF Refuse, LoopLives, One
  <2> QED
    BY <2>1, <2>3, Counted
<1>11. ASSUME NEW h \in Handlers, Reply(h) PROVE TokensAndWaiters'
  <2>1. /\ \A k \in Handlers \ {h} : handler'[k] = handler[k]
        /\ h \in Busy /\ h \in Holding
        /\ h \in Busy' /\ h \in Holding'
    BY <1>11 DEF Reply, Busy, Holding, TypeOK
  <2>2. inflight \in Nat /\ wg \in Nat
    BY DEF TypeOK
  <2>3. /\ inflight' = inflight + One(h \in Holding') - One(h \in Holding)
        /\ wg' = wg + One(h \in Busy') - One(h \in Busy)
        /\ LoopLives' <=> LoopLives
    BY <1>11, <2>1, <2>2, Counting DEF Reply, LoopLives, One
  <2> QED
    BY <2>1, <2>3, Counted
<1>12. ASSUME NEW h \in Handlers, LogQuery(h) PROVE TokensAndWaiters'
  <2>1. /\ \A k \in Handlers \ {h} : handler'[k] = handler[k]
        /\ h \in Busy /\ h \in Holding
        /\ h \in Busy' /\ h \in Holding'
    BY <1>12 DEF LogQuery, Busy, Holding, TypeOK
  <2>2. inflight \in Nat /\ wg \in Nat
    BY DEF TypeOK
  <2>3. /\ inflight' = inflight + One(h \in Holding') - One(h \in Holding)
        /\ wg' = wg + One(h \in Busy') - One(h \in Busy)
        /\ LoopLives' <=> LoopLives
    BY <1>12, <2>1, <2>2, Counting DEF LogQuery, LoopLives, One
  <2> QED
    BY <2>1, <2>3, Counted
<1>13. ASSUME NEW h \in Handlers, Release(h) PROVE TokensAndWaiters'
  <2>1. /\ \A k \in Handlers \ {h} : handler'[k] = handler[k]
        /\ h \in Busy /\ h \in Holding
        /\ h \in Busy' /\ h \notin Holding'
    BY <1>13 DEF Release, Busy, Holding, TypeOK
  <2>2. inflight \in Nat /\ wg \in Nat
    BY DEF TypeOK
  <2>3. /\ inflight' = inflight + One(h \in Holding') - One(h \in Holding)
        /\ wg' = wg + One(h \in Busy') - One(h \in Busy)
        /\ LoopLives' <=> LoopLives
    BY <1>13, <2>1, <2>2, Counting DEF Release, LoopLives, One
  <2> QED
    BY <2>1, <2>3, Counted
<1>14. ASSUME NEW h \in Handlers, Leave(h) PROVE TokensAndWaiters'
  <2>1. /\ \A k \in Handlers \ {h} : handler'[k] = handler[k]
        /\ h \in Busy /\ h \notin Holding
        /\ h \notin Busy' /\ h \notin Holding'
    BY <1>14 DEF Leave, Busy, Holding, TypeOK
  <2>2. inflight \in Nat /\ wg \in Nat
    BY DEF TypeOK
  <2>3. /\ inflight' = inflight + One(h \in Holding') - One(h \in Holding)
        /\ wg' = wg + One(h \in Busy') - One(h \in Busy)
        /\ LoopLives' <=> LoopLives
    BY <1>14, <2>1, <2>2, Counting DEF Leave, LoopLives, One
  <2> QED
    BY <2>1, <2>3, Counted
<1>15. ASSUME NEW a \in Addrs, RebindBegins(a) PROVE TokensAndWaiters'
  BY <1>15 DEF RebindBegins, AfterRebind, TokensAndWaiters, LoopLives, Busy
<1>16. CASE RebindListens
  BY <1>16 DEF RebindListens, TokensAndWaiters, LoopLives, Busy
<1>17. CASE RebindFails
  BY <1>17 DEF RebindFails, TokensAndWaiters, LoopLives, Busy
<1>18. CASE RebindCommits
  BY <1>18 DEF RebindCommits, TokensAndWaiters, LoopLives, Busy
<1>19. CASE RebindCloses
  BY <1>19 DEF RebindCloses, AfterRebind, TokensAndWaiters, LoopLives, Busy
<1>20. CASE ShutdownBegins
  BY <1>20 DEF ShutdownBegins, TokensAndWaiters, LoopLives, Busy
<1>21. CASE ShutdownCloses
  BY <1>21 DEF ShutdownCloses, TokensAndWaiters, LoopLives, Busy
<1>22. CASE ShutdownReturns
  BY <1>22 DEF ShutdownReturns, TokensAndWaiters, LoopLives, Busy
<1>23. CASE ResetBegins
  BY <1>23 DEF ResetBegins, TokensAndWaiters, LoopLives, Busy
<1>24. CASE ResetWipes
  BY <1>24 DEF ResetWipes, TokensAndWaiters, LoopLives, Busy
<1>25. CASE ResetSwaps
  BY <1>25 DEF ResetSwaps, TokensAndWaiters, LoopLives, Busy
<1>26. CASE ApplySwaps
  BY <1>26 DEF ApplySwaps, TokensAndWaiters, LoopLives, Busy
<1>27. CASE Done
  BY <1>27 DEF Done, TokensAndWaiters, LoopLives, Busy, vars
<1>28. CASE UNCHANGED vars
  BY <1>28 DEF vars, TokensAndWaiters, Busy, LoopLives
<1> QED
  BY <1>1, <1>2, <1>3, <1>4, <1>5, <1>6, <1>7, <1>8, <1>9, <1>10, <1>11, <1>12,
     <1>13, <1>14, <1>15, <1>16, <1>17, <1>18, <1>19, <1>20, <1>21, <1>22, <1>23,
     <1>24, <1>25, <1>26, <1>27, <1>28
     DEF Next, LoopSteps, Handle, RebindSteps

\* Start comes first.
LEMMA StartStep ==
  ASSUME TypeOK, OrderInv, RebindInv, StartInv, [Next]_vars
  PROVE  StartInv'
<1> USE DEF LoopAt, Finish, Resting, NoRebind, network, work, state
<1>1. CASE Start
  <2>1. /\ sockets' = Opened(FirstAddr) /\ FirstAddr \in Addrs
    BY <1>1, ServerAssumption DEF Start
  <2>2. /\ Len(sockets') = Len(sockets) + 1 /\ Len(sockets) \in Nat
        /\ sockets'[Len(sockets) + 1].open
        /\ \A s \in 1 .. Len(sockets) : sockets'[s] = sockets[s]
    BY <2>1, OpenedType
  <2> QED
    BY <1>1, <2>2 DEF Start, TypeOK, OrderInv, RebindInv, StartInv, Busy, Open
<1>2. CASE LoopCheck
  BY <1>2 DEF LoopCheck, TypeOK, OrderInv, RebindInv, StartInv, Busy, Open
<1>3. CASE LoopConn
  BY <1>3 DEF LoopConn, TypeOK, OrderInv, RebindInv, StartInv, Busy, Open
<1>4. CASE LoopReadFails
  BY <1>4 DEF LoopReadFails, TypeOK, OrderInv, RebindInv, StartInv, Busy, Open
<1>5. CASE LoopLeaves
  BY <1>5 DEF LoopLeaves, TypeOK, OrderInv, RebindInv, StartInv, Busy, Open
<1>6. CASE LoopReadError
  BY <1>6 DEF LoopReadError, TypeOK, OrderInv, RebindInv, StartInv, Busy, Open
<1>7. CASE LoopDrops
  BY <1>7 DEF LoopDrops, TypeOK, OrderInv, RebindInv, StartInv, Busy, Open
<1>8. ASSUME NEW h \in Handlers, LoopAdmits(h) PROVE StartInv'
  BY <1>8 DEF LoopAdmits, TypeOK, OrderInv, RebindInv, StartInv, Busy, Open
<1>9. ASSUME NEW h \in Handlers, Load(h) PROVE StartInv'
  BY <1>9 DEF Load, TypeOK, OrderInv, RebindInv, StartInv, Busy, Open
<1>10. ASSUME NEW h \in Handlers, Refuse(h) PROVE StartInv'
  BY <1>10 DEF Refuse, TypeOK, OrderInv, RebindInv, StartInv, Busy, Open
<1>11. ASSUME NEW h \in Handlers, Reply(h) PROVE StartInv'
  BY <1>11 DEF Reply, TypeOK, OrderInv, RebindInv, StartInv, Busy, Open
<1>12. ASSUME NEW h \in Handlers, LogQuery(h) PROVE StartInv'
  BY <1>12 DEF LogQuery, TypeOK, OrderInv, RebindInv, StartInv, Busy, Open
<1>13. ASSUME NEW h \in Handlers, Release(h) PROVE StartInv'
  BY <1>13 DEF Release, TypeOK, OrderInv, RebindInv, StartInv, Busy, Open
<1>14. ASSUME NEW h \in Handlers, Leave(h) PROVE StartInv'
  BY <1>14 DEF Leave, TypeOK, OrderInv, RebindInv, StartInv, Busy, Open
<1>15. ASSUME NEW a \in Addrs, RebindBegins(a) PROVE StartInv'
  BY <1>15 DEF RebindBegins, AfterRebind, TypeOK, OrderInv, RebindInv, StartInv, Busy, Open
<1>16. CASE RebindListens
  <2>1. /\ sockets' = Opened(rebind.addr) /\ rebind.addr \in Addrs
    BY <1>16 DEF RebindListens, TypeOK
  <2>2. /\ Len(sockets') = Len(sockets) + 1 /\ Len(sockets) \in Nat
        /\ sockets'[Len(sockets) + 1].open
        /\ \A s \in 1 .. Len(sockets) : sockets'[s] = sockets[s]
    BY <2>1, OpenedType
  <2> QED
    BY <1>16, <2>2
       DEF RebindListens, TypeOK, OrderInv, RebindInv, StartInv, Busy, Open
<1>17. CASE RebindFails
  BY <1>17 DEF RebindFails, TypeOK, OrderInv, RebindInv, StartInv, Busy, Open
<1>18. CASE RebindCommits
  BY <1>18 DEF RebindCommits, TypeOK, OrderInv, RebindInv, StartInv, Busy, Open
<1>19. CASE RebindCloses
  <2>1. /\ sockets' = Closed(rebind.old) /\ rebind.old \in 0 .. Len(sockets)
    BY <1>19 DEF RebindCloses, AfterRebind, TypeOK
  <2> QED
    BY <1>19, <2>1, ClosedType
       DEF RebindCloses, AfterRebind, TypeOK, OrderInv, RebindInv, StartInv, Busy, Open
<1>20. CASE ShutdownBegins
  BY <1>20 DEF ShutdownBegins, TypeOK, OrderInv, RebindInv, StartInv, Busy, Open
<1>21. CASE ShutdownCloses
  <2>1. /\ sockets' = Closed(shutdown.sock) /\ shutdown.sock \in 0 .. Len(sockets)
    BY <1>21 DEF ShutdownCloses, TypeOK
  <2> QED
    BY <1>21, <2>1, ClosedType
       DEF ShutdownCloses, TypeOK, OrderInv, RebindInv, StartInv, Busy, Open
<1>22. CASE ShutdownReturns
  BY <1>22 DEF ShutdownReturns, TypeOK, OrderInv, RebindInv, StartInv, Busy, Open
<1>23. CASE ResetBegins
  BY <1>23 DEF ResetBegins, TypeOK, OrderInv, RebindInv, StartInv, Busy, Open
<1>24. CASE ResetWipes
  BY <1>24 DEF ResetWipes, TypeOK, OrderInv, RebindInv, StartInv, Busy, Open
<1>25. CASE ResetSwaps
  BY <1>25 DEF ResetSwaps, TypeOK, OrderInv, RebindInv, StartInv, Busy, Open
<1>26. CASE ApplySwaps
  BY <1>26 DEF ApplySwaps, TypeOK, OrderInv, RebindInv, StartInv, Busy, Open
<1>27. CASE Done
  BY <1>27 DEF Done, TypeOK, OrderInv, RebindInv, StartInv, Busy, Open, vars
<1>28. CASE UNCHANGED vars
  BY <1>28 DEF vars, OrderInv, RebindInv, StartInv, Busy, Open
<1> QED
  BY <1>1, <1>2, <1>3, <1>4, <1>5, <1>6, <1>7, <1>8, <1>9, <1>10, <1>11, <1>12,
     <1>13, <1>14, <1>15, <1>16, <1>17, <1>18, <1>19, <1>20, <1>21, <1>22, <1>23,
     <1>24, <1>25, <1>26, <1>27, <1>28
     DEF Next, LoopSteps, Handle, RebindSteps

\* The steps of a management request and of Shutdown come in their order.
LEMMA OrderStep ==
  ASSUME TypeOK, StartInv, OrderInv, [Next]_vars
  PROVE  OrderInv'
<1> USE DEF LoopAt, Finish, Resting, NoRebind, network, work, state
<1>1. CASE Start
  <2>1. /\ sockets' = Opened(FirstAddr) /\ FirstAddr \in Addrs
    BY <1>1, ServerAssumption DEF Start
  <2>2. /\ Len(sockets') = Len(sockets) + 1 /\ Len(sockets) \in Nat
        /\ sockets'[Len(sockets) + 1].open
        /\ \A s \in 1 .. Len(sockets) : sockets'[s] = sockets[s]
    BY <2>1, OpenedType
  <2> QED
    BY <1>1, <2>2 DEF Start, TypeOK, StartInv, OrderInv
<1>2. CASE LoopCheck
  BY <1>2 DEF LoopCheck, TypeOK, StartInv, OrderInv
<1>3. CASE LoopConn
  BY <1>3 DEF LoopConn, TypeOK, StartInv, OrderInv
<1>4. CASE LoopReadFails
  BY <1>4 DEF LoopReadFails, TypeOK, StartInv, OrderInv
<1>5. CASE LoopLeaves
  BY <1>5 DEF LoopLeaves, TypeOK, StartInv, OrderInv
<1>6. CASE LoopReadError
  BY <1>6 DEF LoopReadError, TypeOK, StartInv, OrderInv
<1>7. CASE LoopDrops
  BY <1>7 DEF LoopDrops, TypeOK, StartInv, OrderInv
<1>8. ASSUME NEW h \in Handlers, LoopAdmits(h) PROVE OrderInv'
  BY <1>8 DEF LoopAdmits, TypeOK, StartInv, OrderInv
<1>9. ASSUME NEW h \in Handlers, Load(h) PROVE OrderInv'
  BY <1>9 DEF Load, TypeOK, StartInv, OrderInv
<1>10. ASSUME NEW h \in Handlers, Refuse(h) PROVE OrderInv'
  BY <1>10 DEF Refuse, TypeOK, StartInv, OrderInv
<1>11. ASSUME NEW h \in Handlers, Reply(h) PROVE OrderInv'
  BY <1>11 DEF Reply, TypeOK, StartInv, OrderInv
<1>12. ASSUME NEW h \in Handlers, LogQuery(h) PROVE OrderInv'
  BY <1>12 DEF LogQuery, TypeOK, StartInv, OrderInv
<1>13. ASSUME NEW h \in Handlers, Release(h) PROVE OrderInv'
  BY <1>13 DEF Release, TypeOK, StartInv, OrderInv
<1>14. ASSUME NEW h \in Handlers, Leave(h) PROVE OrderInv'
  BY <1>14 DEF Leave, TypeOK, StartInv, OrderInv
<1>15. ASSUME NEW a \in Addrs, RebindBegins(a) PROVE OrderInv'
  BY <1>15 DEF RebindBegins, AfterRebind, TypeOK, StartInv, OrderInv
<1>16. CASE RebindListens
  <2>1. /\ sockets' = Opened(rebind.addr) /\ rebind.addr \in Addrs
    BY <1>16 DEF RebindListens, TypeOK
  <2>2. /\ Len(sockets') = Len(sockets) + 1 /\ Len(sockets) \in Nat
        /\ sockets'[Len(sockets) + 1].open
        /\ \A s \in 1 .. Len(sockets) : sockets'[s] = sockets[s]
    BY <2>1, OpenedType
  <2> QED
    BY <1>16, <2>2 DEF RebindListens, TypeOK, StartInv, OrderInv
<1>17. CASE RebindFails
  BY <1>17 DEF RebindFails, TypeOK, StartInv, OrderInv
<1>18. CASE RebindCommits
  BY <1>18 DEF RebindCommits, TypeOK, StartInv, OrderInv
<1>19. CASE RebindCloses
  <2>1. /\ sockets' = Closed(rebind.old) /\ rebind.old \in 0 .. Len(sockets)
    BY <1>19 DEF RebindCloses, AfterRebind, TypeOK
  <2> QED
    BY <1>19, <2>1, ClosedType DEF RebindCloses, AfterRebind, TypeOK, StartInv, OrderInv
<1>20. CASE ShutdownBegins
  BY <1>20 DEF ShutdownBegins, TypeOK, StartInv, OrderInv
<1>21. CASE ShutdownCloses
  <2>1. /\ sockets' = Closed(shutdown.sock) /\ shutdown.sock \in 0 .. Len(sockets)
    BY <1>21 DEF ShutdownCloses, TypeOK
  <2> QED
    BY <1>21, <2>1, ClosedType DEF ShutdownCloses, TypeOK, StartInv, OrderInv
<1>22. CASE ShutdownReturns
  BY <1>22 DEF ShutdownReturns, TypeOK, StartInv, OrderInv
<1>23. CASE ResetBegins
  BY <1>23 DEF ResetBegins, TypeOK, StartInv, OrderInv
<1>24. CASE ResetWipes
  BY <1>24 DEF ResetWipes, TypeOK, StartInv, OrderInv
<1>25. CASE ResetSwaps
  BY <1>25 DEF ResetSwaps, TypeOK, StartInv, OrderInv
<1>26. CASE ApplySwaps
  BY <1>26 DEF ApplySwaps, TypeOK, StartInv, OrderInv
<1>27. CASE Done
  BY <1>27 DEF Done, TypeOK, StartInv, OrderInv, vars
<1>28. CASE UNCHANGED vars
  BY <1>28 DEF vars, StartInv, OrderInv
<1> QED
  BY <1>1, <1>2, <1>3, <1>4, <1>5, <1>6, <1>7, <1>8, <1>9, <1>10, <1>11, <1>12,
     <1>13, <1>14, <1>15, <1>16, <1>17, <1>18, <1>19, <1>20, <1>21, <1>22, <1>23,
     <1>24, <1>25, <1>26, <1>27, <1>28
     DEF Next, LoopSteps, Handle, RebindSteps

\* The sockets a rebind holds stay what they were while it runs without the lock.
LEMMA RebindStep ==
  ASSUME TypeOK, StartInv, OrderInv, UdpOpen, RebindInv, [Next]_vars
  PROVE  RebindInv'
<1> USE DEF LoopAt, Finish, Resting, NoRebind, network, work, state
<1>1. CASE Start
  <2>1. /\ sockets' = Opened(FirstAddr) /\ FirstAddr \in Addrs
    BY <1>1, ServerAssumption DEF Start
  <2>2. /\ Len(sockets') = Len(sockets) + 1 /\ Len(sockets) \in Nat
        /\ sockets'[Len(sockets) + 1].open
        /\ \A s \in 1 .. Len(sockets) : sockets'[s] = sockets[s]
    BY <2>1, OpenedType
  <2> QED
    BY <1>1, <2>2 DEF Start, TypeOK, StartInv, OrderInv, UdpOpen, RebindInv, Open
<1>2. CASE LoopCheck
  BY <1>2 DEF LoopCheck, TypeOK, StartInv, OrderInv, UdpOpen, RebindInv, Open
<1>3. CASE LoopConn
  BY <1>3 DEF LoopConn, TypeOK, StartInv, OrderInv, UdpOpen, RebindInv, Open
<1>4. CASE LoopReadFails
  BY <1>4 DEF LoopReadFails, TypeOK, StartInv, OrderInv, UdpOpen, RebindInv, Open
<1>5. CASE LoopLeaves
  BY <1>5 DEF LoopLeaves, TypeOK, StartInv, OrderInv, UdpOpen, RebindInv, Open
<1>6. CASE LoopReadError
  BY <1>6 DEF LoopReadError, TypeOK, StartInv, OrderInv, UdpOpen, RebindInv, Open
<1>7. CASE LoopDrops
  BY <1>7 DEF LoopDrops, TypeOK, StartInv, OrderInv, UdpOpen, RebindInv, Open
<1>8. ASSUME NEW h \in Handlers, LoopAdmits(h) PROVE RebindInv'
  BY <1>8 DEF LoopAdmits, TypeOK, StartInv, OrderInv, UdpOpen, RebindInv, Open
<1>9. ASSUME NEW h \in Handlers, Load(h) PROVE RebindInv'
  BY <1>9 DEF Load, TypeOK, StartInv, OrderInv, UdpOpen, RebindInv, Open
<1>10. ASSUME NEW h \in Handlers, Refuse(h) PROVE RebindInv'
  BY <1>10 DEF Refuse, TypeOK, StartInv, OrderInv, UdpOpen, RebindInv, Open
<1>11. ASSUME NEW h \in Handlers, Reply(h) PROVE RebindInv'
  BY <1>11 DEF Reply, TypeOK, StartInv, OrderInv, UdpOpen, RebindInv, Open
<1>12. ASSUME NEW h \in Handlers, LogQuery(h) PROVE RebindInv'
  BY <1>12 DEF LogQuery, TypeOK, StartInv, OrderInv, UdpOpen, RebindInv, Open
<1>13. ASSUME NEW h \in Handlers, Release(h) PROVE RebindInv'
  BY <1>13 DEF Release, TypeOK, StartInv, OrderInv, UdpOpen, RebindInv, Open
<1>14. ASSUME NEW h \in Handlers, Leave(h) PROVE RebindInv'
  BY <1>14 DEF Leave, TypeOK, StartInv, OrderInv, UdpOpen, RebindInv, Open
<1>15. ASSUME NEW a \in Addrs, RebindBegins(a) PROVE RebindInv'
  BY <1>15 DEF RebindBegins, AfterRebind, TypeOK, StartInv, OrderInv, UdpOpen, RebindInv, Open
<1>16. CASE RebindListens
  <2>1. /\ sockets' = Opened(rebind.addr) /\ rebind.addr \in Addrs
    BY <1>16 DEF RebindListens, TypeOK
  <2>2. /\ Len(sockets') = Len(sockets) + 1 /\ Len(sockets) \in Nat
        /\ sockets'[Len(sockets) + 1].open
        /\ \A s \in 1 .. Len(sockets) : sockets'[s] = sockets[s]
    BY <2>1, OpenedType
  <2> QED
    BY <1>16, <2>2
       DEF RebindListens, TypeOK, StartInv, OrderInv, UdpOpen, RebindInv, Open
<1>17. CASE RebindFails
  BY <1>17 DEF RebindFails, TypeOK, StartInv, OrderInv, UdpOpen, RebindInv, Open
<1>18. CASE RebindCommits
  BY <1>18 DEF RebindCommits, TypeOK, StartInv, OrderInv, UdpOpen, RebindInv, Open
<1>19. CASE RebindCloses
  <2>1. /\ sockets' = Closed(rebind.old) /\ rebind.old \in 0 .. Len(sockets)
    BY <1>19 DEF RebindCloses, AfterRebind, TypeOK
  <2> QED
    BY <1>19, <2>1, ClosedType
       DEF RebindCloses, AfterRebind, TypeOK, StartInv, OrderInv, UdpOpen, RebindInv, Open
<1>20. CASE ShutdownBegins
  BY <1>20 DEF ShutdownBegins, TypeOK, StartInv, OrderInv, UdpOpen, RebindInv, Open
<1>21. CASE ShutdownCloses
  <2>1. /\ sockets' = Closed(shutdown.sock) /\ shutdown.sock \in 0 .. Len(sockets)
    BY <1>21 DEF ShutdownCloses, TypeOK
  <2> QED
    BY <1>21, <2>1, ClosedType
       DEF ShutdownCloses, TypeOK, StartInv, OrderInv, UdpOpen, RebindInv, Open
<1>22. CASE ShutdownReturns
  BY <1>22 DEF ShutdownReturns, TypeOK, StartInv, OrderInv, UdpOpen, RebindInv, Open
<1>23. CASE ResetBegins
  BY <1>23 DEF ResetBegins, TypeOK, StartInv, OrderInv, UdpOpen, RebindInv, Open
<1>24. CASE ResetWipes
  BY <1>24 DEF ResetWipes, TypeOK, StartInv, OrderInv, UdpOpen, RebindInv, Open
<1>25. CASE ResetSwaps
  BY <1>25 DEF ResetSwaps, TypeOK, StartInv, OrderInv, UdpOpen, RebindInv, Open
<1>26. CASE ApplySwaps
  BY <1>26 DEF ApplySwaps, TypeOK, StartInv, OrderInv, UdpOpen, RebindInv, Open
<1>27. CASE Done
  BY <1>27 DEF Done, TypeOK, StartInv, OrderInv, UdpOpen, RebindInv, Open, vars
<1>28. CASE UNCHANGED vars
  BY <1>28 DEF vars, StartInv, OrderInv, UdpOpen, RebindInv, Open
<1> QED
  BY <1>1, <1>2, <1>3, <1>4, <1>5, <1>6, <1>7, <1>8, <1>9, <1>10, <1>11, <1>12,
     <1>13, <1>14, <1>15, <1>16, <1>17, <1>18, <1>19, <1>20, <1>21, <1>22, <1>23,
     <1>24, <1>25, <1>26, <1>27, <1>28
     DEF Next, LoopSteps, Handle, RebindSteps

\* A rebind binds first and closes only what it replaced.
LEMMA UdpStep ==
  ASSUME TypeOK, StartInv, OrderInv, RebindInv, UdpOpen, [Next]_vars
  PROVE  UdpOpen'
<1> USE DEF LoopAt, Finish, Resting, NoRebind, network, work, state
<1>1. CASE Start
  <2>1. /\ sockets' = Opened(FirstAddr) /\ FirstAddr \in Addrs
    BY <1>1, ServerAssumption DEF Start
  <2>2. /\ Len(sockets') = Len(sockets) + 1 /\ Len(sockets) \in Nat
        /\ sockets'[Len(sockets) + 1].open
        /\ \A s \in 1 .. Len(sockets) : sockets'[s] = sockets[s]
    BY <2>1, OpenedType
  <2> QED
    BY <1>1, <2>2 DEF Start, TypeOK, StartInv, OrderInv, RebindInv, UdpOpen, Open
<1>2. CASE LoopCheck
  BY <1>2 DEF LoopCheck, TypeOK, StartInv, OrderInv, RebindInv, UdpOpen, Open
<1>3. CASE LoopConn
  BY <1>3 DEF LoopConn, TypeOK, StartInv, OrderInv, RebindInv, UdpOpen, Open
<1>4. CASE LoopReadFails
  BY <1>4 DEF LoopReadFails, TypeOK, StartInv, OrderInv, RebindInv, UdpOpen, Open
<1>5. CASE LoopLeaves
  BY <1>5 DEF LoopLeaves, TypeOK, StartInv, OrderInv, RebindInv, UdpOpen, Open
<1>6. CASE LoopReadError
  BY <1>6 DEF LoopReadError, TypeOK, StartInv, OrderInv, RebindInv, UdpOpen, Open
<1>7. CASE LoopDrops
  BY <1>7 DEF LoopDrops, TypeOK, StartInv, OrderInv, RebindInv, UdpOpen, Open
<1>8. ASSUME NEW h \in Handlers, LoopAdmits(h) PROVE UdpOpen'
  BY <1>8 DEF LoopAdmits, TypeOK, StartInv, OrderInv, RebindInv, UdpOpen, Open
<1>9. ASSUME NEW h \in Handlers, Load(h) PROVE UdpOpen'
  BY <1>9 DEF Load, TypeOK, StartInv, OrderInv, RebindInv, UdpOpen, Open
<1>10. ASSUME NEW h \in Handlers, Refuse(h) PROVE UdpOpen'
  BY <1>10 DEF Refuse, TypeOK, StartInv, OrderInv, RebindInv, UdpOpen, Open
<1>11. ASSUME NEW h \in Handlers, Reply(h) PROVE UdpOpen'
  BY <1>11 DEF Reply, TypeOK, StartInv, OrderInv, RebindInv, UdpOpen, Open
<1>12. ASSUME NEW h \in Handlers, LogQuery(h) PROVE UdpOpen'
  BY <1>12 DEF LogQuery, TypeOK, StartInv, OrderInv, RebindInv, UdpOpen, Open
<1>13. ASSUME NEW h \in Handlers, Release(h) PROVE UdpOpen'
  BY <1>13 DEF Release, TypeOK, StartInv, OrderInv, RebindInv, UdpOpen, Open
<1>14. ASSUME NEW h \in Handlers, Leave(h) PROVE UdpOpen'
  BY <1>14 DEF Leave, TypeOK, StartInv, OrderInv, RebindInv, UdpOpen, Open
<1>15. ASSUME NEW a \in Addrs, RebindBegins(a) PROVE UdpOpen'
  BY <1>15 DEF RebindBegins, AfterRebind, TypeOK, StartInv, OrderInv, RebindInv, UdpOpen, Open
<1>16. CASE RebindListens
  <2>1. /\ sockets' = Opened(rebind.addr) /\ rebind.addr \in Addrs
    BY <1>16 DEF RebindListens, TypeOK
  <2>2. /\ Len(sockets') = Len(sockets) + 1 /\ Len(sockets) \in Nat
        /\ sockets'[Len(sockets) + 1].open
        /\ \A s \in 1 .. Len(sockets) : sockets'[s] = sockets[s]
    BY <2>1, OpenedType
  <2> QED
    BY <1>16, <2>2, SMTT(30)
       DEF RebindListens, TypeOK, StartInv, OrderInv, RebindInv, UdpOpen, Open
<1>17. CASE RebindFails
  BY <1>17 DEF RebindFails, TypeOK, StartInv, OrderInv, RebindInv, UdpOpen, Open
<1>18. CASE RebindCommits
  BY <1>18 DEF RebindCommits, TypeOK, StartInv, OrderInv, RebindInv, UdpOpen, Open
<1>19. CASE RebindCloses
  <2>1. /\ sockets' = Closed(rebind.old) /\ rebind.old \in 0 .. Len(sockets)
    BY <1>19 DEF RebindCloses, AfterRebind, TypeOK
  <2> QED
    BY <1>19, <2>1, ClosedType
       DEF RebindCloses, AfterRebind, TypeOK, StartInv, OrderInv, RebindInv, UdpOpen, Open
<1>20. CASE ShutdownBegins
  BY <1>20 DEF ShutdownBegins, TypeOK, StartInv, OrderInv, RebindInv, UdpOpen, Open
<1>21. CASE ShutdownCloses
  <2>1. /\ sockets' = Closed(shutdown.sock) /\ shutdown.sock \in 0 .. Len(sockets)
    BY <1>21 DEF ShutdownCloses, TypeOK
  <2> QED
    BY <1>21, <2>1, ClosedType
       DEF ShutdownCloses, TypeOK, StartInv, OrderInv, RebindInv, UdpOpen, Open
<1>22. CASE ShutdownReturns
  BY <1>22 DEF ShutdownReturns, TypeOK, StartInv, OrderInv, RebindInv, UdpOpen, Open
<1>23. CASE ResetBegins
  BY <1>23 DEF ResetBegins, TypeOK, StartInv, OrderInv, RebindInv, UdpOpen, Open
<1>24. CASE ResetWipes
  BY <1>24 DEF ResetWipes, TypeOK, StartInv, OrderInv, RebindInv, UdpOpen, Open
<1>25. CASE ResetSwaps
  BY <1>25 DEF ResetSwaps, TypeOK, StartInv, OrderInv, RebindInv, UdpOpen, Open
<1>26. CASE ApplySwaps
  BY <1>26 DEF ApplySwaps, TypeOK, StartInv, OrderInv, RebindInv, UdpOpen, Open
<1>27. CASE Done
  BY <1>27 DEF Done, TypeOK, StartInv, OrderInv, RebindInv, UdpOpen, Open, vars
<1>28. CASE UNCHANGED vars
  BY <1>28 DEF vars, StartInv, OrderInv, RebindInv, UdpOpen, Open
<1> QED
  BY <1>1, <1>2, <1>3, <1>4, <1>5, <1>6, <1>7, <1>8, <1>9, <1>10, <1>11, <1>12,
     <1>13, <1>14, <1>15, <1>16, <1>17, <1>18, <1>19, <1>20, <1>21, <1>22, <1>23,
     <1>24, <1>25, <1>26, <1>27, <1>28
     DEF Next, LoopSteps, Handle, RebindSteps

\* A socket goes from the rebind that opened it to the server, and back to be closed.
LEMMA LostStep ==
  ASSUME TypeOK, StartInv, OrderInv, RebindInv, NoLostSocket, [Next]_vars
  PROVE  NoLostSocket'
<1> USE DEF LoopAt, Finish, Resting, NoRebind, network, work, state
<1>1. CASE Start
  <2>1. /\ sockets' = Opened(FirstAddr) /\ FirstAddr \in Addrs
    BY <1>1, ServerAssumption DEF Start
  <2>2. /\ Len(sockets') = Len(sockets) + 1 /\ Len(sockets) \in Nat
        /\ sockets'[Len(sockets) + 1].open
        /\ \A s \in 1 .. Len(sockets) : sockets'[s] = sockets[s]
    BY <2>1, OpenedType
  <2> QED
    BY <1>1, <2>2
       DEF Start, TypeOK, StartInv, OrderInv, RebindInv, NoLostSocket, Open
<1>2. CASE LoopCheck
  BY <1>2 DEF LoopCheck, TypeOK, StartInv, OrderInv, RebindInv, NoLostSocket, Open
<1>3. CASE LoopConn
  BY <1>3 DEF LoopConn, TypeOK, StartInv, OrderInv, RebindInv, NoLostSocket, Open
<1>4. CASE LoopReadFails
  BY <1>4
     DEF LoopReadFails, TypeOK, StartInv, OrderInv, RebindInv, NoLostSocket, Open
<1>5. CASE LoopLeaves
  BY <1>5 DEF LoopLeaves, TypeOK, StartInv, OrderInv, RebindInv, NoLostSocket, Open
<1>6. CASE LoopReadError
  BY <1>6
     DEF LoopReadError, TypeOK, StartInv, OrderInv, RebindInv, NoLostSocket, Open
<1>7. CASE LoopDrops
  BY <1>7 DEF LoopDrops, TypeOK, StartInv, OrderInv, RebindInv, NoLostSocket, Open
<1>8. ASSUME NEW h \in Handlers, LoopAdmits(h) PROVE NoLostSocket'
  BY <1>8 DEF LoopAdmits, TypeOK, StartInv, OrderInv, RebindInv, NoLostSocket, Open
<1>9. ASSUME NEW h \in Handlers, Load(h) PROVE NoLostSocket'
  BY <1>9 DEF Load, TypeOK, StartInv, OrderInv, RebindInv, NoLostSocket, Open
<1>10. ASSUME NEW h \in Handlers, Refuse(h) PROVE NoLostSocket'
  BY <1>10 DEF Refuse, TypeOK, StartInv, OrderInv, RebindInv, NoLostSocket, Open
<1>11. ASSUME NEW h \in Handlers, Reply(h) PROVE NoLostSocket'
  BY <1>11 DEF Reply, TypeOK, StartInv, OrderInv, RebindInv, NoLostSocket, Open
<1>12. ASSUME NEW h \in Handlers, LogQuery(h) PROVE NoLostSocket'
  BY <1>12 DEF LogQuery, TypeOK, StartInv, OrderInv, RebindInv, NoLostSocket, Open
<1>13. ASSUME NEW h \in Handlers, Release(h) PROVE NoLostSocket'
  BY <1>13 DEF Release, TypeOK, StartInv, OrderInv, RebindInv, NoLostSocket, Open
<1>14. ASSUME NEW h \in Handlers, Leave(h) PROVE NoLostSocket'
  BY <1>14 DEF Leave, TypeOK, StartInv, OrderInv, RebindInv, NoLostSocket, Open
<1>15. ASSUME NEW a \in Addrs, RebindBegins(a) PROVE NoLostSocket'
  BY <1>15
     DEF RebindBegins, AfterRebind, TypeOK, StartInv, OrderInv, RebindInv, NoLostSocket, Open
<1>16. CASE RebindListens
  <2>1. /\ sockets' = Opened(rebind.addr) /\ rebind.addr \in Addrs
        /\ sockets \in Seq([addr : Addrs, open : BOOLEAN])
        /\ rebind'.at = "commit" /\ rebind'.new = Len(sockets) + 1 /\ udp' = udp
        /\ rebind.at = "listen"
    BY <1>16 DEF RebindListens, TypeOK
  <2>2. /\ DOMAIN sockets' = DOMAIN sockets \cup {Len(sockets) + 1}
        /\ \A s \in DOMAIN sockets : sockets'[s] = sockets[s]
    <3>1. /\ sockets' \in Seq([addr : Addrs, open : BOOLEAN])
          /\ Len(sockets') = Len(sockets) + 1 /\ Len(sockets) \in Nat
          /\ \A s \in 1 .. Len(sockets) : sockets'[s] = sockets[s]
      BY <2>1, OpenedType
    <3>2. DOMAIN sockets = 1 .. Len(sockets) /\ DOMAIN sockets' = 1 .. Len(sockets')
      BY <2>1, <3>1
    <3> QED
      BY <3>1, <3>2
  <2>3. ASSUME NEW s \in DOMAIN sockets', Open(s)'
        PROVE  s = udp' \/ s = rebind'.new
    <3>1. CASE s \in DOMAIN sockets
      BY <2>1, <2>2, <2>3, <3>1 DEF NoLostSocket, Open
    <3> QED
      BY <2>1, <2>2, <3>1
  <2> QED
    BY <2>1, <2>3 DEF NoLostSocket
<1>17. CASE RebindFails
  BY <1>17
     DEF RebindFails, TypeOK, StartInv, OrderInv, RebindInv, NoLostSocket, Open
<1>18. CASE RebindCommits
  BY <1>18
     DEF RebindCommits, TypeOK, StartInv, OrderInv, RebindInv, NoLostSocket, Open
<1>19. CASE RebindCloses
  <2>1. /\ sockets' = Closed(rebind.old) /\ rebind.old \in 0 .. Len(sockets)
        /\ sockets \in Seq([addr : Addrs, open : BOOLEAN])
    BY <1>19 DEF RebindCloses, AfterRebind, TypeOK
  <2>2. DOMAIN sockets' = DOMAIN sockets
    BY <2>1, ClosedType
  <2>3. \A s \in DOMAIN sockets' : Open(s)' => Open(s) /\ s # rebind.old
    <3>1. \A s \in 1 .. Len(sockets) : sockets'[s].open => s # rebind.old /\ sockets[s].open
      BY <2>1, ClosedType
    <3> QED
      BY <2>1, <2>2, <3>1 DEF Open
  <2> QED
    BY <1>19, <2>2, <2>3 DEF RebindCloses, AfterRebind, NoLostSocket
<1>20. CASE ShutdownBegins
  BY <1>20
     DEF ShutdownBegins, TypeOK, StartInv, OrderInv, RebindInv, NoLostSocket, Open
<1>21. CASE ShutdownCloses
  <2>1. /\ sockets' = Closed(shutdown.sock) /\ shutdown.sock \in 0 .. Len(sockets)
        /\ sockets \in Seq([addr : Addrs, open : BOOLEAN])
    BY <1>21 DEF ShutdownCloses, TypeOK
  <2>2. DOMAIN sockets' = DOMAIN sockets
    BY <2>1, ClosedType
  <2>3. \A s \in DOMAIN sockets' : Open(s)' => Open(s) /\ s # shutdown.sock
    <3>1. \A s \in 1 .. Len(sockets) : sockets'[s].open => s # shutdown.sock /\ sockets[s].open
      BY <2>1, ClosedType
    <3> QED
      BY <2>1, <2>2, <3>1 DEF Open
  <2> QED
    BY <1>21, <2>2, <2>3 DEF ShutdownCloses, NoLostSocket
<1>22. CASE ShutdownReturns
  BY <1>22
     DEF ShutdownReturns, TypeOK, StartInv, OrderInv, RebindInv, NoLostSocket, Open
<1>23. CASE ResetBegins
  BY <1>23
     DEF ResetBegins, TypeOK, StartInv, OrderInv, RebindInv, NoLostSocket, Open
<1>24. CASE ResetWipes
  BY <1>24 DEF ResetWipes, TypeOK, StartInv, OrderInv, RebindInv, NoLostSocket, Open
<1>25. CASE ResetSwaps
  BY <1>25 DEF ResetSwaps, TypeOK, StartInv, OrderInv, RebindInv, NoLostSocket, Open
<1>26. CASE ApplySwaps
  BY <1>26 DEF ApplySwaps, TypeOK, StartInv, OrderInv, RebindInv, NoLostSocket, Open
<1>27. CASE Done
  BY <1>27 DEF Done, TypeOK, StartInv, OrderInv, RebindInv, NoLostSocket, Open, vars
<1>28. CASE UNCHANGED vars
  BY <1>28 DEF vars, StartInv, OrderInv, RebindInv, NoLostSocket, Open
<1> QED
  BY <1>1, <1>2, <1>3, <1>4, <1>5, <1>6, <1>7, <1>8, <1>9, <1>10, <1>11, <1>12,
     <1>13, <1>14, <1>15, <1>16, <1>17, <1>18, <1>19, <1>20, <1>21, <1>22, <1>23,
     <1>24, <1>25, <1>26, <1>27, <1>28
     DEF Next, LoopSteps, Handle, RebindSteps

\* What Shutdown has done stays done once management is down.
LEMMA ShutdownStep ==
  ASSUME TypeOK, TokensAndWaiters, StartInv, OrderInv, RebindInv, ShutdownInv,
         [Next]_vars
  PROVE  ShutdownInv'
<1> USE DEF LoopAt, Finish, Resting, NoRebind, network, work, state
<1>1. CASE Start
  <2>1. /\ sockets' = Opened(FirstAddr) /\ FirstAddr \in Addrs
    BY <1>1, ServerAssumption DEF Start
  <2>2. /\ Len(sockets') = Len(sockets) + 1 /\ Len(sockets) \in Nat
        /\ sockets'[Len(sockets) + 1].open
        /\ \A s \in 1 .. Len(sockets) : sockets'[s] = sockets[s]
    BY <2>1, OpenedType
  <2> QED
    BY <1>1, <2>2
       DEF Start, TypeOK, TokensAndWaiters, StartInv, OrderInv, RebindInv,
           ShutdownInv, Open
<1>2. CASE LoopCheck
  BY <1>2
     DEF LoopCheck, TypeOK, TokensAndWaiters, StartInv, OrderInv, RebindInv,
         ShutdownInv, Open
<1>3. CASE LoopConn
  BY <1>3
     DEF LoopConn, TypeOK, TokensAndWaiters, StartInv, OrderInv, RebindInv,
         ShutdownInv, Open
<1>4. CASE LoopReadFails
  BY <1>4
     DEF LoopReadFails, TypeOK, TokensAndWaiters, StartInv, OrderInv, RebindInv,
         ShutdownInv, Open
<1>5. CASE LoopLeaves
  BY <1>5, Counting
     DEF LoopLeaves, LoopLives, Busy, TypeOK, TokensAndWaiters, StartInv, OrderInv,
         RebindInv, ShutdownInv, Open
<1>6. CASE LoopReadError
  BY <1>6
     DEF LoopReadError, TypeOK, TokensAndWaiters, StartInv, OrderInv, RebindInv,
         ShutdownInv, Open
<1>7. CASE LoopDrops
  BY <1>7
     DEF LoopDrops, TypeOK, TokensAndWaiters, StartInv, OrderInv, RebindInv,
         ShutdownInv, Open
<1>8. ASSUME NEW h \in Handlers, LoopAdmits(h) PROVE ShutdownInv'
  BY <1>8, Counting
     DEF LoopAdmits, LoopLives, Busy, TypeOK, TokensAndWaiters, StartInv, OrderInv,
         RebindInv, ShutdownInv, Open
<1>9. ASSUME NEW h \in Handlers, Load(h) PROVE ShutdownInv'
  BY <1>9
     DEF Load, TypeOK, TokensAndWaiters, StartInv, OrderInv, RebindInv,
         ShutdownInv, Open
<1>10. ASSUME NEW h \in Handlers, Refuse(h) PROVE ShutdownInv'
  BY <1>10
     DEF Refuse, TypeOK, TokensAndWaiters, StartInv, OrderInv, RebindInv,
         ShutdownInv, Open
<1>11. ASSUME NEW h \in Handlers, Reply(h) PROVE ShutdownInv'
  BY <1>11
     DEF Reply, TypeOK, TokensAndWaiters, StartInv, OrderInv, RebindInv,
         ShutdownInv, Open
<1>12. ASSUME NEW h \in Handlers, LogQuery(h) PROVE ShutdownInv'
  BY <1>12
     DEF LogQuery, TypeOK, TokensAndWaiters, StartInv, OrderInv, RebindInv,
         ShutdownInv, Open
<1>13. ASSUME NEW h \in Handlers, Release(h) PROVE ShutdownInv'
  BY <1>13
     DEF Release, TypeOK, TokensAndWaiters, StartInv, OrderInv, RebindInv,
         ShutdownInv, Open
<1>14. ASSUME NEW h \in Handlers, Leave(h) PROVE ShutdownInv'
  BY <1>14, Counting
     DEF Leave, LoopLives, Busy, TypeOK, TokensAndWaiters, StartInv, OrderInv,
         RebindInv, ShutdownInv, Open
<1>15. ASSUME NEW a \in Addrs, RebindBegins(a) PROVE ShutdownInv'
  BY <1>15
     DEF RebindBegins, AfterRebind, TypeOK, TokensAndWaiters, StartInv, OrderInv, RebindInv,
         ShutdownInv, Open
<1>16. CASE RebindListens
  <2>1. /\ sockets' = Opened(rebind.addr) /\ rebind.addr \in Addrs
    BY <1>16 DEF RebindListens, TypeOK
  <2>2. /\ Len(sockets') = Len(sockets) + 1 /\ Len(sockets) \in Nat
        /\ sockets'[Len(sockets) + 1].open
        /\ \A s \in 1 .. Len(sockets) : sockets'[s] = sockets[s]
    BY <2>1, OpenedType
  <2> QED
    BY <1>16, <2>2
       DEF RebindListens, TypeOK, TokensAndWaiters, StartInv, OrderInv, RebindInv,
           ShutdownInv, Open
<1>17. CASE RebindFails
  BY <1>17
     DEF RebindFails, TypeOK, TokensAndWaiters, StartInv, OrderInv, RebindInv,
         ShutdownInv, Open
<1>18. CASE RebindCommits
  BY <1>18
     DEF RebindCommits, TypeOK, TokensAndWaiters, StartInv, OrderInv, RebindInv,
         ShutdownInv, Open
<1>19. CASE RebindCloses
  <2>1. /\ sockets' = Closed(rebind.old) /\ rebind.old \in 0 .. Len(sockets)
    BY <1>19 DEF RebindCloses, AfterRebind, TypeOK
  <2> QED
    BY <1>19, <2>1, ClosedType
       DEF RebindCloses, AfterRebind, TypeOK, TokensAndWaiters, StartInv, OrderInv, RebindInv,
           ShutdownInv, Open
<1>20. CASE ShutdownBegins
  BY <1>20
     DEF ShutdownBegins, TypeOK, TokensAndWaiters, StartInv, OrderInv, RebindInv,
         ShutdownInv, Open
<1>21. CASE ShutdownCloses
  <2>1. /\ sockets' = Closed(shutdown.sock) /\ shutdown.sock \in 0 .. Len(sockets)
    BY <1>21 DEF ShutdownCloses, TypeOK
  <2> QED
    BY <1>21, <2>1, ClosedType
       DEF ShutdownCloses, TypeOK, TokensAndWaiters, StartInv, OrderInv, RebindInv,
           ShutdownInv, Open
<1>22. CASE ShutdownReturns
  BY <1>22
     DEF ShutdownReturns, TypeOK, TokensAndWaiters, StartInv, OrderInv, RebindInv,
         ShutdownInv, Open
<1>23. CASE ResetBegins
  BY <1>23
     DEF ResetBegins, TypeOK, TokensAndWaiters, StartInv, OrderInv, RebindInv,
         ShutdownInv, Open
<1>24. CASE ResetWipes
  BY <1>24
     DEF ResetWipes, TypeOK, TokensAndWaiters, StartInv, OrderInv, RebindInv,
         ShutdownInv, Open
<1>25. CASE ResetSwaps
  BY <1>25
     DEF ResetSwaps, TypeOK, TokensAndWaiters, StartInv, OrderInv, RebindInv,
         ShutdownInv, Open
<1>26. CASE ApplySwaps
  BY <1>26
     DEF ApplySwaps, TypeOK, TokensAndWaiters, StartInv, OrderInv, RebindInv,
         ShutdownInv, Open
<1>27. CASE Done
  BY <1>27
     DEF Done, TypeOK, TokensAndWaiters, StartInv, OrderInv, RebindInv,
         ShutdownInv, Open, vars
<1>28. CASE UNCHANGED vars
  BY <1>28
     DEF vars, TokensAndWaiters, StartInv, OrderInv, RebindInv, ShutdownInv, Open
<1> QED
  BY <1>1, <1>2, <1>3, <1>4, <1>5, <1>6, <1>7, <1>8, <1>9, <1>10, <1>11, <1>12,
     <1>13, <1>14, <1>15, <1>16, <1>17, <1>18, <1>19, <1>20, <1>21, <1>22, <1>23,
     <1>24, <1>25, <1>26, <1>27, <1>28
     DEF Next, LoopSteps, Handle, RebindSteps

-------------------------------------------------------------------------------
\* The initial state satisfies the invariant.
LEMMA InitIInv ==
  Init => IInv
<1> SUFFICES ASSUME Init PROVE IInv
  OBVIOUS
<1>1. TypeOK
  <2>1. /\ sockets \in Seq([addr : Addrs, open : BOOLEAN]) /\ Len(sockets) = 0
        /\ log \in Seq(Nat) /\ Len(log) = 0
    BY EmptySeq DEF Init
  <2>2. FirstAddr \in Addrs /\ LogSize \in Nat /\ MaxInflight \in Nat
    BY ServerAssumption
  <2>3. handler \in [Handlers -> HandlerStates]
    BY <2>1 DEF Init, HandlerStates, Resting
  <2>4. /\ udp = 0 /\ bindAddr = FirstAddr /\ started = FALSE /\ stopped = FALSE
        /\ loop = [at |-> "none", sock |-> 0] /\ inflight = 0 /\ wg = 0
        /\ rebind = NoRebind /\ shutdown = [at |-> "none", sock |-> 0]
        /\ managed = TRUE /\ control = "idle" /\ active = 0 /\ lastReset = 0
    BY DEF Init
  <2>5. /\ loop \in [at : {"none", "check", "conn", "read", "leave", "exited"},
                     sock : 0 .. Len(sockets)]
        /\ rebind \in [at : {"idle", "listen", "commit", "close"}, addr : Addrs,
                       old : 0 .. Len(sockets), new : 0 .. Len(sockets)]
        /\ shutdown \in [at : {"none", "close", "wait", "ok", "timeout"},
                         sock : 0 .. Len(sockets)]
    BY <2>1, <2>2, <2>4 DEF NoRebind
  <2>6. started \in BOOLEAN /\ stopped \in BOOLEAN /\ managed \in BOOLEAN
    BY Zenon DEF Init
  <2>7. /\ udp \in 0 .. Len(sockets) /\ bindAddr \in Addrs
        /\ inflight \in 0 .. MaxInflight /\ wg \in Nat
        /\ control \in {"idle", "rebind", "undo", "wipe", "swap"}
        /\ active \in Nat /\ lastReset \in Nat /\ Len(log) <= LogSize
    BY <2>1, <2>2, <2>4
  <2> QED
    BY <2>1, <2>3, <2>5, <2>6, <2>7 DEF TypeOK, HandlerStates
<1>2. Busy = {} /\ ~LoopLives
  BY DEF Init, Busy, Resting, LoopLives
<1>3. TokensAndWaiters
  BY <1>2, FS_EmptySet DEF Init, TokensAndWaiters
<1>4. StartInv /\ OrderInv /\ RebindInv /\ UdpOpen /\ NoLostSocket /\ ShutdownInv
  BY <1>2 DEF Init, StartInv, OrderInv, RebindInv, UdpOpen, NoLostSocket,
              ShutdownInv, Open, NoRebind
<1> QED
  BY <1>1, <1>3, <1>4 DEF IInv

\* The invariant is inductive: each conjunct is kept relative to others.
THEOREM Inductive ==
  Spec => []IInv
<1>1. IInv /\ [Next]_vars => IInv'
  BY TypeStep, TokensStep, StartStep, OrderStep, RebindStep, UdpStep, LostStep,
     ShutdownStep
     DEF IInv
<1> QED
  BY InitIInv, <1>1, PTL DEF Spec

\* The variables have their types: the indices of Server.udp, of the loop and of
\* Rebind are of sockets that were opened, and the WaitGroup is never negative.
THEOREM TypeCorrect ==
  Spec => []TypeOK
<1>1. IInv => TypeOK
  BY DEF IInv
<1> QED
  BY Inductive, <1>1, PTL

\* No token of the inflight channel is lost, and the WaitGroup counts the loop and
\* the handlers (server.go:305-338).
THEOREM TokensCounted ==
  Spec => []TokensAndWaiters
<1>1. IInv => TokensAndWaiters
  BY DEF IInv
<1> QED
  BY Inductive, <1>1, PTL

\* A server that readiness reports bound has an open socket, during a rebind too
\* (server.go:125, 213-228).
THEOREM BoundHasOpenSocket ==
  Spec => []BoundIsOpen
<1>1. IInv => BoundIsOpen
  BY DEF IInv, UdpOpen, BoundIsOpen, Bound
<1> QED
  BY Inductive, <1>1, PTL

\* Every open socket is the server's or a rebind's that will close or install it
\* (server.go:213-228).
THEOREM SocketsAreKept ==
  Spec => []NoLostSocket
<1>1. IInv => NoLostSocket
  BY DEF IInv
<1> QED
  BY Inductive, <1>1, PTL

\* Shutdown, after management has stopped, returns without an error only when the
\* loop, the handlers and the sockets are gone (server.go:231-256).
THEOREM ShutdownIsComplete ==
  Spec => []ShutdownLeavesNothing
<1>1. ASSUME IInv, shutdown.at = "ok", ~managed
      PROVE  ~LoopLives /\ Busy = {} /\ \A s \in DOMAIN sockets : ~Open(s)
  <2>1. wg = 0 /\ ~Open(udp) /\ rebind.at = "idle"
    BY <1>1 DEF IInv, ShutdownInv, OrderInv
  <2>2. ~LoopLives /\ Busy = {}
    BY <1>1, <2>1, Counting DEF IInv
  <2> QED
    BY <1>1, <2>1, <2>2 DEF IInv, NoLostSocket
<1>2. IInv => ShutdownLeavesNothing
  BY <1>1 DEF ShutdownLeavesNothing
<1> QED
  BY Inductive, <1>2, PTL

===============================================================================
