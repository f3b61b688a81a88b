-------------------------------- MODULE Limiter --------------------------------
(***************************************************************************)
(* internal/ntpserver/ratelimit.go: token buckets by client, shared by the *)
(* packet handlers. Time is in ticks of a length that makes the refill of  *)
(* a tick a whole number of tokens. A handler reads the clock before it    *)
(* gets the mutex, so that a bucket may be used with an older time than    *)
(* its last one. setRate is what a handler does with the rate of the       *)
(* snapshot that it loaded.                                                *)
(***************************************************************************)
EXTENDS Integers, FiniteSets, FiniteSetsExt

CONSTANTS
  Clients,      \* bucket keys
  Callers,      \* goroutines that call allow
  Rates,        \* tokens per tick that snapshots ask for; the burst is twice that
  MinIdle,      \* the 30 seconds after which an idle bucket goes
  MaxBuckets,   \* maxQueryBuckets
  MaxLag,       \* bound: ticks from reading the clock to getting the mutex
  MaxTicks      \* bound: ticks

ASSUME LimiterAssumption ==
  /\ Rates \subseteq Nat \ {0}
  /\ \E r \in Rates : \A q \in Rates : r >= q
  /\ {MinIdle, MaxLag, MaxTicks} \subseteq Nat
  /\ MaxBuckets \in Nat \ {0}

VARIABLES
  clock,
  rate, burst,   \* queryLimiter.rate and burst
  buckets,       \* queryLimiter.buckets: client -> [tokens, last]
  call,          \* caller -> << >>, or <<now>> for the time it read
  kept,          \* history: the buckets, had none been deleted as idle
  allowance      \* history: what each client may still get (see AdmittedWithinRate);
                 \* a client whose bucket a full table gave up starts over

limiterVars == <<clock, rate, burst, buckets, call, kept, allowance>>

Without(bs, gone) == [k \in DOMAIN bs \ gone |-> bs[k]]

Put(bs, k, b) == [j \in DOMAIN bs \cup {k} |-> IF j = k THEN b ELSE bs[j]]

\* (Mutant) a quarter of a burst's refill, without the floor.
MutIdleFor == (burst \div rate) \div 4

\* evictIdleLocked: at least the time in which four bursts refill.
IdleFor == Max({MinIdle, (4 * burst) \div rate})

Idle(bs, now) == {k \in DOMAIN bs : now - bs[k].last > IdleFor}

\* (Mutant) the bucket used last goes first.
MutOldest(bs) == {k \in DOMAIN bs : \A j \in DOMAIN bs : bs[k].last >= bs[j].last}

\* evictOldestLocked: one of the buckets used longest ago.
Oldest(bs) == {k \in DOMAIN bs : \A j \in DOMAIN bs : bs[k].last <= bs[j].last}

\* The bucket that allow works on: a fresh one starts full.
Found(bs, k, now) == IF k \in DOMAIN bs THEN bs[k] ELSE [tokens |-> burst, last |-> now]

\* (Mutant) a late clock reading sets the bucket's time back.
MutRefilled(b, now) ==
  IF now > b.last
  THEN [tokens |-> Min({burst, b.tokens + (now - b.last) * rate}), last |-> now]
  ELSE [b EXCEPT !.last = now]

\* Refilled for the time that passed, if the clock was read later than before.
Refilled(b, now) ==
  IF now > b.last
  THEN [tokens |-> Min({burst, b.tokens + (now - b.last) * rate}), last |-> now]
  ELSE b

Taken(b) == IF b.tokens < 1 THEN b ELSE [b EXCEPT !.tokens = @ - 1]

TopRate == Max(Rates)

\* The largest burst, and the refill of the time a clock reading can be late.
TopAllowance == (2 + MaxLag) * TopRate

\* An admission is paid for; a debt is remembered as -1.
Spend(left, k) == [left EXCEPT ![k] = Max({@ - 1, -1})]

-------------------------------------------------------------------------------
\* now := l.now(), before the mutex.
ReadClock(h) ==
  /\ call[h] = << >>
  /\ call' = [call EXCEPT ![h] = <<clock>>]
  /\ UNCHANGED <<clock, rate, burst, buckets, kept, allowance>>

\* allow, with the mutex held.
allow(h, k) ==
  /\ call[h] # << >>
  /\ LET now  == call[h][1]
         rest == Without(buckets, Idle(buckets, now))
         gone == IF k \notin DOMAIN rest /\ Cardinality(DOMAIN rest) >= MaxBuckets
                 THEN {{o} : o \in Oldest(rest)} ELSE {{}}
         ready == Refilled(Found(rest, k, now), now)
     IN  \E g \in gone :
           LET left == [j \in Clients |-> IF j \in g THEN TopAllowance ELSE allowance[j]]
           IN  /\ buckets' = Put(Without(rest, g), k, Taken(ready))
               /\ kept' = Put(Without(kept, g), k, Taken(Refilled(Found(kept, k, now), now)))
               /\ allowance' = IF ready.tokens >= 1 THEN Spend(left, k) ELSE left
  /\ call' = [call EXCEPT ![h] = << >>]
  /\ UNCHANGED <<clock, rate, burst>>

setRate(r) ==
  /\ rate' = r
  /\ burst' = 2 * r
  /\ UNCHANGED <<clock, buckets, call, kept, allowance>>

\* Time passes, but no handler waits for the mutex longer than MaxLag.
ClockTicks ==
  /\ clock < MaxTicks
  /\ \A h \in Callers : call[h] # << >> => clock - call[h][1] < MaxLag
  /\ clock' = clock + 1
  /\ allowance' = [k \in Clients |-> Min({TopAllowance, allowance[k] + TopRate})]
  /\ UNCHANGED <<rate, burst, buckets, call, kept>>

LimiterInit ==
  /\ clock = 0
  /\ rate \in Rates
  /\ burst = 2 * rate
  /\ buckets = << >>
  /\ call = [h \in Callers |-> << >>]
  /\ kept = << >>
  /\ allowance = [k \in Clients |-> TopAllowance]

LimiterNext ==
  \/ \E h \in Callers : ReadClock(h) \/ \E k \in Clients : allow(h, k)
  \/ \E r \in Rates : setRate(r)
  \/ ClockTicks

LimiterSpec == LimiterInit /\ [][LimiterNext]_limiterVars

-------------------------------------------------------------------------------
\* The table stays within its limit and a bucket never goes below zero.
TypeOK ==
  /\ clock \in Nat
  /\ rate \in Rates /\ burst \in Nat
  /\ DOMAIN buckets \subseteq Clients
  /\ Cardinality(DOMAIN buckets) <= MaxBuckets
  /\ \A k \in DOMAIN buckets : buckets[k] \in [tokens : Nat, last : 0 .. clock]
  /\ \A h \in Callers : call[h] = << >> \/ call[h][1] \in 0 .. clock

\* Deleting idle buckets cannot be noticed: each bucket is what it would be had
\* it never been deleted as idle, across rate changes and late clock readings
\* (ratelimit.go:88-104).
IdleEvictionUnseen == \A k \in DOMAIN buckets : buckets[k] = kept[k]

\* In any period in which a full table did not give its bucket up, a client gets
\* no more than the largest burst, the refill of the period and that of the time a
\* clock reading can be late, in whatever order readings reach the mutex and
\* through every rate change (ratelimit.go:54-86): an allowance with that burst and
\* that refill is never overdrawn.
AdmittedWithinRate == \A k \in Clients : allowance[k] >= 0

\* Whoever loses its bucket, as idle or to a full table, was quiet at least as
\* long as everyone who keeps one, but for the caller, who is not quiet
\* (ratelimit.go:64-70, 106-120).
QuietestForgotten ==
  [][\A k \in DOMAIN buckets \ DOMAIN buckets' :
       \A j \in DOMAIN buckets \cap DOMAIN buckets' :
         buckets'[j] = buckets[j] => buckets[k].last <= buckets[j].last]_limiterVars
===============================================================================
