--------------------------- MODULE PacketTimeProofs ---------------------------
(***************************************************************************)
(* Proofs about the two parts of the packet path that read a clock.        *)
(*                                                                         *)
(* Limiter, for any clients, callers and rates, any size of the table and  *)
(* any length of time: deleting idle buckets is unseen, and no client gets *)
(* more than its allowance, if no caller waits for the mutex as long as a  *)
(* bucket must be idle to go (ShortWait).                                  *)
(*                                                                         *)
(* ViewClock, for any views, documents, handlers and length of time: the   *)
(* times of a reply are those of one clock, a rate view does what          *)
(* VirtualClock says, and a document that validates is fit to serve.       *)
(***************************************************************************)
EXTENDS Limiter, ViewClock, FiniteSetTheorems, SequenceTheorems, TLAPS

----------------------------------------------------------------------------
(* The limiters.                                                           *)

\* The time a bucket must be idle to go: four refills of a burst, which is twice
\* the rate, and the floor.
IdleTime == IF MinIdle >= 8 THEN MinIdle ELSE 8

ShortWait == MaxLag < IdleTime

Bucket == [tokens : Nat, last : Nat]

\* The larger of two.
LEMMA MaxPair ==
  ASSUME NEW a \in Int, NEW b \in Int
  PROVE  Max({a, b}) = IF a >= b THEN a ELSE b
<1>1. \A x \in {a, b} : (\A y \in {a, b} : x >= y) => x = IF a >= b THEN a ELSE b
  OBVIOUS
<1>2. \E x \in {a, b} : \A y \in {a, b} : x >= y
  OBVIOUS
<1> QED
  BY <1>1, <1>2 DEF Max

(* The smaller of two.                                                     *)
LEMMA MinPair ==
  ASSUME NEW a \in Int, NEW b \in Int
  PROVE  Min({a, b}) = IF a <= b THEN a ELSE b
<1>1. \A x \in {a, b} : (\A y \in {a, b} : x <= y) => x = IF a <= b THEN a ELSE b
  OBVIOUS
<1>2. \E x \in {a, b} : \A y \in {a, b} : x <= y
  OBVIOUS
<1> QED
  BY <1>1, <1>2 DEF Min

\* The largest rate is one of the rates.
LEMMA TopIs ==
  /\ TopRate \in Nat \ {0}
  /\ \A r \in Rates : r \in Nat \ {0} /\ r <= TopRate
<1>1. TopRate \in Rates /\ \A q \in Rates : TopRate >= q
  BY LimiterAssumption DEF TopRate, Max
<1> QED
  BY <1>1, LimiterAssumption

\* More time at a higher rate refills more.
LEMMA Refills ==
  ASSUME NEW n \in Nat, NEW m \in Nat, NEW r \in Nat, NEW t \in Nat, r <= t
  PROVE  /\ n * r \in Nat /\ n * t \in Nat /\ n * r <= n * t
         /\ (n + m) * t = n * t + m * t
         /\ n <= m => n * t <= m * t
<1>1. PICK d \in Nat : t = r + d
  BY SMT
<1>2. n * d \in Nat /\ n * t = n * r + n * d /\ n * r \in Nat
  BY <1>1
<1>3. (n + m) * t = n * t + m * t
  OBVIOUS
<1>4. ASSUME n <= m
      PROVE  n * t <= m * t
  <2>1. PICK e \in Nat : m = n + e
    BY <1>4
  <2>2. m * t = n * t + e * t /\ e * t \in Nat
    BY <2>1
  <2> QED
    BY <2>2
<1> QED
  BY <1>2, <1>3, <1>4

\* evictIdleLocked's time is IdleTime at every rate.
LEMMA IdleForIs ==
  ASSUME rate \in Nat \ {0}, burst = 2 * rate
  PROVE  IdleFor = IdleTime
<1>1. (4 * burst) \div rate = 8
  <2> DEFINE q == (4 * burst) \div rate
             m == (4 * burst) % rate
  <2>1. 4 * burst = 8 * rate
    OBVIOUS
  <2>2. q \in Int /\ m \in 0 .. rate - 1 /\ 8 * rate = rate * q + m
    BY <2>1
  <2> HIDE DEF q, m
  <2>3. q <= 8
    BY <2>2
  <2>4. q >= 8
    BY <2>2
  <2> QED
    BY <2>2, <2>3, <2>4 DEF q
<1>2. MinIdle \in Int
  BY LimiterAssumption
<1> QED
  BY <1>1, <1>2, MaxPair DEF IdleFor, IdleTime

\* What a refill makes of a bucket.
LEMMA RefillFacts ==
  ASSUME NEW b \in Bucket, NEW n \in Nat, rate \in Nat \ {0}, burst = 2 * rate
  PROVE  /\ Refilled(b, n) \in Bucket
         /\ n <= b.last => Refilled(b, n) = b
         /\ n > b.last =>
              /\ Refilled(b, n).last = n
              /\ Refilled(b, n).tokens <= burst
              /\ Refilled(b, n).tokens <= b.tokens + (n - b.last) * rate
         /\ n - b.last >= 2 => Refilled(b, n) = [tokens |-> burst, last |-> n]
<1>1. CASE n <= b.last
  BY <1>1 DEF Refilled, Bucket
<1>2. CASE n > b.last
  <2> DEFINE d == n - b.last
             x == b.tokens + d * rate
             y == Min({burst, x})
  <2>1. b.tokens \in Nat /\ b.last \in Nat
    BY DEF Bucket
  <2>2. d \in Nat /\ d >= 1
    BY <1>2, <2>1
  <2>3. d * rate \in Nat
    BY <2>2, Refills
  <2>4. x \in Nat /\ burst \in Nat
    BY <2>1, <2>3
  <2> HIDE DEF d
  <2>5. y = IF burst <= x THEN burst ELSE x
    BY <2>4, MinPair
  <2>6. Refilled(b, n) = [tokens |-> y, last |-> n]
    BY <1>2 DEF Refilled, d
  <2>7. d >= 2 => burst <= x
    <3>1. d >= 2 => 2 * rate <= d * rate
      BY <2>2, Refills
    <3> QED
      BY <2>1, <2>3, <3>1
  <2> HIDE DEF x
  <2>8. d >= 2 => y = burst
    BY <2>5, <2>7
  <2>9. y \in Nat /\ y <= burst /\ y <= x
    BY <2>4, <2>5
  <2> HIDE DEF y
  <2> QED
    BY <1>2, <2>1, <2>6, <2>8, <2>9 DEF x, d, Bucket
<1> QED
  BY <1>1, <1>2 DEF Bucket

\* What taking a token leaves.
LEMMA TakenFacts ==
  ASSUME NEW b \in Bucket
  PROVE  /\ Taken(b) \in Bucket /\ Taken(b).last = b.last
         /\ Taken(b).tokens = IF b.tokens >= 1 THEN b.tokens - 1 ELSE b.tokens
  BY DEF Taken, Bucket

-------------------------------------------------------------------------------
\* What each variable holds.
Typed ==
  /\ clock \in Nat
  /\ rate \in Rates /\ burst = 2 * rate
  /\ DOMAIN buckets \subseteq Clients /\ DOMAIN kept \subseteq Clients
  /\ \A k \in DOMAIN buckets : buckets[k] \in Bucket
  /\ \A k \in DOMAIN kept : kept[k] \in Bucket
  /\ call \in [Callers -> Seq(Nat)]
  /\ allowance \in [Clients -> Int]

\* The table is finite and within its limit, no bucket is of a time to come, and a
\* full burst is the most that is in one.
TableOK ==
  /\ IsFiniteSet(DOMAIN buckets) /\ Cardinality(DOMAIN buckets) <= MaxBuckets
  /\ \A k \in DOMAIN buckets :
       buckets[k].last <= clock /\ buckets[k].tokens <= 2 * TopRate

\* No handler waits for the mutex longer than MaxLag.
LagOK ==
  \A h \in Callers :
    call[h] # << >> => call[h][1] <= clock /\ clock - call[h][1] <= MaxLag

\* A bucket that is only remembered has been idle for long.
KeptIdle ==
  /\ DOMAIN buckets \subseteq DOMAIN kept
  /\ \A k \in DOMAIN kept \ DOMAIN buckets : clock - kept[k].last > IdleTime

\* What a client's bucket and the refill until now can still give it, and no more
\* than a burst and the refill of a late reading.
Owed(k) ==
  IF k \in DOMAIN buckets
  THEN buckets[k].tokens + (clock - buckets[k].last) * TopRate
  ELSE TopAllowance

AllowanceCovers ==
  \A k \in Clients :
    /\ allowance[k] <= TopAllowance
    /\ allowance[k] >= TopAllowance \/ allowance[k] >= Owed(k)

\* What a call of allow works with: the buckets that are not idle at the time it read.
Rest(n) == {j \in DOMAIN buckets : n - buckets[j].last <= IdleTime}

\* The bucket of k, or a full one.
Has(bs, k, n) == IF k \in DOMAIN bs THEN bs[k] ELSE [tokens |-> burst, last |-> n]

\* One call of allow: what it read, whom a full table gives up, and what it changes.
Allows(k, n, g) ==
  LET rest  == Rest(n)
      ready == Refilled(IF k \in rest THEN buckets[k] ELSE [tokens |-> burst, last |-> n], n)
  IN  /\ \/ g = {} /\ (k \in rest \/ ~(Cardinality(rest) >= MaxBuckets))
         \/ \E o \in rest : /\ g = {o} /\ k \notin rest
                            /\ \A j \in rest : buckets[o].last <= buckets[j].last
      /\ DOMAIN buckets' = (rest \ g) \cup {k}
      /\ \A j \in rest \ g : j # k => buckets'[j] = buckets[j]
      /\ buckets'[k] = Taken(ready)
      /\ DOMAIN kept' = (DOMAIN kept \ g) \cup {k}
      /\ \A j \in DOMAIN kept \ g : j # k => kept'[j] = kept[j]
      /\ kept'[k] = Taken(Refilled(Has(kept, k, n), n))
      /\ allowance' \in [Clients -> Int]
      /\ \A j \in Clients :
           LET left == IF j \in g THEN TopAllowance ELSE allowance[j]
           IN  allowance'[j] = IF j = k /\ ready.tokens >= 1
                               THEN IF left - 1 >= -1 THEN left - 1 ELSE -1
                               ELSE left

\* A call of allow, with what it reads resolved.
LEMMA AllowFacts ==
  ASSUME Typed, LagOK, NEW h \in Callers, NEW k \in Clients, allow(h, k)
  PROVE  /\ \E n \in Nat, g \in SUBSET Clients :
              n <= clock /\ clock - n <= MaxLag /\ Allows(k, n, g)
         /\ UNCHANGED <<clock, rate, burst>>
         /\ call' = [call EXCEPT ![h] = << >>]
<1> DEFINE n == call[h][1]
           rest == Without(buckets, Idle(buckets, n))
           gone == IF k \notin DOMAIN rest /\ Cardinality(DOMAIN rest) >= MaxBuckets
                   THEN {{o} : o \in Oldest(rest)} ELSE {{}}
           ready == Refilled(Found(rest, k, n), n)
<1>1. /\ call[h] # << >> /\ UNCHANGED <<clock, rate, burst>>
      /\ call' = [call EXCEPT ![h] = << >>]
  BY DEF allow
<1>2. PICK g \in gone :
        LET left == [j \in Clients |-> IF j \in g THEN TopAllowance ELSE allowance[j]]
        IN  /\ buckets' = Put(Without(rest, g), k, Taken(ready))
            /\ kept' = Put(Without(kept, g), k, Taken(Refilled(Found(kept, k, n), n)))
            /\ allowance' = IF ready.tokens >= 1 THEN Spend(left, k) ELSE left
  BY DEF allow
<1>3. n \in Nat /\ n <= clock /\ clock - n <= MaxLag
  <2>1. call[h] \in Seq(Nat)
    BY DEF Typed
  <2> QED
    BY <1>1, <2>1 DEF LagOK
<1>4. rate \in Nat \ {0} /\ burst = 2 * rate /\ TopAllowance \in Int
  BY TopIs, LimiterAssumption DEF Typed, TopAllowance
<1> HIDE DEF n
<1>5. Idle(buckets, n) = DOMAIN buckets \ Rest(n)
  <2>1. \A j \in DOMAIN buckets : buckets[j].last \in Nat
    BY DEF Typed, Bucket
  <2>2. IdleTime \in Nat
    BY LimiterAssumption DEF IdleTime
  <2> QED
    BY <1>3, <1>4, <2>1, <2>2, IdleForIs DEF Idle, Rest
<1>6. DOMAIN rest = Rest(n) /\ \A j \in Rest(n) : rest[j] = buckets[j]
  BY <1>5 DEF Without, Rest
<1>7. Found(rest, k, n) = IF k \in Rest(n) THEN buckets[k] ELSE [tokens |-> burst, last |-> n]
  BY <1>6 DEF Found
<1>8. Found(kept, k, n) = Has(kept, k, n)
  BY DEF Found, Has
<1> HIDE DEF rest
<1>9. \/ g = {} /\ (k \in Rest(n) \/ ~(Cardinality(Rest(n)) >= MaxBuckets))
      \/ \E o \in Rest(n) : /\ g = {o} /\ k \notin Rest(n)
                            /\ \A j \in Rest(n) : buckets[o].last <= buckets[j].last
  <2>1. CASE k \notin Rest(n) /\ Cardinality(Rest(n)) >= MaxBuckets
    BY <1>2, <1>6, <2>1 DEF Oldest
  <2>2. CASE ~(k \notin Rest(n) /\ Cardinality(Rest(n)) >= MaxBuckets)
    <3>1. g = {}
      BY <1>2, <1>6, <2>2
    <3> QED
      BY <2>2, <3>1
  <2> QED
    BY <2>1, <2>2
<1>10. g \in SUBSET Clients
  BY <1>9 DEF Rest, Typed
<1> HIDE DEF gone
<1> DEFINE taken == Taken(ready)
           ideal == Taken(Refilled(Found(kept, k, n), n))
<1>11. buckets' = Put(Without(rest, g), k, taken) /\ kept' = Put(Without(kept, g), k, ideal)
  BY <1>2
<1> DEFINE left == [j \in Clients |-> IF j \in g THEN TopAllowance ELSE allowance[j]]
<1>12. allowance' = IF ready.tokens >= 1 THEN Spend(left, k) ELSE left
  BY <1>2
<1>13. taken = Taken(Refilled(IF k \in Rest(n) THEN buckets[k]
                            ELSE [tokens |-> burst, last |-> n], n))
  BY <1>7
<1>14. ideal = Taken(Refilled(Has(kept, k, n), n))
  BY <1>8
<1>15. ready = Refilled(IF k \in Rest(n) THEN buckets[k] ELSE [tokens |-> burst, last |-> n], n)
  BY <1>7
<1> HIDE DEF taken, ideal, ready
<1>16. /\ DOMAIN buckets' = (Rest(n) \ g) \cup {k}
       /\ \A j \in Rest(n) \ g : j # k => buckets'[j] = buckets[j]
       /\ buckets'[k] = taken
  <2> DEFINE f == Put(Without(rest, g), k, taken)
  <2>1. /\ DOMAIN f = (DOMAIN rest \ g) \cup {k}
        /\ \A j \in DOMAIN rest \ g : j # k => f[j] = rest[j]
        /\ f[k] = taken
    <3> DEFINE w == Without(rest, g)
    <3>1. DOMAIN w = DOMAIN rest \ g /\ \A j \in DOMAIN rest \ g : w[j] = rest[j]
      BY DEF Without
    <3> HIDE DEF w
    <3> QED
      BY <3>1 DEF Put, w
  <2>2. buckets' = f
    BY <1>11
  <2> HIDE DEF f
  <2> QED
    BY <1>6, <2>1, <2>2
<1>17. /\ DOMAIN kept' = (DOMAIN kept \ g) \cup {k}
       /\ \A j \in DOMAIN kept \ g : j # k => kept'[j] = kept[j]
       /\ kept'[k] = ideal
  <2> DEFINE f == Put(Without(kept, g), k, ideal)
  <2>1. /\ DOMAIN f = (DOMAIN kept \ g) \cup {k}
        /\ \A j \in DOMAIN kept \ g : j # k => f[j] = kept[j]
        /\ f[k] = ideal
    <3> DEFINE w == Without(kept, g)
    <3>1. DOMAIN w = DOMAIN kept \ g /\ \A j \in DOMAIN kept \ g : w[j] = kept[j]
      BY DEF Without
    <3> HIDE DEF w
    <3> QED
      BY <3>1 DEF Put, w
  <2>2. kept' = f
    BY <1>11
  <2> HIDE DEF f
  <2> QED
    BY <2>1, <2>2
<1>18. left \in [Clients -> Int] /\ \A j \in Clients :
         left[j] = IF j \in g THEN TopAllowance ELSE allowance[j]
  BY <1>4 DEF Typed
<1> HIDE DEF left
<1>19. Spend(left, k) = [left EXCEPT ![k] = IF left[k] - 1 >= -1 THEN left[k] - 1 ELSE -1]
  <2>1. left[k] - 1 \in Int
    BY <1>18
  <2>2. Max({left[k] - 1, -1}) = IF left[k] - 1 >= -1 THEN left[k] - 1 ELSE -1
    BY <2>1, MaxPair
  <2> QED
    BY <2>2 DEF Spend
<1>20. /\ allowance' \in [Clients -> Int]
       /\ \A j \in Clients :
            allowance'[j] = IF j = k /\ ready.tokens >= 1
                            THEN IF left[j] - 1 >= -1 THEN left[j] - 1 ELSE -1
                            ELSE left[j]
  BY <1>12, <1>18, <1>19
<1>21. Allows(k, n, g)
  <2>1. \A j \in Clients :
          LET l == IF j \in g THEN TopAllowance ELSE allowance[j]
          IN  allowance'[j] = IF j = k /\ ready.tokens >= 1
                              THEN IF l - 1 >= -1 THEN l - 1 ELSE -1
                              ELSE l
    BY <1>18, <1>20
  <2> QED
    BY <1>9, <1>13, <1>14, <1>15, <1>16, <1>17, <1>20, <2>1 DEF Allows
<1> QED
  BY <1>1, <1>3, <1>10, <1>21

\* The bucket that a call works on, refilled.
Ready(k, n) ==
  Refilled(IF k \in Rest(n) THEN buckets[k] ELSE [tokens |-> burst, last |-> n], n)

(* It is a bucket, filled up to a time between the call's and now.         *)
LEMMA ReadyFacts ==
  ASSUME Typed, TableOK, NEW k \in Clients, NEW n \in Nat, n <= clock
  PROVE  /\ Ready(k, n) \in Bucket
         /\ Ready(k, n).last <= clock /\ Ready(k, n).last >= n
         /\ Ready(k, n).tokens <= 2 * TopRate
<1> DEFINE b == IF k \in Rest(n) THEN buckets[k] ELSE [tokens |-> burst, last |-> n]
<1>1. rate \in Nat \ {0} /\ burst = 2 * rate /\ TopRate \in Nat /\ rate <= TopRate
      /\ clock \in Nat
  BY TopIs DEF Typed
<1>2. b \in Bucket /\ b.last <= clock /\ b.tokens <= 2 * TopRate
  <2>1. CASE k \in Rest(n)
    BY <2>1 DEF Rest, Typed, TableOK
  <2>2. CASE k \notin Rest(n)
    BY <1>1, <2>2 DEF Bucket
  <2> QED
    BY <2>1, <2>2
<1>3. Ready(k, n) = Refilled(b, n)
  BY DEF Ready
<1> HIDE DEF b
<1>4. CASE n <= b.last
  BY <1>1, <1>2, <1>3, <1>4, RefillFacts
<1>5. CASE n > b.last
  <2>1. /\ Ready(k, n) \in Bucket /\ Ready(k, n).last = n /\ Ready(k, n).tokens <= burst
    BY <1>1, <1>2, <1>3, <1>5, RefillFacts
  <2> QED
    BY <1>1, <2>1 DEF Bucket
<1> QED
  BY <1>2, <1>4, <1>5 DEF Bucket

\* The call itself is over, and every bucket is of a time that has been.
LEMMA AllowTyped ==
  ASSUME Typed, TableOK, LagOK, NEW h \in Callers, NEW k \in Clients, allow(h, k)
  PROVE  Typed' /\ TableOK' /\ LagOK'
<1>1. PICK n \in Nat, g \in SUBSET Clients :
        n <= clock /\ clock - n <= MaxLag /\ Allows(k, n, g)
  BY AllowFacts
<1>2. UNCHANGED <<clock, rate, burst>> /\ call' = [call EXCEPT ![h] = << >>]
  BY AllowFacts
<1>3. LagOK' /\ call' \in [Callers -> Seq(Nat)]
  <2>1. << >> \in Seq(Nat)
    OBVIOUS
  <2> QED
    BY <1>2, <2>1 DEF LagOK, Typed
<1> DEFINE ready == Ready(k, n)
           last  == Refilled(Has(kept, k, n), n)
<1>4. ready \in Bucket /\ ready.last <= clock /\ ready.tokens <= 2 * TopRate
  BY <1>1, ReadyFacts
<1>5. last \in Bucket
  <2>1. rate \in Nat \ {0} /\ burst = 2 * rate
    BY TopIs DEF Typed
  <2>2. Has(kept, k, n) \in Bucket
    BY <1>1, <2>1 DEF Has, Typed, Bucket
  <2> QED
    BY <1>1, <2>1, <2>2, RefillFacts
<1> DEFINE rest == Rest(n)
<1>6. /\ DOMAIN buckets' = (rest \ g) \cup {k}
      /\ \A j \in rest \ g : j # k => buckets'[j] = buckets[j]
      /\ buckets'[k] = Taken(ready)
      /\ DOMAIN kept' = (DOMAIN kept \ g) \cup {k}
      /\ \A j \in DOMAIN kept \ g : j # k => kept'[j] = kept[j]
      /\ kept'[k] = Taken(last)
      /\ allowance' \in [Clients -> Int]
  BY <1>1 DEF Allows, Ready
<1>7. \/ g = {} /\ (k \in rest \/ ~(Cardinality(rest) >= MaxBuckets))
      \/ \E o \in rest : g = {o} /\ k \notin rest
  BY <1>1 DEF Allows
<1>8. rest \in SUBSET DOMAIN buckets
  BY DEF Rest
<1> HIDE DEF rest, ready, last
<1>9. Taken(ready) \in Bucket /\ Taken(ready).last <= clock /\ Taken(ready).tokens <= 2 * TopRate
  <2>1. TopRate \in Nat
    BY TopIs
  <2> QED
    BY <1>4, <2>1, TakenFacts DEF Bucket
<1>10. Taken(last) \in Bucket
  BY <1>5, TakenFacts
<1>11. Typed'
  BY <1>2, <1>3, <1>6, <1>8, <1>9, <1>10 DEF Typed
<1>12. IsFiniteSet(rest) /\ Cardinality(rest) \in Nat /\ Cardinality(rest) <= MaxBuckets
  <2>1. /\ IsFiniteSet(DOMAIN buckets) /\ Cardinality(DOMAIN buckets) <= MaxBuckets
    BY DEF TableOK
  <2>2. /\ IsFiniteSet(rest) /\ Cardinality(rest) <= Cardinality(DOMAIN buckets)
    BY <1>8, <2>1, FS_Subset
  <2>3. Cardinality(rest) \in Nat /\ Cardinality(DOMAIN buckets) \in Nat
    BY <2>1, <2>2, FS_CardinalityType
  <2> QED
    BY <2>1, <2>2, <2>3, LimiterAssumption
<1>13. IsFiniteSet(DOMAIN buckets') /\ Cardinality(DOMAIN buckets') <= MaxBuckets
  <2> DEFINE D == rest \ g
  <2>1. IsFiniteSet(D) /\ Cardinality(D) \in Nat
        /\ Cardinality(D) <= Cardinality(rest)
    BY <1>12, FS_Subset, FS_CardinalityType
  <2>2. CASE k \in rest
    <3>1. D \cup {k} = rest
      BY <1>7, <2>2
    <3> QED
      BY <1>6, <1>12, <3>1
  <2>3. CASE g = {} /\ ~(Cardinality(rest) >= MaxBuckets) /\ k \notin rest
    <3>1. D = rest
      BY <2>3
    <3>2. /\ IsFiniteSet(D \cup {k})
          /\ Cardinality(D \cup {k}) = Cardinality(rest) + 1
      BY <1>12, <2>3, <3>1, FS_AddElement
    <3> QED
      BY <1>6, <1>12, <2>3, <3>2, LimiterAssumption
  <2>4. ASSUME NEW o \in rest, g = {o}, k \notin rest
        PROVE  IsFiniteSet(DOMAIN buckets') /\ Cardinality(DOMAIN buckets') <= MaxBuckets
    <3>1. Cardinality(D) = Cardinality(rest) - 1
      BY <1>12, <2>4, FS_RemoveElement
    <3>2. /\ IsFiniteSet(D \cup {k})
          /\ Cardinality(D \cup {k}) = Cardinality(D) + 1
      BY <2>1, <2>4, FS_AddElement
    <3> QED
      BY <1>6, <1>12, <3>1, <3>2
  <2> QED
    BY <1>7, <2>2, <2>3, <2>4
<1>14. TableOK'
  BY <1>2, <1>6, <1>8, <1>9, <1>13 DEF TableOK
<1> QED
  BY <1>3, <1>11, <1>14

-------------------------------------------------------------------------------
\* A bucket that went is full again when its client comes back, so that it makes no
\* difference that it went.
LEMMA AllowKept ==
  ASSUME ShortWait, Typed, TableOK, LagOK, KeptIdle, IdleEvictionUnseen,
         NEW h \in Callers, NEW k \in Clients, allow(h, k)
  PROVE  KeptIdle' /\ IdleEvictionUnseen'
<1>1. PICK n \in Nat, g \in SUBSET Clients :
        n <= clock /\ clock - n <= MaxLag /\ Allows(k, n, g)
  BY AllowFacts
<1>2. UNCHANGED <<clock, rate, burst>> /\ clock \in Nat
  BY AllowFacts DEF Typed
<1>3. MaxLag \in Nat /\ IdleTime \in Nat /\ IdleTime >= 8 /\ MaxLag < IdleTime
  BY LimiterAssumption DEF ShortWait, IdleTime
<1> DEFINE rest == Rest(n)
           has  == Has(kept, k, n)
<1>4. rest \subseteq DOMAIN buckets /\ DOMAIN buckets \subseteq DOMAIN kept
  BY DEF Rest, KeptIdle
<1>5. \A j \in DOMAIN kept : kept[j] \in Bucket
  BY DEF Typed
<1>6. \A j \in DOMAIN kept \ rest : clock - kept[j].last > IdleTime
  <2> SUFFICES ASSUME NEW j \in DOMAIN kept \ rest
               PROVE  clock - kept[j].last > IdleTime
    OBVIOUS
  <2>1. CASE j \in DOMAIN buckets
    <3>1. ~(n - buckets[j].last <= IdleTime) /\ buckets[j] = kept[j]
      BY <2>1 DEF Rest, IdleEvictionUnseen
    <3> QED
      BY <1>1, <1>2, <1>3, <1>5, <3>1 DEF Bucket
  <2>2. CASE j \notin DOMAIN buckets
    BY <2>2 DEF KeptIdle
  <2> QED
    BY <2>1, <2>2
<1>7. Refilled(has, n) = Ready(k, n)
  <2>1. rate \in Nat \ {0} /\ burst = 2 * rate
    BY TopIs DEF Typed
  <2> DEFINE full == [tokens |-> burst, last |-> n]
  <2>2. full \in Bucket /\ full.last = n
    BY <2>1 DEF Bucket
  <2>3. CASE k \in rest
    BY <1>4, <2>3 DEF Has, Ready, IdleEvictionUnseen
  <2>4. CASE k \in DOMAIN kept \ rest
    <3>1. clock - kept[k].last > IdleTime /\ kept[k].last \in Nat
      BY <1>5, <1>6, <2>4 DEF Bucket
    <3>2. n - kept[k].last >= 2
      BY <1>1, <1>2, <1>3, <3>1
    <3>3. Refilled(kept[k], n) = full
      BY <1>5, <2>1, <2>4, <3>2, RefillFacts
    <3>4. Refilled(full, n) = full
      BY <2>1, <2>2, RefillFacts
    <3> QED
      BY <2>4, <3>3, <3>4 DEF Has, Ready
  <2>5. CASE k \notin DOMAIN kept
    BY <1>4, <2>5 DEF Has, Ready
  <2> QED
    BY <2>3, <2>4, <2>5
<1>8. /\ DOMAIN buckets' = (rest \ g) \cup {k}
      /\ \A j \in rest \ g : j # k => buckets'[j] = buckets[j]
      /\ buckets'[k] = Taken(Ready(k, n))
      /\ DOMAIN kept' = (DOMAIN kept \ g) \cup {k}
      /\ \A j \in DOMAIN kept \ g : j # k => kept'[j] = kept[j]
      /\ kept'[k] = Taken(Refilled(has, n))
  BY <1>1 DEF Allows, Ready
<1> HIDE DEF rest, has
<1>9. IdleEvictionUnseen'
  BY <1>4, <1>7, <1>8 DEF IdleEvictionUnseen
<1>10. KeptIdle'
  <2>1. DOMAIN buckets' \subseteq DOMAIN kept'
    BY <1>4, <1>8
  <2>2. ASSUME NEW j \in DOMAIN kept' \ DOMAIN buckets'
        PROVE  j # k /\ j \in DOMAIN kept \ rest /\ kept'[j] = kept[j]
    BY <1>8, <2>2
  <2> QED
    BY <1>2, <1>6, <2>1, <2>2 DEF KeptIdle
<1> QED
  BY <1>9, <1>10

\* What the bucket can give after a late reading is in what it could give before.
LEMMA ReadyOwed ==
  ASSUME ShortWait, Typed, TableOK, NEW k \in Clients, NEW n \in Nat,
         n <= clock, clock - n <= MaxLag
  PROVE  LET r == Ready(k, n)
             owed == r.tokens + (clock - r.last) * TopRate
         IN  /\ owed \in Nat /\ owed <= TopAllowance
             /\ k \in Rest(n) => owed <= Owed(k)
             /\ Owed(k) \in Nat
             /\ k \notin Rest(n) => Owed(k) >= TopAllowance
<1> DEFINE r == Ready(k, n)
           T == TopRate
           late == clock - r.last
<1>1. r \in Bucket /\ r.last <= clock /\ r.last >= n /\ r.tokens <= 2 * T
  BY ReadyFacts
<1>2. T \in Nat /\ rate \in Nat \ {0} /\ rate <= T /\ burst = 2 * rate /\ clock \in Nat
  BY TopIs DEF Typed
<1>3. MaxLag \in Nat /\ IdleTime \in Nat /\ IdleTime >= 8 /\ MaxLag < IdleTime
  BY LimiterAssumption DEF ShortWait, IdleTime
<1>4. r.tokens \in Nat /\ r.last \in Nat /\ late \in Nat /\ late <= MaxLag
  BY <1>1, <1>2, <1>3 DEF Bucket
<1>5. TopAllowance = 2 * T + MaxLag * T /\ MaxLag * T \in Nat
  BY <1>2, <1>3, Refills DEF TopAllowance
<1>6. late * T \in Nat /\ late * T <= MaxLag * T
  BY <1>2, <1>3, <1>4, Refills
<1>7. r.tokens + late * T \in Nat /\ r.tokens + late * T <= TopAllowance
  BY <1>1, <1>2, <1>4, <1>5, <1>6
<1>8. CASE k \in DOMAIN buckets
  <2> DEFINE b == buckets[k]
             age == clock - b.last
  <2>1. b.tokens \in Nat /\ b.last \in Nat /\ age \in Nat /\ b \in Bucket
    BY <1>2, <1>8 DEF Typed, TableOK, Bucket
  <2>2. Owed(k) = b.tokens + age * T /\ age * T \in Nat
    BY <1>2, <1>8, <2>1, Refills DEF Owed
  <2>3. CASE k \in Rest(n)
    <3>1. r = Refilled(b, n)
      BY <2>3 DEF Ready
    <3>2. CASE n <= b.last
      <4>1. r = b
        BY <1>2, <2>1, <3>1, <3>2, RefillFacts
      <4> QED
        BY <1>7, <2>2, <2>3, <4>1
    <3>3. CASE n > b.last
      <4> DEFINE d == n - b.last
      <4>1. r.last = n /\ r.tokens <= b.tokens + d * rate
        <5>1. Refilled(b, n).last = n /\ Refilled(b, n).tokens <= b.tokens + d * rate
          <6> HIDE DEF b
          <6> QED
            BY <1>2, <2>1, <3>3, RefillFacts
        <5> QED
          BY <3>1, <5>1
      <4>2. d \in Nat /\ age = d + late
        BY <1>2, <2>1, <3>3, <4>1
      <4> HIDE DEF d, age, late
      <4>3. d * rate \in Nat /\ d * T \in Nat /\ d * rate <= d * T
            /\ (d + late) * T = d * T + late * T
        BY <1>2, <1>4, <4>2, Refills
      <4>4. age * T = d * T + late * T
        BY <4>2, <4>3
      <4>5. r.tokens + late * T <= b.tokens + age * T
        BY <1>4, <1>6, <2>1, <4>1, <4>3, <4>4
      <4> QED
        BY <1>7, <2>1, <2>2, <2>3, <4>5 DEF late
    <3> QED
      BY <1>2, <2>1, <3>2, <3>3
  <2>4. CASE k \notin Rest(n)
    <3>1. ~(n - b.last <= IdleTime)
      BY <1>8, <2>4 DEF Rest
    <3>2. age >= 2 + MaxLag
      BY <1>2, <1>3, <2>1, <3>1
    <3>3. (2 + MaxLag) * T <= age * T
      BY <1>2, <1>3, <2>1, <3>2, Refills
    <3>4. (2 + MaxLag) * T = TopAllowance
      BY DEF TopAllowance
    <3>5. TopAllowance <= b.tokens + age * T
      BY <1>5, <1>2, <2>1, <2>2, <3>3, <3>4
    <3> QED
      BY <1>7, <2>1, <2>2, <2>4, <3>5
  <2> QED
    BY <2>3, <2>4
<1>9. CASE k \notin DOMAIN buckets
  <2>1. k \notin Rest(n) /\ Owed(k) = TopAllowance
    BY <1>9 DEF Rest, Owed
  <2>2. TopAllowance \in Nat
    BY <1>2, <1>5
  <2> QED
    BY <1>7, <2>1, <2>2
<1> QED
  BY <1>8, <1>9

\* A call spends what its client had, and takes nobody else's allowance.
LEMMA AllowCovers ==
  ASSUME ShortWait, Typed, TableOK, LagOK, AllowanceCovers,
         NEW h \in Callers, NEW k \in Clients, allow(h, k)
  PROVE  AllowanceCovers'
<1>1. PICK n \in Nat, g \in SUBSET Clients :
        n <= clock /\ clock - n <= MaxLag /\ Allows(k, n, g)
  BY AllowFacts
<1>2. clock' = clock
  BY AllowFacts
<1> DEFINE r == Ready(k, n)
           owed == r.tokens + (clock - r.last) * TopRate
           rest == Rest(n)
<1>3. /\ owed \in Nat /\ owed <= TopAllowance
      /\ k \in rest => owed <= Owed(k)
      /\ Owed(k) \in Nat
      /\ k \notin rest => Owed(k) >= TopAllowance
  BY <1>1, ReadyOwed
<1>4. r \in Bucket /\ r.last <= clock /\ clock \in Nat
  BY <1>1, ReadyFacts DEF Typed
<1>5. /\ DOMAIN buckets' = (rest \ g) \cup {k}
      /\ \A j \in rest \ g : j # k => buckets'[j] = buckets[j]
      /\ buckets'[k] = Taken(r)
      /\ k \in rest => g = {}
      /\ k \notin g
  BY <1>1 DEF Allows, Ready
<1>6. \A j \in Clients :
        LET left == IF j \in g THEN TopAllowance ELSE allowance[j]
        IN  allowance'[j] = IF j = k /\ r.tokens >= 1
                            THEN IF left - 1 >= -1 THEN left - 1 ELSE -1
                            ELSE left
  BY <1>1 DEF Allows, Ready
<1>7. /\ \A j \in Clients : allowance[j] \in Int /\ allowance[j] <= TopAllowance
      /\ \A j \in Clients : allowance[j] >= TopAllowance \/ allowance[j] >= Owed(j)
  BY DEF Typed, AllowanceCovers
<1>8. TopRate \in Nat /\ TopAllowance \in Nat
  <2>1. TopRate \in Nat /\ MaxLag \in Nat
    BY TopIs, LimiterAssumption
  <2>2. (2 + MaxLag) * TopRate \in Nat
    BY <2>1, Refills
  <2> QED
    BY <2>1, <2>2 DEF TopAllowance
<1>9. /\ r.tokens \in Nat /\ clock - r.last \in Nat
      /\ (clock - r.last) * TopRate \in Nat
  <2>1. r.tokens \in Nat /\ clock - r.last \in Nat
    BY <1>4 DEF Bucket
  <2> QED
    BY <1>8, <2>1, Refills
<1>10. ASSUME NEW j \in Clients, j # k
       PROVE  /\ allowance'[j] <= TopAllowance
              /\ allowance'[j] >= TopAllowance \/ allowance'[j] >= Owed(j)'
  <2>1. CASE j \in g
    BY <1>6, <1>8, <1>10, <2>1
  <2>2. CASE j \notin g /\ j \in rest
    <3>1. j \in DOMAIN buckets /\ j \in DOMAIN buckets' /\ buckets'[j] = buckets[j]
      BY <1>5, <1>10, <2>2 DEF Rest
    <3>2. Owed(j)' = Owed(j)
      BY <1>2, <3>1 DEF Owed
    <3> QED
      BY <1>6, <1>7, <1>10, <2>2, <3>2
  <2>3. CASE j \notin g /\ j \notin rest
    <3>1. Owed(j) \in Nat /\ Owed(j) >= TopAllowance
      BY <1>1, <2>3, ReadyOwed
    <3>2. allowance[j] >= TopAllowance
      BY <1>7, <1>8, <3>1
    <3> QED
      BY <1>6, <1>7, <1>10, <2>3, <3>2
  <2> QED
    BY <2>1, <2>2, <2>3
<1>11. /\ allowance'[k] <= TopAllowance
       /\ allowance'[k] >= Owed(k)'
  <2> DEFINE a == allowance[k]
             o == Owed(k)'
  <2>1. a \in Int /\ a <= TopAllowance /\ a >= owed
    BY <1>3, <1>7, <1>8
  <2>2. allowance'[k] = IF r.tokens >= 1 THEN IF a - 1 >= -1 THEN a - 1 ELSE -1 ELSE a
    BY <1>5, <1>6
  <2>3. o = Taken(r).tokens + (clock - Taken(r).last) * TopRate
    BY <1>2, <1>5 DEF Owed
  <2>4. /\ Taken(r).last = r.last
        /\ Taken(r).tokens = IF r.tokens >= 1 THEN r.tokens - 1 ELSE r.tokens
    BY <1>4, TakenFacts
  <2> DEFINE m == (clock - r.last) * TopRate
  <2>5. o = (IF r.tokens >= 1 THEN r.tokens - 1 ELSE r.tokens) + m /\ owed = r.tokens + m
    BY <2>3, <2>4
  <2>6. m \in Nat
    BY <1>9
  <2> HIDE DEF a, o, m, owed
  <2>7. CASE r.tokens >= 1
    <3>1. o = owed - 1
      BY <1>9, <2>5, <2>6, <2>7
    <3>2. allowance'[k] = a - 1
      <4>1. owed >= 1
        BY <1>9, <2>5, <2>6, <2>7
      <4> QED
        BY <1>3, <2>1, <2>2, <2>7, <4>1
    <3> QED
      BY <1>3, <1>8, <2>1, <3>1, <3>2 DEF o
  <2>8. CASE ~(r.tokens >= 1)
    <3>1. o = owed /\ allowance'[k] = a
      BY <2>2, <2>5, <2>8
    <3> QED
      BY <2>1, <3>1 DEF o
  <2> QED
    BY <2>7, <2>8
<1> QED
  BY <1>10, <1>11 DEF AllowanceCovers

\* Whoever goes was quiet the longest.
LEMMA AllowQuiet ==
  ASSUME Typed, LagOK, NEW h \in Callers, NEW k \in Clients, allow(h, k),
         NEW i \in DOMAIN buckets \ DOMAIN buckets',
         NEW j \in DOMAIN buckets \cap DOMAIN buckets', buckets'[j] = buckets[j]
  PROVE  buckets[i].last <= buckets[j].last
<1>1. PICK n \in Nat, g \in SUBSET Clients :
        n <= clock /\ clock - n <= MaxLag /\ Allows(k, n, g)
  BY AllowFacts
<1> DEFINE rest == Rest(n)
<1>2. /\ \/ g = {} \/ (\E o \in rest : g = {o} /\ \A l \in rest : buckets[o].last <= buckets[l].last)
      /\ DOMAIN buckets' = (rest \ g) \cup {k}
      /\ buckets'[k] = Taken(Ready(k, n))
  BY <1>1 DEF Allows, Ready
<1>3. /\ rate \in Nat \ {0} /\ burst = 2 * rate /\ IdleTime \in Nat
      /\ \A l \in DOMAIN buckets : buckets[l] \in Bucket /\ buckets[l].last \in Nat
  BY TopIs, LimiterAssumption DEF Typed, IdleTime, Bucket
<1>4. j \in rest
  <2> SUFFICES ASSUME j \notin rest
               PROVE  FALSE
    OBVIOUS
  <2>1. j = k
    BY <1>2
  <2> DEFINE full == [tokens |-> burst, last |-> n]
  <2>2. Ready(k, n) = Refilled(full, n)
    BY <2>1 DEF Ready
  <2>3. full \in Bucket /\ full.last = n
    BY <1>3 DEF Bucket
  <2>4. Refilled(full, n) = full
    BY <1>3, <2>3, RefillFacts
  <2> HIDE DEF full
  <2>5. Taken(full).last = n
    BY <2>3, TakenFacts
  <2>6. buckets[j].last = n
    BY <1>2, <2>1, <2>2, <2>4, <2>5
  <2> QED
    BY <1>3, <2>6 DEF Rest
<1>5. CASE i \in rest
  BY <1>2, <1>4, <1>5
<1>6. CASE i \notin rest
  <2>1. n - buckets[j].last <= IdleTime /\ ~(n - buckets[i].last <= IdleTime)
    BY <1>4, <1>6 DEF Rest
  <2> QED
    BY <1>3, <2>1
<1> QED
  BY <1>5, <1>6

-------------------------------------------------------------------------------
\* The part of the strengthened invariant that holds however long a handler waits.
Shape == Typed /\ TableOK /\ LagOK

\* ... and the part that needs ShortWait.
Memory == KeptIdle /\ IdleEvictionUnseen /\ AllowanceCovers

\* The table starts empty and every allowance full.
LEMMA InitInv == LimiterInit => Shape /\ Memory
<1> SUFFICES ASSUME LimiterInit
             PROVE  Shape /\ Memory
  OBVIOUS
<1>1. /\ clock = 0 /\ rate \in Rates /\ burst = 2 * rate /\ buckets = << >> /\ kept = << >>
      /\ call = [h \in Callers |-> << >>] /\ allowance = [k \in Clients |-> TopAllowance]
  BY DEF LimiterInit
<1>2. DOMAIN << >> = {} /\ IsFiniteSet({}) /\ Cardinality({}) = 0 /\ << >> \in Seq(Nat)
  BY FS_EmptySet
<1>3. TopAllowance \in Int
  <2>1. TopRate \in Nat /\ MaxLag \in Nat
    BY TopIs, LimiterAssumption
  <2>2. (2 + MaxLag) * TopRate \in Nat
    BY <2>1, Refills
  <2> QED
    BY <2>2 DEF TopAllowance
<1>4. Typed /\ TableOK /\ LagOK
  BY <1>1, <1>2, <1>3, LimiterAssumption DEF Typed, TableOK, LagOK
<1>5. KeptIdle /\ IdleEvictionUnseen /\ AllowanceCovers
  BY <1>1, <1>2, <1>3 DEF KeptIdle, IdleEvictionUnseen, AllowanceCovers, Owed
<1> QED
  BY <1>4, <1>5 DEF Shape, Memory

\* A reading of the clock, and a snapshot's rate.
LEMMA QuietStep ==
  ASSUME Shape, (\E h \in Callers : ReadClock(h)) \/ (\E r \in Rates : setRate(r))
  PROVE  Shape' /\ (Memory => Memory') /\ buckets' = buckets
<1>1. UNCHANGED <<clock, buckets, kept, allowance>>
  BY DEF ReadClock, setRate
<1>2. Typed' /\ LagOK'
  <2>1. ASSUME NEW h \in Callers, ReadClock(h)
        PROVE  Typed' /\ LagOK'
    <3>1. /\ call' = [call EXCEPT ![h] = <<clock>>]
          /\ UNCHANGED <<clock, rate, burst, buckets, kept, allowance>>
      BY <2>1 DEF ReadClock
    <3>2. <<clock>> \in Seq(Nat) /\ <<clock>>[1] = clock /\ clock - clock <= MaxLag
          /\ clock <= clock
      BY LimiterAssumption DEF Shape, Typed
    <3>3. call' \in [Callers -> Seq(Nat)]
      BY <3>1, <3>2 DEF Shape, Typed
    <3>4. Typed'
      BY <3>1, <3>3 DEF Shape, Typed
    <3>5. \A i \in Callers : call'[i] = IF i = h THEN <<clock>> ELSE call[i]
      BY <3>1 DEF Shape, Typed
    <3>6. LagOK'
      BY <3>1, <3>2, <3>5 DEF Shape, LagOK
    <3> QED
      BY <3>4, <3>6
  <2>2. ASSUME NEW r \in Rates, setRate(r)
        PROVE  Typed' /\ LagOK'
    BY <2>2 DEF setRate, Shape, Typed, LagOK
  <2> QED
    BY <2>1, <2>2
<1>3. TableOK' /\ (Memory => Memory')
  BY <1>1 DEF Shape, TableOK, Memory, KeptIdle, IdleEvictionUnseen, AllowanceCovers, Owed
<1> QED
  BY <1>1, <1>2, <1>3 DEF Shape

\* A tick refills every allowance by as much as any bucket.
LEMMA TickStep ==
  ASSUME Shape, ClockTicks
  PROVE  Shape' /\ (Memory => Memory') /\ buckets' = buckets
<1>1. /\ \A h \in Callers : call[h] # << >> => clock - call[h][1] < MaxLag
      /\ clock' = clock + 1
      /\ allowance' = [k \in Clients |-> Min({TopAllowance, allowance[k] + TopRate})]
      /\ UNCHANGED <<rate, burst, buckets, call, kept>>
  BY DEF ClockTicks
<1> DEFINE c == clock'
<1>2. TopRate \in Nat /\ MaxLag \in Nat /\ clock \in Nat /\ TopAllowance \in Int
      /\ c = clock + 1
  <2>1. TopRate \in Nat /\ MaxLag \in Nat
    BY TopIs, LimiterAssumption
  <2>2. (2 + MaxLag) * TopRate \in Nat
    BY <2>1, Refills
  <2> QED
    BY <1>1, <2>1, <2>2 DEF Shape, Typed, TopAllowance
<1>3. /\ allowance' \in [Clients -> Int]
      /\ \A k \in Clients :
           allowance'[k] = IF TopAllowance <= allowance[k] + TopRate THEN TopAllowance
                           ELSE allowance[k] + TopRate
  <2>1. ASSUME NEW k \in Clients
        PROVE  /\ allowance[k] + TopRate \in Int
               /\ Min({TopAllowance, allowance[k] + TopRate})
                    = IF TopAllowance <= allowance[k] + TopRate THEN TopAllowance
                      ELSE allowance[k] + TopRate
    <3>1. allowance[k] + TopRate \in Int
      BY <1>2 DEF Shape, Typed
    <3> QED
      BY <1>2, <3>1, MinPair
  <2> QED
    BY <1>1, <1>2, <2>1
<1>4. Typed' /\ TableOK'
  BY <1>1, <1>2, <1>3 DEF Shape, Typed, TableOK, Bucket
<1> HIDE DEF c
<1>5. LagOK'
  <2> SUFFICES ASSUME NEW h \in Callers, call[h] # << >>
               PROVE  call[h][1] <= c /\ c - call[h][1] <= MaxLag
    BY <1>1 DEF LagOK, c
  <2>1. call[h] \in Seq(Nat) /\ call[h][1] <= clock /\ clock - call[h][1] < MaxLag
    BY <1>1 DEF Shape, Typed, LagOK
  <2>2. call[h][1] \in Nat
    BY <2>1
  <2> QED
    BY <1>1, <1>2, <2>1, <2>2
<1>6. ASSUME Memory
      PROVE  Memory'
  <2>1. IdleEvictionUnseen'
    BY <1>1, <1>6 DEF Memory, IdleEvictionUnseen
  <2>2. KeptIdle'
    <3>1. IdleTime \in Nat /\ \A k \in DOMAIN kept : kept[k].last \in Nat
      BY LimiterAssumption DEF IdleTime, Shape, Typed, Bucket
    <3>2. \A k \in DOMAIN kept \ DOMAIN buckets : c - kept[k].last > IdleTime
      BY <1>2, <1>6, <3>1 DEF Memory, KeptIdle
    <3> QED
      BY <1>1, <1>6, <3>2 DEF Memory, KeptIdle, c
  <2>3. ASSUME NEW k \in Clients
        PROVE  /\ allowance'[k] <= TopAllowance
               /\ allowance'[k] >= TopAllowance \/ allowance'[k] >= Owed(k)'
    <3>1. /\ allowance[k] \in Int /\ allowance[k] <= TopAllowance
          /\ allowance[k] >= TopAllowance \/ allowance[k] >= Owed(k)
      BY <1>6 DEF Memory, AllowanceCovers, Shape, Typed
    <3>2. CASE k \in DOMAIN buckets
      <4> DEFINE b == buckets[k]
                 m == (clock - b.last) * TopRate
      <4>1. b.tokens \in Nat /\ b.last \in Nat /\ clock - b.last \in Nat
        BY <1>2, <3>2 DEF Shape, Typed, TableOK, Bucket
      <4>2. m \in Nat /\ ((clock - b.last) + 1) * TopRate = m + 1 * TopRate
        BY <1>2, <4>1, Refills
      <4>3. Owed(k) = b.tokens + m
        BY <3>2 DEF Owed
      <4>4. Owed(k)' = b.tokens + (c - b.last) * TopRate
        BY <1>1, <3>2 DEF Owed, c
      <4>5. c - b.last = (clock - b.last) + 1 /\ 1 * TopRate = TopRate
        BY <1>2, <4>1
      <4> HIDE DEF m
      <4>6. Owed(k)' = Owed(k) + TopRate /\ Owed(k) \in Nat
        BY <1>2, <4>1, <4>2, <4>3, <4>4, <4>5
      <4> DEFINE o == Owed(k)'
      <4> HIDE DEF o
      <4>7. o = Owed(k) + TopRate
        BY <4>6 DEF o
      <4>8. allowance'[k] <= TopAllowance /\ (allowance'[k] >= TopAllowance \/ allowance'[k] >= o)
        BY <1>2, <1>3, <3>1, <4>6, <4>7
      <4> QED
        BY <4>8 DEF o
    <3>3. CASE k \notin DOMAIN buckets
      <4>1. allowance[k] >= TopAllowance
        BY <3>1, <3>3 DEF Owed
      <4> QED
        BY <1>2, <1>3, <3>1, <4>1
    <3> QED
      BY <3>2, <3>3
  <2> QED
    BY <2>1, <2>2, <2>3 DEF Memory, AllowanceCovers
<1> QED
  BY <1>1, <1>4, <1>5, <1>6 DEF Shape

\* A call of allow.
LEMMA AllowStep ==
  ASSUME Shape, NEW h \in Callers, NEW k \in Clients, allow(h, k)
  PROVE  Shape' /\ (ShortWait /\ Memory => Memory')
  BY AllowTyped, AllowKept, AllowCovers DEF Shape, Memory

\* No step breaks the strengthened invariant.
LEMMA InvStep ==
  /\ Shape /\ [LimiterNext]_limiterVars => Shape'
  /\ ShortWait /\ Shape /\ Memory /\ [LimiterNext]_limiterVars => Memory'
<1>1. ASSUME Shape, UNCHANGED limiterVars
      PROVE  Shape' /\ (Memory => Memory')
  BY <1>1 DEF limiterVars, Shape, Typed, TableOK, LagOK, Memory, KeptIdle, IdleEvictionUnseen,
     AllowanceCovers, Owed
<1>2. ASSUME Shape, LimiterNext
      PROVE  Shape' /\ (ShortWait /\ Memory => Memory')
  BY <1>2, QuietStep, TickStep, AllowStep DEF LimiterNext
<1> QED
  BY <1>1, <1>2

(* The two invariants of the limiters hold, Memory under ShortWait.        *)
LEMMA Inductive ==
  /\ LimiterSpec => []Shape
  /\ ShortWait => (LimiterSpec => []Memory)
<1>1. LimiterInit => Shape /\ Memory
  BY InitInv
<1>2. Shape /\ [LimiterNext]_limiterVars => Shape'
  BY InvStep
<1>3. LimiterSpec => []Shape
  BY <1>1, <1>2, PTL DEF LimiterSpec
<1>4. ASSUME ShortWait
      PROVE  LimiterSpec => []Memory
  <2>1. Shape /\ Memory /\ [LimiterNext]_limiterVars => Memory'
    BY <1>4, InvStep
  <2> QED
    BY <1>1, <1>3, <2>1, PTL DEF LimiterSpec
<1> QED
  BY <1>3, <1>4

\* The table stays within its limit, a bucket never goes below zero, and no bucket
\* is of a time to come (ratelimit.go:54-86).
THEOREM TypeCorrect == LimiterSpec => []TypeOK
<1>1. Shape => TypeOK
  <2> SUFFICES ASSUME Shape
               PROVE  TypeOK
    OBVIOUS
  <2>1. clock \in Nat /\ rate \in Rates /\ burst \in Nat
    BY TopIs DEF Shape, Typed
  <2>2. \A k \in DOMAIN buckets : buckets[k] \in [tokens : Nat, last : 0 .. clock]
    BY <2>1 DEF Shape, Typed, TableOK, Bucket
  <2>3. \A h \in Callers : call[h] = << >> \/ call[h][1] \in 0 .. clock
    <3> SUFFICES ASSUME NEW h \in Callers, call[h] # << >>
                 PROVE  call[h][1] \in 0 .. clock
      OBVIOUS
    <3>1. call[h] \in Seq(Nat) /\ call[h][1] <= clock
      BY DEF Shape, Typed, LagOK
    <3>2. call[h][1] \in Nat
      BY <3>1
    <3> QED
      BY <2>1, <3>1, <3>2
  <2> QED
    BY <2>1, <2>2, <2>3 DEF TypeOK, Shape, Typed, TableOK
<1> QED
  BY <1>1, Inductive, PTL

\* Deleting idle buckets cannot be noticed (evictIdleLocked), as long as no handler
\* waits so long with its reading that a bucket deleted since was not idle by it.
THEOREM EvictionUnseen == ShortWait => (LimiterSpec => []IdleEvictionUnseen)
<1>1. Memory => IdleEvictionUnseen
  BY DEF Memory
<1> QED
  BY <1>1, Inductive, PTL

\* No client gets more than the largest burst and the refill of the time, in whatever
\* order readings of the clock reach the mutex and whatever rates snapshots ask for,
\* until a full table gives its bucket up (allow, ratelimit.go:54-86).
THEOREM WithinRate == ShortWait => (LimiterSpec => []AdmittedWithinRate)
<1>1. Shape /\ Memory => AdmittedWithinRate
  <2> SUFFICES ASSUME Shape, Memory, NEW k \in Clients
               PROVE  allowance[k] >= 0
    BY DEF AdmittedWithinRate
  <2>1. /\ allowance[k] \in Int
        /\ allowance[k] >= TopAllowance \/ allowance[k] >= Owed(k)
    BY DEF Memory, AllowanceCovers, Shape, Typed
  <2>2. TopRate \in Nat /\ MaxLag \in Nat
    BY TopIs, LimiterAssumption
  <2>3. TopAllowance \in Nat
    <3>1. (2 + MaxLag) * TopRate \in Nat
      BY <2>2, Refills
    <3> QED
      BY <3>1 DEF TopAllowance
  <2>4. Owed(k) \in Nat
    <3>1. CASE k \in DOMAIN buckets
      <4>1. buckets[k].tokens \in Nat /\ clock - buckets[k].last \in Nat
        BY <3>1 DEF Shape, Typed, TableOK, Bucket
      <4>2. (clock - buckets[k].last) * TopRate \in Nat
        BY <2>2, <4>1, Refills
      <4> QED
        BY <3>1, <4>1, <4>2 DEF Owed
    <3>2. CASE k \notin DOMAIN buckets
      BY <2>3, <3>2 DEF Owed
    <3> QED
      BY <3>1, <3>2
  <2> QED
    BY <2>1, <2>3, <2>4
<1> QED
  BY <1>1, Inductive, PTL

\* Whoever loses its bucket, as idle or to a full table, was quiet at least as long
\* as everyone who keeps one (evictIdleLocked, evictOldestLocked).
THEOREM QuietestGoes == LimiterSpec => QuietestForgotten
<1>1. Shape /\ [LimiterNext]_limiterVars =>
        [\A k \in DOMAIN buckets \ DOMAIN buckets' :
           \A j \in DOMAIN buckets \cap DOMAIN buckets' :
             buckets'[j] = buckets[j] => buckets[k].last <= buckets[j].last]_limiterVars
  <2>1. ASSUME Shape, LimiterNext, NEW i \in DOMAIN buckets \ DOMAIN buckets',
               NEW j \in DOMAIN buckets \cap DOMAIN buckets', buckets'[j] = buckets[j]
        PROVE  buckets[i].last <= buckets[j].last
    <3>1. CASE \E h \in Callers, k \in Clients : allow(h, k)
      BY <2>1, <3>1, AllowQuiet DEF Shape
    <3>2. CASE buckets' = buckets
      BY <2>1, <3>2
    <3> QED
      BY <2>1, <3>1, <3>2 DEF LimiterNext, ReadClock, setRate, ClockTicks
  <2> QED
    BY <2>1
<1> QED
  BY <1>1, Inductive, PTL DEF LimiterSpec, QuietestForgotten

----------------------------------------------------------------------------
(* Served time. A view that validates, and the view it compiles to.        *)

Moment == [mono : Nat, wall : Int]

Sound(spec) == IsView(spec) /\ validateView(spec)

(* A compiled view is a sound one with where its clock starts, and when.   *)
Compiled(v) ==
  /\ Sound(v.spec) /\ v.gen \in Nat /\ v.virtual \in Int /\ v.epoch \in Moment

(* To materialise a view fills in its leap and its refid and nothing else. *)
LEMMA Materialized ==
  ASSUME NEW spec, IsView(spec)
  PROVE  LET m == materializeView(spec) IN
         /\ IsView(m)
         /\ m.mode = spec.mode /\ m.offset = spec.offset /\ m.absolute = spec.absolute
         /\ m.freezeAt = spec.freezeAt /\ m.rate = spec.rate /\ m.epoch = spec.epoch
         /\ m.jitter = spec.jitter
<1>1. ASSUME NEW leap, NEW refid
      PROVE  LET m == [spec EXCEPT !.leap = leap, !.refid = refid] IN
             /\ IsView(m)
             /\ m.mode = spec.mode /\ m.offset = spec.offset /\ m.absolute = spec.absolute
             /\ m.freezeAt = spec.freezeAt /\ m.rate = spec.rate /\ m.epoch = spec.epoch
             /\ m.jitter = spec.jitter
  BY DEF IsView, IsRecord
<1> QED
  BY <1>1 DEF materializeView

(* A view with a rate is one of mode rate, and the other way round.        *)
LEMMA RateMode ==
  ASSUME NEW spec, Sound(spec)
  PROVE  /\ spec.mode \in Modes
         /\ spec.mode = "rate" <=> spec.rate # {}
<1>1. spec.mode \in Modes
  BY DEF Sound, validateView
<1>2. Required[spec.mode] \subseteq Present(spec)
      /\ Present(spec) \subseteq Legal[spec.mode]
  BY DEF Sound, validateView
<1>3. "rate" \in Present(spec) <=> spec.rate # {}
  BY DEF Present
<1>4. "rate" \in Legal[spec.mode] => spec.mode = "rate"
  BY <1>1 DEF Legal, Modes
<1>5. spec.mode = "rate" => "rate" \in Required[spec.mode]
  <2>1. "rate" \in Modes
    BY DEF Modes
  <2>2. Legal["rate"] = {"rate", "epoch"}
    BY <2>1 DEF Legal
  <2>3. Required["rate"] = Legal["rate"] \ {"epoch"}
    BY <2>1 DEF Required
  <2> QED
    BY <2>2, <2>3
<1> QED
  BY <1>1, <1>2, <1>3, <1>4, <1>5

(* The one member of a set that has one.                                   *)
LEMMA SoleMember ==
  ASSUME NEW S, S # {}
  PROVE  Sole(S) \in S
  BY DEF Sole

(* A rate is a number, and none but a clock that runs has one.             *)
LEMMA RateIs ==
  ASSUME NEW v, Compiled(v)
  PROVE  /\ Rate(v) \in Int
         /\ v.spec.mode = "rate" => Rate(v) \in v.spec.rate
         /\ v.spec.mode \notin {"rate", "absolute"} => Rate(v) = 0
<1>1. v.spec.mode = "rate" => Sole(v.spec.rate) \in v.spec.rate
  BY RateMode, SoleMember DEF Compiled
<1>2. v.spec.rate \subseteq Int
  BY DEF Compiled, Sound, IsView
<1>3. Rate(v) = IF v.spec.mode = "rate" THEN Sole(v.spec.rate)
                      ELSE IF v.spec.mode = "absolute" THEN 1 ELSE 0
  BY DEF Rate
<1> QED
  BY <1>1, <1>2, <1>3

(* The product of two integers is one: said once, for terms SMT is slow    *)
(* to see it of.                                                           *)
LEMMA Product ==
  ASSUME NEW a \in Int, NEW b \in Int
  PROVE  a * b \in Int
  OBVIOUS

(* A clock that runs for a time, in the code's saturating arithmetic.      *)
LEMMA ServedIs ==
  ASSUME NEW v, Compiled(v), NEW t \in Moment
  PROVE  /\ (t.mono - v.epoch.mono) * Rate(v) \in Int
         /\ v.spec.mode \in {"absolute", "freeze", "rate"} =>
              servedUnclamped(v, t) =
                v.virtual + saturatingDuration((t.mono - v.epoch.mono) * Rate(v))
         /\ v.spec.mode \in {"follow-real", "offset"} =>
              servedUnclamped(v, t) = t.wall + v.spec.offset
         /\ v.spec.mode \in {"absolute", "freeze", "rate", "follow-real", "offset"}
<1>1. (t.mono - v.epoch.mono) * Rate(v) \in Int
  <2>1. t.mono - v.epoch.mono \in Int
    BY DEF Compiled, Moment
  <2>2. Rate(v) \in Int
    BY RateIs
  <2> QED
    BY <2>1, <2>2, Product
<1>2. v.spec.mode \in {"absolute", "freeze", "rate", "follow-real", "offset"}
  BY RateMode DEF Compiled, Modes
<1>3. servedUnclamped(v, t) =
        IF v.spec.mode \in {"absolute", "freeze", "rate"}
        THEN v.virtual + saturatingDuration((t.mono - v.epoch.mono) * Rate(v))
        ELSE t.wall + v.spec.offset
  BY <1>2 DEF servedUnclamped
<1> QED
  BY <1>1, <1>2, <1>3

(* The arithmetic of the range and of durations.                           *)
LEMMA Saturated ==
  ASSUME NEW d \in Int
  PROVE  /\ saturatingDuration(d) \in -MaxDuration .. MaxDuration
         /\ d \in -MaxDuration .. MaxDuration => saturatingDuration(d) = d
         /\ d >= 0 => saturatingDuration(d) >= 0
         /\ d > MaxDuration => saturatingDuration(d) = MaxDuration
         /\ d < -MaxDuration => saturatingDuration(d) = -MaxDuration
  BY ViewClockAssumption DEF saturatingDuration

(* Clamping keeps the order, and does nothing to what is in the range.     *)
LEMMA Clamped ==
  ASSUME NEW t \in Int, NEW u \in Int
  PROVE  /\ ClampServed(t) \in Int
         /\ ClampServed(t) \in Floor .. Ceil
         /\ ClampServed(ClampServed(t)) = ClampServed(t)
         /\ t <= u => ClampServed(t) <= ClampServed(u)
         /\ Inside(ClampServed(t)) => ClampServed(t) = t
  BY ViewClockAssumption DEF ClampServed, Inside

(* What is served is an instant of the range.                              *)
LEMMA ServedInRange ==
  ASSUME NEW v, Compiled(v), NEW t \in Moment
  PROVE  /\ servedUnclamped(v, t) \in Int
         /\ Served(v, t) \in Int /\ Served(v, t) \in Floor .. Ceil
<1>1. saturatingDuration((t.mono - v.epoch.mono) * Rate(v)) \in Int
  BY ServedIs, Saturated, ViewClockAssumption
<1>2. v.virtual \in Int /\ v.spec.offset \in Int /\ t.wall \in Int
  BY DEF Compiled, Sound, IsView, Moment
<1>3. servedUnclamped(v, t) \in Int
  BY <1>1, <1>2, ServedIs
<1> QED
  BY <1>3, Clamped DEF Served

(* An instant that was parsed.                                             *)
LEMMA ParsedInstant ==
  ASSUME NEW text \in Text, Parses(text)
  PROVE  Instant(text) \in Int
<1>1. Len(<<>>) = 0 /\ Len(<<"blank">>) = 1 /\ Len(<<"junk">>) = 1
  OBVIOUS
<1>2. text \in {"at", "zoned"} \X Int
  BY <1>1 DEF Text, Parses
<1> QED
  BY <1>2 DEF Instant

\* The previous view a rate clock goes on from, if the views of a name are one.
AtMostOne(set) == \A x, y \in set : x = y

(* Where a rate clock starts, case by case.                                *)
LEMMA RateEpochIs ==
  ASSUME NEW spec, NEW t, NEW prev
  PROVE  RateEpoch(spec, t, prev) =
           IF Kept(spec, prev) # {}
           THEN [virtual |-> Sole(Kept(spec, prev)).virtual,
                 epoch |-> Sole(Kept(spec, prev)).epoch]
           ELSE IF spec.epoch # <<>> THEN [virtual |-> Instant(spec.epoch), epoch |-> t]
           ELSE [virtual |-> IF Changed(spec, prev) # {}
                             THEN Served(Sole(Changed(spec, prev)), t)
                             ELSE t.wall,
                 epoch |-> t]
  BY DEF RateEpoch

(* What a sound view is anchored at is an instant, and when, not later     *)
(* than it is compiled.                                                    *)
LEMMA Anchored ==
  ASSUME NEW spec, Sound(spec), NEW t \in Moment,
         NEW prev, \A p \in prev : Compiled(p) /\ p.epoch.mono <= t.mono,
         ~CompileFails(spec, prev)
  PROVE  LET a == Anchor(spec, t, prev) IN
         a.virtual \in Int /\ a.epoch \in Moment /\ a.epoch.mono <= t.mono
<1> DEFINE a == Anchor(spec, t, prev)
           start == RateEpoch(spec, t, prev)
<1>1. t.mono <= t.mono /\ t.wall \in Int
  BY DEF Moment
<1>2. CASE spec.mode = "rate"
  <2>1. a = start
    BY <1>2 DEF Anchor
  <2>2. CASE Kept(spec, prev) # {}
    <3>1. Sole(Kept(spec, prev)) \in prev
      BY <2>2, SoleMember DEF Kept
    <3>2. /\ start.virtual = Sole(Kept(spec, prev)).virtual
          /\ start.epoch = Sole(Kept(spec, prev)).epoch
      BY <2>2, RateEpochIs
    <3> QED
      BY <2>1, <3>1, <3>2 DEF Compiled
  <2>3. CASE Kept(spec, prev) = {} /\ spec.epoch # <<>>
    <3>1. start.virtual = Instant(spec.epoch) /\ start.epoch = t
      BY <2>3, RateEpochIs
    <3>2. Parses(spec.epoch) /\ spec.epoch \in Text
      BY <1>2, <2>3 DEF CompileFails, Sound, IsView
    <3> QED
      BY <1>1, <2>1, <3>1, <3>2, ParsedInstant
  <2>4. CASE Kept(spec, prev) = {} /\ spec.epoch = <<>>
    <3>1. start.epoch = t
      BY <2>4, RateEpochIs
    <3>2. start.virtual \in Int
      <4>1. CASE Changed(spec, prev) # {}
        <5>1. Sole(Changed(spec, prev)) \in prev
          BY <4>1, SoleMember DEF Changed
        <5> QED
          BY <2>4, <4>1, <5>1, RateEpochIs, ServedInRange
      <4>2. CASE Changed(spec, prev) = {}
        BY <1>1, <2>4, <4>2, RateEpochIs
      <4> QED
        BY <4>1, <4>2
    <3> QED
      BY <1>1, <2>1, <3>1, <3>2
  <2> QED
    BY <2>2, <2>3, <2>4
<1>3. CASE spec.mode = "absolute"
  <2>1. Parses(spec.absolute) /\ spec.absolute \in Text
    BY <1>3 DEF CompileFails, Sound, IsView
  <2>2. a = [virtual |-> Instant(spec.absolute), epoch |-> t]
    BY <1>3 DEF Anchor
  <2> QED
    BY <1>1, <2>1, <2>2, ParsedInstant
<1>4. CASE spec.mode = "freeze"
  <2>1. Parses(spec.freezeAt) /\ spec.freezeAt \in Text
    BY <1>4 DEF CompileFails, Sound, IsView
  <2>2. a = [virtual |-> Instant(spec.freezeAt), epoch |-> t]
    BY <1>4 DEF Anchor
  <2> QED
    BY <1>1, <2>1, <2>2, ParsedInstant
<1>5. CASE spec.mode \notin {"rate", "absolute", "freeze"}
  <2>1. a = [virtual |-> t.wall + spec.offset, epoch |-> t]
    BY <1>5 DEF Anchor
  <2>2. spec.offset \in Int
    BY DEF Sound, IsView
  <2> QED
    BY <1>1, <2>1, <2>2
<1> QED
  BY <1>2, <1>3, <1>4, <1>5

----------------------------------------------------------------------------
(* The invariant of served time: what is installed, being compiled or held *)
(* by a handler is made of compiled views that started before now.         *)

(* Compile, with the instant it reads as an argument.                      *)
Snapshot(filter, t, gen, boot, prev) ==
  [gen |-> gen, boot |-> boot,
   view |-> {compileView(materializeView(spec), t, gen, prev) : spec \in filter}]

Started(v, t) == Compiled(v) /\ v.epoch.mono <= t.mono

SnapshotInv(s, t) ==
  /\ s.gen \in Nat /\ s.boot \in Nat /\ s.boot <= s.gen
  /\ AtMostOne(s.view) /\ \A v \in s.view : Started(v, t)

NowInv == now \in Moment /\ now.mono <= MaxTime /\ now.wall - now.mono \in 0 .. MaxSteps

StoreInv == SnapshotInv(store, now)

(* What has been compiled is an apply's or a reset's, of some filter, from *)
(* the snapshot that is still installed, at an instant not after now.      *)
MadeFrom(c, filter, t, prev) ==
  /\ filter \in Filters /\ Compiles(filter, prev)
  /\ t \in Moment /\ t.mono <= now.mono /\ t.wall \in 0 .. MaxTime + MaxSteps
  /\ \A p \in prev : Started(p, t)
  /\ \/ prev = store.view /\ c = Snapshot(filter, t, store.gen + 1, store.boot, prev)
     \/ prev = {} /\ c = Snapshot(filter, t, store.gen + 1, store.gen + 1, prev)

CompiledInv ==
  \/ compiled = <<>>
  \/ \E c, filter, t, prev : compiled = <<c>> /\ MadeFrom(c, filter, t, prev)

Held(p) ==
  \/ p = <<>>
  \/ \E t \in Moment : p = <<t>>
  \/ \E t \in Moment : \E v : p = <<t, v>> /\ Started(v, now)

PacketsInv == packets = [h \in Handlers |-> packets[h]] /\ \A h \in Handlers : Held(packets[h])

ClockInv == NowInv /\ StoreInv /\ CompiledInv /\ PacketsInv

(* What a compilation that does not fail yields.                           *)
LEMMA SnapshotIs ==
  ASSUME NEW filter, NEW t \in Moment, NEW gen \in Nat, NEW boot \in Nat,
         boot <= gen, NEW prev, \A p \in prev : Started(p, t), AtMostOne(filter),
         filter \subseteq Views \cup {BootView}, Compiles(filter, prev)
  PROVE  SnapshotInv(Snapshot(filter, t, gen, boot, prev), t)
<1> DEFINE s == Snapshot(filter, t, gen, boot, prev)
<1>1. \A v \in s.view : \E spec \in filter :
        v = compileView(materializeView(spec), t, gen, prev)
  BY DEF Snapshot
<1>2. AtMostOne(s.view)
  BY <1>1 DEF AtMostOne
<1>3. ASSUME NEW spec \in filter
      PROVE  Started(compileView(materializeView(spec), t, gen, prev), t)
  <2> DEFINE m == materializeView(spec)
             a == Anchor(m, t, prev)
  <2>1. IsView(spec)
    BY ViewClockAssumption
  <2>2. Sound(m)
    BY <2>1, Materialized DEF Sound, Compiles
  <2>3. \A p \in prev : Compiled(p) /\ p.epoch.mono <= t.mono
    BY DEF Started
  <2>4. ~CompileFails(m, prev)
    <3>1. ~CompileFails(spec, prev)
      BY DEF Compiles
    <3>2. m.mode = spec.mode /\ m.absolute = spec.absolute /\ m.freezeAt = spec.freezeAt
          /\ m.rate = spec.rate /\ m.epoch = spec.epoch
      BY <2>1, Materialized
    <3> HIDE DEF m
    <3>3. Kept(m, prev) = Kept(spec, prev)
      BY <3>2 DEF Kept, rateEqual, sameEpochYAML
    <3> QED
      BY <3>1, <3>2, <3>3 DEF CompileFails
  <2> HIDE DEF m
  <2>5. a.virtual \in Int /\ a.epoch \in Moment /\ a.epoch.mono <= t.mono
    BY <2>2, <2>3, <2>4, Anchored
  <2>6. compileView(m, t, gen, prev)
          = [spec |-> m, gen |-> gen, virtual |-> a.virtual, epoch |-> a.epoch]
    BY DEF compileView
  <2> HIDE DEF a
  <2>7. Started(compileView(m, t, gen, prev), t)
    BY <2>2, <2>5, <2>6 DEF Started, Compiled
  <2> QED
    BY <2>7 DEF m
<1>4. \A v \in s.view : Started(v, t)
  BY <1>1, <1>3
<1>5. s.gen = gen /\ s.boot = boot
  BY DEF Snapshot
<1> QED
  BY <1>2, <1>4, <1>5 DEF SnapshotInv

(* A snapshot stays sound as time goes on.                                 *)
LEMMA LaterIsSound ==
  ASSUME NEW t \in Moment, NEW u \in Moment, t.mono <= u.mono
  PROVE  /\ \A v : Started(v, t) => Started(v, u)
         /\ \A s : SnapshotInv(s, t) => SnapshotInv(s, u)
<1>1. \A v : Started(v, t) => Started(v, u)
  BY DEF Started, Compiled, Moment
<1> QED
  BY <1>1 DEF SnapshotInv

(* Filters have at most one view, of those asked for.                      *)
LEMMA FilterIs ==
  ASSUME NEW filter \in Filters
  PROVE  AtMostOne(filter) /\ filter \subseteq Views
  BY DEF Filters, AtMostOne

(* What has been compiled is still sound when it is installed.             *)
LEMMA MadeIsSound ==
  ASSUME NowInv, StoreInv, NEW c, NEW filter, NEW t, NEW prev,
         MadeFrom(c, filter, t, prev)
  PROVE  SnapshotInv(c, now)
<1>1. AtMostOne(filter) /\ filter \subseteq Views \cup {BootView}
  BY FilterIs DEF MadeFrom
<1>2. store.gen + 1 \in Nat /\ store.boot \in Nat /\ store.boot <= store.gen + 1
  BY DEF StoreInv, SnapshotInv
<1>3. SnapshotInv(c, t)
  BY <1>1, <1>2, SnapshotIs DEF MadeFrom
<1> QED
  BY <1>3, LaterIsSound DEF MadeFrom, NowInv

(* The process starts with the boot file's view, compiled at time 0.       *)
LEMMA ClockStarts ==
  ASSUME Init
  PROVE  ClockInv
<1>1. NowInv
  BY ViewClockAssumption DEF NowInv, Moment, Init
<1>2. store = Snapshot({BootView}, now, 0, 0, {})
  BY DEF Init, Compile, Snapshot
<1>3. StoreInv
  <2>1. Compiles({BootView}, {}) /\ AtMostOne({BootView})
    BY ViewClockAssumption DEF AtMostOne
  <2> QED
    BY <1>1, <1>2, <2>1, SnapshotIs DEF StoreInv, NowInv
<1>4. CompiledInv
  BY DEF CompiledInv, Init
<1>5. PacketsInv
  BY DEF PacketsInv, Held, Init
<1> QED
  BY <1>1, <1>3, <1>4, <1>5 DEF ClockInv

(* Time that goes on, or a wall clock that is stepped, disturbs nothing    *)
(* that was computed before.                                               *)
LEMMA TimePasses ==
  ASSUME ClockInv, NowInv', now.mono <= now'.mono,
         UNCHANGED <<store, compiled, packets>>
  PROVE  ClockInv'
<1>1. now \in Moment /\ now' \in Moment
  BY DEF ClockInv, NowInv
<1>2. StoreInv'
  BY <1>1, LaterIsSound DEF ClockInv, StoreInv
<1>3. CompiledInv'
  <2>1. CASE compiled = <<>>
    BY <2>1 DEF CompiledInv
  <2>2. ASSUME NEW c, NEW filter, NEW t, NEW prev, compiled = <<c>>,
               MadeFrom(c, filter, t, prev)
        PROVE  CompiledInv'
    <3>1. t.mono <= now'.mono
      BY <1>1, <2>2 DEF MadeFrom, Moment
    <3>2. MadeFrom(c, filter, t, prev)'
      BY <2>2, <3>1 DEF MadeFrom
    <3> QED
      BY <2>2, <3>2 DEF CompiledInv
  <2> QED
    BY <2>1, <2>2 DEF ClockInv, CompiledInv
<1>4. PacketsInv'
  <2>1. \A p : Held(p) => Held(p)'
    BY <1>1, LaterIsSound DEF Held
  <2> QED
    BY <2>1 DEF ClockInv, PacketsInv
<1> QED
  BY <1>2, <1>3, <1>4 DEF ClockInv

(* A sequence of one, and one more.                                        *)
LEMMA AppendToOne ==
  ASSUME NEW x, NEW y
  PROVE  Append(<<x>>, y) = <<x, y>>
<1>1. <<x>> \in Seq({x, y}) /\ Len(<<x>>) = 1 /\ <<x>>[1] = x
  OBVIOUS
<1>2. Append(<<x>>, y) \in Seq({x, y}) /\ Len(Append(<<x>>, y)) = 2
  BY <1>1
<1>3. Append(<<x>>, y)[1] = x /\ Append(<<x>>, y)[2] = y
  BY <1>1
<1>4. <<x, y>> \in Seq({x, y}) /\ Len(<<x, y>>) = 2 /\ <<x, y>>[1] = x /\ <<x, y>>[2] = y
  OBVIOUS
<1>5. \A i \in 1 .. 2 : i = 1 \/ i = 2
  OBVIOUS
<1> QED
  BY <1>2, <1>3, <1>4, <1>5, SeqEqual

(* Every step keeps it.                                                    *)
LEMMA ClockKeeps ==
  ASSUME ClockInv, [Next]_vars
  PROVE  ClockInv'
<1>1. CASE Tick
  <2>1. NowInv' /\ now.mono <= now'.mono
    BY <1>1, ViewClockAssumption DEF Tick, ClockInv, NowInv, Moment
  <2> QED
    BY <1>1, <2>1, TimePasses DEF Tick
<1>2. CASE StepWall
  <2>1. PICK d \in {-1, 1} : /\ now.wall + d - now.mono \in 0 .. MaxSteps
                             /\ now' = [now EXCEPT !.wall = @ + d]
    BY <1>2 DEF StepWall
  <2>2. now' = [mono |-> now.mono, wall |-> now.wall + d]
    BY <2>1 DEF ClockInv, NowInv, Moment
  <2>3. NowInv' /\ now.mono <= now'.mono
    BY <2>1, <2>2 DEF ClockInv, NowInv, Moment
  <2> QED
    BY <1>2, <2>3, TimePasses DEF StepWall
<1>3. ASSUME CompiledInv', UNCHANGED <<now, store, packets>>
      PROVE  ClockInv'
  BY <1>3 DEF ClockInv, NowInv, StoreInv, PacketsInv, Held
<1>13. now \in Moment /\ now.mono <= now.mono /\ now.wall \in 0 .. MaxTime + MaxSteps
  BY ViewClockAssumption DEF ClockInv, NowInv, Moment
<1>4. CASE ApplyCompiles
  <2>1. PICK filter \in Filters :
          /\ Compiles(filter, store.view)
          /\ compiled' = <<Compile(filter, store.gen + 1, store.boot, store.view)>>
    BY <1>4 DEF ApplyCompiles
  <2> DEFINE c == Snapshot(filter, now, store.gen + 1, store.boot, store.view)
  <2>2. compiled' = <<c>> /\ UNCHANGED <<now, store, packets>>
    BY <1>4, <2>1 DEF Compile, Snapshot, ApplyCompiles
  <2>3. \A p \in store.view : Started(p, now)
    BY DEF ClockInv, StoreInv, SnapshotInv
  <2>4. MadeFrom(c, filter, now, store.view)'
    BY <1>13, <2>1, <2>2, <2>3 DEF MadeFrom
  <2>5. CompiledInv'
    BY <2>2, <2>4 DEF CompiledInv
  <2> QED
    BY <1>3, <2>2, <2>5
<1>5. CASE ResetCompiles
  <2>1. PICK filter \in Filters :
          /\ Compiles(filter, {})
          /\ compiled' = <<Compile(filter, store.gen + 1, store.gen + 1, {})>>
    BY <1>5 DEF ResetCompiles
  <2> DEFINE c == Snapshot(filter, now, store.gen + 1, store.gen + 1, {})
  <2>2. compiled' = <<c>> /\ UNCHANGED <<now, store, packets>>
    BY <1>5, <2>1 DEF Compile, Snapshot, ResetCompiles
  <2>3. MadeFrom(c, filter, now, {})'
    BY <1>13, <2>1, <2>2 DEF MadeFrom
  <2>4. CompiledInv'
    BY <2>2, <2>3 DEF CompiledInv
  <2> QED
    BY <1>3, <2>2, <2>4
<1>6. CASE Fails
  BY <1>6 DEF Fails, ClockInv, NowInv, StoreInv, CompiledInv, PacketsInv, Held
<1>7. CASE Swap
  <2>1. PICK c, filter, t, prev : compiled = <<c>> /\ MadeFrom(c, filter, t, prev)
    BY <1>7 DEF Swap, ClockInv, CompiledInv
  <2>2. store' = c /\ compiled' = <<>>
    BY <1>7, <2>1 DEF Swap
  <2>3. SnapshotInv(c, now)
    BY <2>1, MadeIsSound DEF ClockInv
  <2>4. StoreInv' /\ CompiledInv'
    BY <1>7, <2>2, <2>3 DEF Swap, StoreInv, CompiledInv
  <2>5. NowInv' /\ PacketsInv'
    BY <1>7 DEF Swap, ClockInv, NowInv, PacketsInv, Held
  <2> QED
    BY <2>4, <2>5 DEF ClockInv
<1>8. ASSUME NEW h \in Handlers, NEW p, Held(p), packets' = [packets EXCEPT ![h] = p],
             UNCHANGED <<now, store, compiled>>
      PROVE  ClockInv'
  <2>1. PacketsInv'
    <3>1. \A q : Held(q) => Held(q)'
      BY <1>8 DEF Held
    <3> QED
      BY <1>8, <3>1 DEF ClockInv, PacketsInv
  <2>2. NowInv' /\ StoreInv' /\ CompiledInv'
    BY <1>8 DEF ClockInv, NowInv, StoreInv, CompiledInv, MadeFrom
  <2> QED
    BY <2>1, <2>2 DEF ClockInv
<1>9. ASSUME NEW h \in Handlers, Receive(h)
      PROVE  ClockInv'
  <2>1. Held(<<now>>)
    BY DEF Held, ClockInv, NowInv
  <2> QED
    BY <1>8, <1>9, <2>1 DEF Receive
<1>10. ASSUME NEW h \in Handlers, Load(h)
       PROVE  ClockInv'
  <2>1. PICK t \in Moment : packets[h] = <<t>>
    BY <1>10 DEF Load, ClockInv, PacketsInv, Held
  <2>2. CASE store.view = {}
    <3>1. packets' = [packets EXCEPT ![h] = <<>>]
      BY <1>10, <2>2 DEF Load
    <3> QED
      BY <1>8, <1>10, <3>1 DEF Load, Held
  <2>3. CASE store.view # {}
    <3>1. packets' = [packets EXCEPT ![h] = <<t, Sole(store.view)>>]
      <4>1. packets' = [packets EXCEPT ![h] = Append(packets[h], Sole(store.view))]
        BY <1>10, <2>3 DEF Load
      <4> QED
        BY <2>1, <4>1, AppendToOne
    <3>2. Started(Sole(store.view), now)
      BY <2>3, SoleMember DEF ClockInv, StoreInv, SnapshotInv
    <3>3. Held(<<t, Sole(store.view)>>)
      BY <3>2 DEF Held
    <3> QED
      BY <1>8, <1>10, <3>1, <3>3 DEF Load
  <2> QED
    BY <2>2, <2>3
<1>11. ASSUME NEW h \in Handlers, Reply(h)
       PROVE  ClockInv'
  BY <1>8, <1>11 DEF Reply, Held
<1>12. CASE UNCHANGED vars
  BY <1>12 DEF vars, ClockInv, NowInv, StoreInv, CompiledInv, MadeFrom, PacketsInv, Held
<1> QED
  BY <1>1, <1>2, <1>4, <1>5, <1>6, <1>7, <1>9, <1>10, <1>11, <1>12 DEF Next

(* Served time is kept by compiled views only, started before now.         *)
THEOREM ClockIsSound == Spec => []ClockInv
<1>1. Init => ClockInv
  BY ClockStarts
<1>2. ClockInv /\ [Next]_vars => ClockInv'
  BY ClockKeeps
<1> QED
  BY <1>1, <1>2, PTL DEF Spec

----------------------------------------------------------------------------
(* The times of a reply.                                                   *)

(* A view without jitter has none.                                         *)
LEMMA NoJitter ==
  ASSUME NEW v, Compiled(v), v.spec.jitter = 0, NEW second \in Int
  PROVE  JitterDelta(v, second) = 0
<1>1. \A x \in Int : x % 1 = 0
  OBVIOUS
<1>2. v.gen * 2 + second \in Int
  BY DEF Compiled
<1>3. JitterDelta(v, second) = ((v.gen * 2 + second) % (2 * v.spec.jitter + 1)) - v.spec.jitter
  BY DEF JitterDelta
<1>4. JitterDelta(v, second) = ((v.gen * 2 + second) % 1) - 0
  BY <1>3
<1> QED
  BY <1>1, <1>2, <1>4

(* What a handler answers by a view without jitter.                        *)
LEMMA AnswerIs ==
  ASSUME NEW v, Compiled(v), v.spec.jitter = 0,
         NEW recv \in Moment, NEW xmt \in Moment
  PROVE  LET r == Answer(v, recv, xmt) IN
         /\ r.view = v /\ r.recv = recv /\ r.xmt = xmt
         /\ r.recTime = Served(v, recv) /\ r.xmtTime = Served(v, xmt)
         /\ r.refTime = ClampServed(RefTime(v, Served(v, xmt)))
<1>1. JitterDelta(v, recv.wall) = 0
  BY NoJitter DEF Moment
<1>2. /\ Served(v, recv) + 0 = Served(v, recv)
      /\ Served(v, xmt) + 0 = Served(v, xmt)
  BY ServedInRange
<1>3. RefTime(v, Served(v, xmt)) + 0 = RefTime(v, Served(v, xmt))
  BY ServedInRange DEF RefTime, Compiled
<1>4. /\ ClampServed(Served(v, recv)) = Served(v, recv)
      /\ ClampServed(Served(v, xmt)) = Served(v, xmt)
  BY ServedInRange, Clamped DEF Served
<1> QED
  BY <1>1, <1>2, <1>3, <1>4 DEF Answer

(* Between two instants at which it has not stopped, a clock runs for as   *)
(* long as its rate times the host's.                                      *)
LEMMA RunsBetween ==
  ASSUME NEW v, Compiled(v), NEW t \in Moment, NEW u \in Moment,
         v.spec.mode \in {"absolute", "freeze", "rate"}, Runs(v, t), Runs(v, u)
  PROVE  servedUnclamped(v, u) - servedUnclamped(v, t)
           = Rate(v) * (u.mono - t.mono)
<1> DEFINE R == Rate(v)
<1>1. /\ v.epoch.mono \in Int /\ t.mono \in Int /\ u.mono \in Int /\ R \in Int /\ v.virtual \in Int
  BY RateIs DEF Compiled, Moment
<1>2. /\ (t.mono - v.epoch.mono) * R \in Int /\ (u.mono - v.epoch.mono) * R \in Int
  BY <1>1, Product
<1>3. /\ servedUnclamped(v, t) = v.virtual + (t.mono - v.epoch.mono) * R
      /\ servedUnclamped(v, u) = v.virtual + (u.mono - v.epoch.mono) * R
  BY <1>2, ServedIs, Saturated DEF Runs
<1> HIDE DEF R
<1>4. (v.virtual + (u.mono - v.epoch.mono) * R) - (v.virtual + (t.mono - v.epoch.mono) * R)
        = R * (u.mono - t.mono)
  <2> DEFINE e == v.epoch.mono
             a == t.mono
             b == u.mono
             w == v.virtual
  <2>1. e \in Int /\ a \in Int /\ b \in Int /\ w \in Int
    BY <1>1
  <2> HIDE DEF e, a, b, w
  <2>2. (w + (b - e) * R) - (w + (a - e) * R) = R * (b - a)
    BY <1>1, <2>1
  <2> QED
    BY <2>2 DEF e, a, b, w
<1> QED
  BY <1>3, <1>4 DEF R

(* A clock that runs forward is at or after its anchor from then on.       *)
LEMMA RunsForward ==
  ASSUME NEW v, Compiled(v), NEW t \in Moment, v.epoch.mono <= t.mono,
         v.spec.mode \in {"absolute", "freeze", "rate"}, Rate(v) >= 0
  PROVE  v.virtual <= servedUnclamped(v, t)
<1> DEFINE ran == (t.mono - v.epoch.mono) * Rate(v)
<1>1. v.epoch.mono \in Int /\ t.mono \in Int /\ Rate(v) \in Int /\ v.virtual \in Int
  BY RateIs DEF Compiled, Moment
<1>2. ASSUME NEW a \in Int, NEW b \in Int, a >= 0, b >= 0
      PROVE  a * b >= 0
  BY <1>2
<1>3. ran \in Int /\ ran >= 0
  BY <1>1, <1>2, Product
<1>4. servedUnclamped(v, t) = v.virtual + saturatingDuration(ran)
  BY ServedIs
<1> HIDE DEF ran
<1>5. saturatingDuration(ran) \in Int /\ saturatingDuration(ran) >= 0
  BY <1>3, Saturated, ViewClockAssumption
<1> QED
  BY <1>1, <1>4, <1>5

\* RepliesAreConsistent of one reply.
Consistent(r) ==
  /\ r.view.spec.jitter = 0 /\ Inside(r.recTime) /\ Inside(r.xmtTime)
       => \/ r.xmtTime - r.recTime
               = IF r.view.spec.mode \in {"follow-real", "offset"} THEN r.xmt.wall - r.recv.wall
                 ELSE Rate(r.view) * (r.xmt.mono - r.recv.mono)
          \/ ~Runs(r.view, r.recv) \/ ~Runs(r.view, r.xmt)
  /\ r.view.spec.jitter = 0 /\ Rate(r.view) >= 0 => r.refTime <= r.xmtTime

(* A reply is consistent, whatever view it is made from and however long   *)
(* its handler took.                                                       *)
LEMMA AnswersAgree ==
  ASSUME NEW recv \in Moment, NEW xmt \in Moment, NEW v, Started(v, xmt)
  PROVE  Consistent(Answer(v, recv, xmt))
<1> DEFINE r == Answer(v, recv, xmt)
<1>1. Compiled(v) /\ v.epoch.mono <= xmt.mono
  BY DEF Started
<1>2. CASE v.spec.jitter # 0
  BY <1>2 DEF Consistent, Answer
<1>3. CASE v.spec.jitter = 0
  <2>1. /\ r.view = v /\ r.recv = recv /\ r.xmt = xmt
        /\ r.recTime = Served(v, recv) /\ r.xmtTime = Served(v, xmt)
        /\ r.refTime = ClampServed(RefTime(v, Served(v, xmt)))
    BY <1>1, <1>3, AnswerIs
  <2> DEFINE from == servedUnclamped(v, recv)
             to   == servedUnclamped(v, xmt)
  <2>2. from \in Int /\ to \in Int
    BY <1>1, ServedInRange
  <2>3. Served(v, recv) = ClampServed(from) /\ Served(v, xmt) = ClampServed(to)
    BY DEF Served
  <2>4. v.spec.mode \in {"absolute", "freeze", "rate", "follow-real", "offset"}
    BY <1>1, ServedIs
  <2>5. v.spec.mode \in {"follow-real", "offset"} => to - from = xmt.wall - recv.wall
    <3>1. v.spec.offset \in Int /\ xmt.wall \in Int /\ recv.wall \in Int
      BY <1>1 DEF Compiled, Sound, IsView, Moment
    <3> QED
      BY <1>1, <3>1, ServedIs
  <2>6. v.spec.mode \in {"absolute", "freeze", "rate"} /\ Runs(v, recv) /\ Runs(v, xmt)
          => to - from = Rate(v) * (xmt.mono - recv.mono)
    BY <1>1, RunsBetween
  <2>7. Rate(v) >= 0 =>
          ClampServed(RefTime(v, ClampServed(to))) <= ClampServed(to)
    <3>1. CASE v.spec.mode \in {"freeze", "rate"}
      <4>1. RefTime(v, ClampServed(to)) = v.virtual
        BY <3>1 DEF RefTime
      <4>2. v.virtual \in Int
        BY <1>1 DEF Compiled
      <4>3. Rate(v) >= 0 => v.virtual <= to
        BY <1>1, <3>1, RunsForward
      <4> HIDE DEF to
      <4> QED
        BY <2>2, <4>1, <4>2, <4>3, Clamped
    <3>2. CASE v.spec.mode \notin {"freeze", "rate"}
      <4>1. RefTime(v, ClampServed(to)) = ClampServed(to)
        BY <3>2 DEF RefTime
      <4> HIDE DEF to
      <4>2. ClampServed(to) \in Int
            /\ ClampServed(ClampServed(to)) = ClampServed(to)
        BY <2>2, Clamped
      <4> QED
        BY <4>1, <4>2
    <3> QED
      BY <3>1, <3>2
  <2> HIDE DEF from, to
  <2>8. /\ Inside(ClampServed(from)) => ClampServed(from) = from
        /\ Inside(ClampServed(to)) => ClampServed(to) = to
    BY <2>2, Clamped
  <2> HIDE DEF r
  <2>9. Consistent(r)
    BY <2>1, <2>3, <2>4, <2>5, <2>6, <2>7, <2>8 DEF Consistent
  <2> QED
    BY <2>9 DEF r
<1> QED
  BY <1>2, <1>3

(* Away from the ends of the range the times of a reply are as far apart   *)
(* as its view's clock ran while the packet was handled, and no reference  *)
(* time is later than the transmit time of a clock that runs forward,      *)
(* whatever is installed and however the wall clock is stepped meanwhile   *)
(* (handle.go and view.go).                                                *)
THEOREM RepliesAreConsistentAlways == Spec => []RepliesAreConsistent
<1>1. (\A r \in sent : Consistent(r)) <=> RepliesAreConsistent
  BY DEF Consistent, RepliesAreConsistent
<1>2. Init => RepliesAreConsistent
  BY DEF Init, RepliesAreConsistent
<1>3. ClockInv /\ RepliesAreConsistent /\ [Next]_vars
        => RepliesAreConsistent'
  <2> SUFFICES ASSUME ClockInv, \A r \in sent : Consistent(r), [Next]_vars
               PROVE  \A r \in sent' : Consistent(r)
    BY <1>1 DEF Consistent, RepliesAreConsistent
  <2>1. ASSUME NEW h \in Handlers, Reply(h)
        PROVE  \A r \in sent' : Consistent(r)
    <3>1. PICK t, v : t \in Moment /\ packets[h] = <<t, v>> /\ Started(v, now)
      BY <2>1 DEF Reply, ClockInv, PacketsInv, Held
    <3>2. sent' = {Answer(v, t, now)}
      BY <2>1, <3>1 DEF Reply
    <3> QED
      BY <3>1, <3>2, AnswersAgree DEF ClockInv, NowInv
  <2>2. CASE UNCHANGED vars
    BY <2>2 DEF vars
  <2>3. ASSUME sent' = {}
        PROVE  \A r \in sent' : Consistent(r)
    BY <2>3
  <2> QED
    BY <2>1, <2>2, <2>3 DEF Next, Tick, StepWall, ApplyCompiles,
       ResetCompiles, Fails, Swap, Receive, Load
<1> QED
  BY <1>2, <1>3, ClockIsSound, PTL DEF Spec

----------------------------------------------------------------------------
(* A rate view is the clock VirtualClock promises, as long as the instants *)
(* its epochs are given by are no further from the range than what a       *)
(* duration spans beyond it.                                               *)

Near(i) == i \in Ceil - MaxDuration .. Floor + MaxDuration

InstantsNear ==
  /\ \A i \in 0 .. MaxTime + MaxSteps : Near(i)
  /\ \A spec \in Views \cup {BootView} :
       Parses(spec.epoch) => Near(Instant(spec.epoch))

NearInv == \A v \in store.view : v.spec.mode = "rate" => Near(v.virtual)

(* From such an instant it cannot be seen that a duration saturates.       *)
LEMMA SaturationUnseen ==
  ASSUME NEW i \in Int, Near(i), NEW d \in Int
  PROVE  ClampServed(i + saturatingDuration(d)) = ClampServed(i + d)
<1>1. CASE d \in -MaxDuration .. MaxDuration
  BY <1>1, Saturated
<1>2. CASE d > MaxDuration
  <2>1. saturatingDuration(d) = MaxDuration
    BY <1>2, Saturated
  <2>2. i + MaxDuration >= Ceil /\ i + d >= Ceil /\ Floor < Ceil
    BY <1>2, ViewClockAssumption DEF Near
  <2> QED
    BY <2>1, <2>2, ViewClockAssumption DEF ClampServed
<1>3. CASE d < -MaxDuration
  <2>1. saturatingDuration(d) = -MaxDuration
    BY <1>3, Saturated
  <2>2. i - MaxDuration <= Floor /\ i + d <= Floor /\ Floor < Ceil
    BY <1>3, ViewClockAssumption DEF Near
  <2> QED
    BY <2>1, <2>2, ViewClockAssumption DEF ClampServed
<1> QED
  BY <1>1, <1>2, <1>3, ViewClockAssumption

\* Where the clock of a rate view is, without bounds.
Hand(v, t) == v.virtual + (t.mono - v.epoch.mono) * Rate(v)

(* A rate view that starts near shows its hand: saturation is not seen.    *)
LEMMA ShowsHand ==
  ASSUME NEW v, Compiled(v), v.spec.mode = "rate", Near(v.virtual),
         NEW t \in Moment
  PROVE  Hand(v, t) \in Int /\ Served(v, t) = ClampServed(Hand(v, t))
<1> DEFINE ran == (t.mono - v.epoch.mono) * Rate(v)
<1>1. ran \in Int /\ v.virtual \in Int
  BY ServedIs DEF Compiled
<1>2. servedUnclamped(v, t) = v.virtual + saturatingDuration(ran)
  BY ServedIs
<1>3. Hand(v, t) = v.virtual + ran
  BY DEF Hand
<1> HIDE DEF ran
<1> QED
  BY <1>1, <1>2, <1>3, SaturationUnseen DEF Served

(* A clock moves on by its rate times what has passed.                     *)
LEMMA HandMoves ==
  ASSUME NEW v, Compiled(v), NEW t \in Moment, NEW u \in Moment
  PROVE  Hand(v, u) = Hand(v, t) + Rate(v) * (u.mono - t.mono)
<1> DEFINE R == Rate(v)
<1>1. /\ v.epoch.mono \in Int /\ t.mono \in Int /\ u.mono \in Int /\ R \in Int /\ v.virtual \in Int
  BY RateIs DEF Compiled, Moment
<1>2. ASSUME NEW e \in Int, NEW a \in Int, NEW b \in Int, NEW q \in Int, NEW w \in Int
      PROVE  w + (b - e) * q = (w + (a - e) * q) + q * (b - a)
  OBVIOUS
<1> HIDE DEF R
<1>3. v.virtual + (u.mono - v.epoch.mono) * R
        = (v.virtual + (t.mono - v.epoch.mono) * R) + R * (u.mono - t.mono)
  BY <1>1, <1>2
<1> QED
  BY <1>3 DEF R, Hand

(* Two rate views have the same rate when they were asked for the same.    *)
LEMMA SameRate ==
  ASSUME NEW v, NEW p, Compiled(v), Compiled(p), v.spec.mode = "rate"
  PROVE  /\ rateEqual(p, v.spec) => p.spec.mode = "rate" /\ Rate(p) = Rate(v)
         /\ p.spec.mode = "rate" /\ Rate(p) = Rate(v) => rateEqual(p, v.spec)
<1>1. \A q : Compiled(q) /\ q.spec.mode = "rate" =>
        q.spec.rate = {Rate(q)} /\ Rate(q) = Sole(q.spec.rate)
  <2> SUFFICES ASSUME NEW q, Compiled(q), q.spec.mode = "rate"
               PROVE  q.spec.rate = {Rate(q)} /\ Rate(q) = Sole(q.spec.rate)
    OBVIOUS
  <2>1. \A x, y \in q.spec.rate : x = y
    BY DEF Compiled, Sound, IsView
  <2>2. Rate(q) = Sole(q.spec.rate)
    BY DEF Rate
  <2> QED
    BY <2>1, <2>2, RateIs
<1>2. p.spec.rate # {} => p.spec.mode = "rate"
  BY RateMode DEF Compiled
<1> QED
  BY <1>1, <1>2 DEF rateEqual

(* What VirtualClock is told: its variables as ViewClock's instance of it  *)
(* has them, and what they are when there is a rate view.                  *)
Nothing == [rate |-> 0, epoch |-> <<>>, boot |-> -1]
AskedBy(s, v) == [rate |-> Rate(v), epoch |-> v.spec.epoch, boot |-> s.boot]

TheView == Sole(RateView)
asked == IF RateView = {} THEN Nothing ELSE AskedBy(store, TheView)
hand  == IF RateView = {} THEN 0 ELSE Hand(TheView, now)
shown == IF RateView = {} THEN 0 ELSE Served(TheView, now)

Tells ==
  /\ RateView = {} => asked = Nothing /\ hand = 0 /\ shown = 0
  /\ RateView # {} => asked # Nothing
  /\ \A v \in RateView :
       /\ asked = AskedBy(store, v) /\ hand = Hand(v, now) /\ shown = Served(v, now)
       /\ asked.rate = Rate(v) /\ asked.epoch = v.spec.epoch /\ asked.boot = store.boot

(* The three variables of VirtualClock say this of the installed view.     *)
LEMMA Told == StoreInv => Tells
<1> SUFFICES ASSUME StoreInv
             PROVE  Tells
  OBVIOUS
<1>1. ASSUME NEW v \in RateView
      PROVE  /\ asked = AskedBy(store, v) /\ hand = Hand(v, now) /\ shown = Served(v, now)
             /\ asked # Nothing /\ asked.rate = Rate(v) /\ asked.epoch = v.spec.epoch
             /\ asked.boot = store.boot
  <2>1. TheView = v
    <3>1. TheView \in RateView
      BY SoleMember DEF TheView
    <3> QED
      BY <3>1 DEF RateView, StoreInv, SnapshotInv, AtMostOne
  <2>2. asked = AskedBy(store, v) /\ hand = Hand(v, now) /\ shown = Served(v, now)
    BY <2>1 DEF asked, hand, shown
  <2>3. store.boot # -1
    BY DEF StoreInv, SnapshotInv
  <2>4. asked.boot = store.boot /\ asked.rate = Rate(v) /\ asked.epoch = v.spec.epoch
    BY <2>2 DEF AskedBy
  <2>5. asked # Nothing
    BY <2>3, <2>4 DEF Nothing
  <2> QED
    BY <2>2, <2>4, <2>5
<1>2. RateView = {} => asked = Nothing /\ hand = 0 /\ shown = 0
  BY DEF asked, hand, shown
<1> QED
  BY <1>1, <1>2 DEF Tells

(* VirtualClock's steps in these terms.                                    *)
VirtualStep == [Virtual!Next]_(Virtual!vars)

(* A clock that runs for one tick more is a step of VirtualClock.          *)
LEMMA ToldTick ==
  ASSUME asked # Nothing, asked' = asked, hand' = hand + asked.rate,
         shown' = ClampServed(hand')
  PROVE  VirtualStep
  BY DEF VirtualStep, asked, hand, shown, TheView, AskedBy, Hand, Nothing, ClampServed,
     Virtual!Next, Virtual!Tick, Virtual!Running, Virtual!Nothing,
     Virtual!Shows, Virtual!Clamp

(* So is one that is taken away.                                           *)
LEMMA ToldStop ==
  ASSUME asked # Nothing, asked' = Nothing, hand' = 0, shown' = 0
  PROVE  VirtualStep
  BY DEF VirtualStep, asked, hand, shown, TheView, AskedBy, Hand, Nothing, ClampServed,
     Virtual!Next, Virtual!Stop, Virtual!Running, Virtual!Nothing,
     Virtual!Shows, Virtual!Clamp

(* So is one that is set, to the epoch written or to the host's time.      *)
LEMMA ToldSet ==
  ASSUME asked' # Nothing, asked' # asked, shown' = ClampServed(hand'),
         asked'.epoch # <<>> =>
           \E lag \in 0 .. MaxTime : hand' = asked'.epoch[2] + asked'.rate * lag,
         asked # Nothing /\ asked.boot = asked'.boot =>
           asked'.epoch # asked.epoch \/ asked'.epoch # <<>>
  PROVE  VirtualStep
  BY DEF VirtualStep, asked, hand, shown, TheView, AskedBy, Hand, Nothing, ClampServed,
     Virtual!Next, Virtual!Set, Virtual!Running, Virtual!Nothing,
     Virtual!Shows, Virtual!Clamp, Virtual!Started

(* So is one whose rate changes, that goes on from what it showed.         *)
LEMMA ToldChange ==
  ASSUME asked # Nothing, asked' # Nothing, shown' = ClampServed(hand'),
         asked'.rate # asked.rate, asked'.epoch = <<>>, asked'.boot = asked.boot,
         \E lag \in 0 .. MaxTime :
           hand' = ClampServed(hand - asked.rate * lag) + asked'.rate * lag
  PROVE  VirtualStep
  BY DEF VirtualStep, asked, hand, shown, TheView, AskedBy, Hand, Nothing, ClampServed,
     Virtual!Next, Virtual!ChangeRate, Virtual!Running, Virtual!Nothing,
     Virtual!Shows, Virtual!Clamp, Virtual!Started

(* A clock that shows its hand is one as VirtualClock starts.              *)
LEMMA ToldInit ==
  ASSUME shown = IF asked # Nothing THEN ClampServed(hand) ELSE 0,
         asked = Nothing => hand = 0
  PROVE  Virtual!Init
  BY DEF asked, hand, shown, TheView, AskedBy, Hand, Nothing, ClampServed,
     Virtual!Init, Virtual!Running, Virtual!Nothing, Virtual!Clamp

(* Nothing changed is no step of it.                                       *)
LEMMA ToldStutter ==
  ASSUME asked' = asked, hand' = hand, shown' = shown
  PROVE  VirtualStep
  BY DEF VirtualStep, asked, hand, shown, TheView, AskedBy, Hand, Nothing, Virtual!vars

(* A rate view that was compiled, and from what.                           *)
LEMMA MadeView ==
  ASSUME NowInv, StoreInv, NEW c, NEW filter, NEW t, NEW prev,
         MadeFrom(c, filter, t, prev), NEW v \in c.view, v.spec.mode = "rate"
  PROVE  /\ Compiled(v)
         /\ v.virtual = RateEpoch(v.spec, t, prev).virtual
         /\ v.epoch = RateEpoch(v.spec, t, prev).epoch
         /\ v.spec.epoch # <<>> =>
              Kept(v.spec, prev) # {} \/ Parses(v.spec.epoch)
         /\ \E spec \in filter : spec.epoch = v.spec.epoch
<1>1. PICK spec \in filter :
        v = compileView(materializeView(spec), t, c.gen, prev)
  <2>1. \A gen, boot : /\ Snapshot(filter, t, gen, boot, prev).gen = gen
                       /\ \A w \in Snapshot(filter, t, gen, boot, prev).view : \E spec \in filter :
                            w = compileView(materializeView(spec), t, gen, prev)
    BY DEF Snapshot
  <2> QED
    BY <2>1 DEF MadeFrom
<1> DEFINE m == materializeView(spec)
<1>2. v.spec = m /\ v.virtual = Anchor(m, t, prev).virtual
      /\ v.epoch = Anchor(m, t, prev).epoch
  BY <1>1 DEF compileView
<1>3. Anchor(m, t, prev) = RateEpoch(m, t, prev)
  BY <1>2 DEF Anchor
<1>4. IsView(spec) /\ ~CompileFails(spec, prev)
  BY FilterIs, ViewClockAssumption DEF MadeFrom, Compiles
<1>5. m.mode = spec.mode /\ m.epoch = spec.epoch /\ m.rate = spec.rate
  BY <1>4, Materialized
<1>6. Compiled(v)
  BY MadeIsSound DEF SnapshotInv, Started
<1>7. Kept(m, prev) = Kept(spec, prev)
  BY <1>5 DEF Kept, rateEqual, sameEpochYAML
<1> HIDE DEF m
<1>8. v.spec.epoch # <<>> => Kept(v.spec, prev) # {} \/ Parses(v.spec.epoch)
  BY <1>2, <1>4, <1>5, <1>7 DEF CompileFails
<1> QED
  BY <1>2, <1>3, <1>5, <1>6, <1>8

(* The four ways a rate view starts: it is the one there was; its epoch is *)
(* written; it goes on from one of another rate; or it starts at the       *)
(* host's time.                                                            *)
GoesOn(v, s) ==
  \E p \in store.view : /\ p.spec.mode = "rate" /\ s.boot = store.boot
                        /\ Rate(p) = Rate(v) /\ p.spec.epoch = v.spec.epoch
                        /\ v.virtual = p.virtual /\ v.epoch = p.epoch

StartsAtEpoch(v, s, t) ==
  /\ v.spec.epoch # <<>> /\ Parses(v.spec.epoch)
  /\ v.virtual = Instant(v.spec.epoch) /\ v.epoch = t
  /\ \A p \in store.view : p.spec.mode = "rate" /\ s.boot = store.boot =>
       Rate(p) # Rate(v) \/ p.spec.epoch # v.spec.epoch

ChangesRate(v, s, t) ==
  \E p \in store.view : /\ p.spec.mode = "rate" /\ s.boot = store.boot
                        /\ Rate(p) # Rate(v) /\ v.spec.epoch = <<>>
                        /\ v.virtual = Served(p, t) /\ v.epoch = t

StartsAtHost(v, s, t) ==
  /\ v.spec.epoch = <<>> /\ v.virtual = t.wall /\ v.epoch = t
  /\ \A p \in store.view : p.spec.mode = "rate" /\ s.boot = store.boot => p.spec.epoch # <<>>

(* There is no other way.                                                  *)
LEMMA FourWays ==
  ASSUME NowInv, StoreInv, NEW c, NEW filter, NEW t, NEW prev,
         MadeFrom(c, filter, t, prev), NEW v \in c.view, v.spec.mode = "rate"
  PROVE  \/ GoesOn(v, c) \/ StartsAtEpoch(v, c, t) \/ ChangesRate(v, c, t) \/ StartsAtHost(v, c, t)
<1> DEFINE same == Kept(v.spec, prev)
           changed == Changed(v.spec, prev)
<1>1. /\ Compiled(v)
      /\ v.virtual = RateEpoch(v.spec, t, prev).virtual
      /\ v.epoch = RateEpoch(v.spec, t, prev).epoch
      /\ v.spec.epoch # <<>> => same # {} \/ Parses(v.spec.epoch)
  BY MadeView
<1>2. \A p \in store.view : Compiled(p)
  BY DEF StoreInv, SnapshotInv, Started
<1>3. /\ prev = {} \/ prev = store.view
      /\ c.boot = store.boot => prev = store.view
      /\ prev # {} => c.boot = store.boot
  <2>1. \A gen, boot : Snapshot(filter, t, gen, boot, prev).boot = boot
    BY DEF Snapshot
  <2>2. store.boot # store.gen + 1
    BY DEF StoreInv, SnapshotInv
  <2>3. \/ prev = store.view /\ c.boot = store.boot
        \/ prev = {} /\ c.boot = store.gen + 1
    BY <2>1 DEF MadeFrom
  <2> QED
    BY <2>2, <2>3
<1>4. CASE same # {}
  <2>1. Sole(same) \in same
    BY <1>4, SoleMember
  <2> DEFINE p == Sole(same)
  <2>2. p \in prev /\ rateEqual(p, v.spec) /\ p.spec.epoch = v.spec.epoch
    BY <2>1 DEF Kept, sameEpochYAML
  <2>3. v.virtual = p.virtual /\ v.epoch = p.epoch
    BY <1>1, <1>4, RateEpochIs
  <2>4. p \in store.view /\ c.boot = store.boot
    BY <1>3, <2>2
  <2>5. p.spec.mode = "rate" /\ Rate(p) = Rate(v)
    BY <1>1, <1>2, <2>2, <2>4, SameRate
  <2> QED
    BY <2>2, <2>3, <2>4, <2>5 DEF GoesOn
<1>5. ASSUME same = {}, c.boot = store.boot, NEW p \in store.view, p.spec.mode = "rate"
      PROVE  /\ Rate(p) # Rate(v) \/ p.spec.epoch # v.spec.epoch
             /\ changed = {} => p.spec.epoch # v.spec.epoch
  <2>1. p \in prev /\ Compiled(p)
    BY <1>2, <1>3, <1>5
  <2>2. Rate(p) = Rate(v) <=> rateEqual(p, v.spec)
    BY <1>1, <1>5, <2>1, SameRate
  <2>3. p.spec.rate # {}
    BY <1>5, <2>1, RateMode DEF Compiled
  <2>4. ~(rateEqual(p, v.spec) /\ p.spec.epoch = v.spec.epoch)
    BY <1>5, <2>1 DEF Kept, sameEpochYAML
  <2>5. changed = {} => rateEqual(p, v.spec)
    BY <2>1, <2>3 DEF Changed
  <2> QED
    BY <2>2, <2>4, <2>5
<1>6. CASE same = {} /\ v.spec.epoch # <<>>
  <2>1. v.virtual = Instant(v.spec.epoch) /\ v.epoch = t /\ Parses(v.spec.epoch)
    BY <1>1, <1>6, RateEpochIs
  <2> QED
    BY <1>5, <1>6, <2>1 DEF StartsAtEpoch
<1>7. CASE same = {} /\ v.spec.epoch = <<>> /\ changed # {}
  <2> DEFINE p == Sole(changed)
  <2>1. p \in prev /\ p.spec.rate # {} /\ ~rateEqual(p, v.spec)
    BY <1>7, SoleMember DEF Changed
  <2>2. v.virtual = Served(p, t) /\ v.epoch = t
    BY <1>1, <1>7, RateEpochIs
  <2>3. p \in store.view /\ c.boot = store.boot /\ Compiled(p)
    BY <1>2, <1>3, <2>1
  <2>4. p.spec.mode = "rate"
    BY <2>1, <2>3, RateMode DEF Compiled
  <2>5. Rate(p) # Rate(v)
    BY <1>1, <2>1, <2>3, <2>4, SameRate
  <2> HIDE DEF p
  <2> QED
    BY <1>7, <2>2, <2>3, <2>4, <2>5 DEF ChangesRate
<1>8. CASE same = {} /\ v.spec.epoch = <<>> /\ changed = {}
  <2>1. v.virtual = t.wall /\ v.epoch = t
    BY <1>1, <1>8, RateEpochIs
  <2> QED
    BY <1>5, <1>8, <2>1 DEF StartsAtHost
<1> QED
  BY <1>4, <1>6, <1>7, <1>8

(* However it starts, it starts at an instant near the range.              *)
LEMMA StartsNear ==
  ASSUME InstantsNear, NowInv, StoreInv, NearInv,
         NEW c, NEW filter, NEW t, NEW prev, MadeFrom(c, filter, t, prev),
         NEW v \in c.view, v.spec.mode = "rate"
  PROVE  Near(v.virtual)
<1>1. CASE GoesOn(v, c)
  BY <1>1 DEF GoesOn, NearInv
<1>2. CASE StartsAtEpoch(v, c, t)
  <2>1. PICK spec \in filter : spec.epoch = v.spec.epoch
    BY MadeView
  <2>2. filter \subseteq Views
    BY FilterIs DEF MadeFrom
  <2> QED
    BY <1>2, <2>1, <2>2 DEF StartsAtEpoch, InstantsNear
<1>3. CASE ChangesRate(v, c, t)
  <2>1. PICK p \in store.view : v.virtual = Served(p, t)
    BY <1>3 DEF ChangesRate
  <2>2. Compiled(p) /\ t \in Moment
    BY DEF StoreInv, SnapshotInv, Started, MadeFrom
  <2>3. Served(p, t) \in Int /\ Served(p, t) \in Floor .. Ceil
    BY <2>2, ServedInRange
  <2> QED
    BY <2>1, <2>3, ViewClockAssumption DEF Near
<1>4. CASE StartsAtHost(v, c, t)
  BY <1>4 DEF StartsAtHost, InstantsNear, MadeFrom
<1> QED
  BY <1>1, <1>2, <1>3, <1>4, FourWays

(* What a swap shows is a step of the clock that was promised.             *)
LEMMA SwapMaps ==
  ASSUME InstantsNear, ClockInv, ClockInv', NearInv, Swap
  PROVE  NearInv' /\ VirtualStep
<1>1. PICK c, filter, t, prev : compiled = <<c>> /\ MadeFrom(c, filter, t, prev)
  BY DEF Swap, ClockInv, CompiledInv
<1>2. store' = c /\ now' = now
  BY <1>1 DEF Swap
<1>3. NowInv /\ StoreInv /\ StoreInv' /\ Tells /\ Tells'
  <2>1. NowInv /\ StoreInv /\ StoreInv'
    BY DEF ClockInv
  <2>2. (StoreInv => Tells)'
    BY Told, PTL
  <2> QED
    BY <2>1, <2>2, Told
<1>4. NearInv'
  BY <1>1, <1>2, <1>3, StartsNear DEF NearInv
<1>5. CASE RateView' = {}
  <2>1. asked' = Nothing /\ hand' = 0 /\ shown' = 0
    BY <1>5 DEF asked, hand, shown
  <2>2. CASE RateView = {}
    BY <1>3, <1>4, <2>1, <2>2, ToldStutter DEF Tells
  <2>3. CASE RateView # {}
    BY <1>3, <1>4, <2>1, <2>3, ToldStop DEF Tells
  <2> QED
    BY <2>2, <2>3
<1>6. ASSUME NEW v \in c.view, v.spec.mode = "rate"
      PROVE  VirtualStep
  <2>1. RateView = {p \in store.view : p.spec.mode = "rate"}
        /\ RateView' = {p \in c.view : p.spec.mode = "rate"}
    BY <1>2 DEF RateView
  <2>2. /\ hand' = Hand(v, now) /\ shown' = Served(v, now)
        /\ asked' = AskedBy(c, v) /\ asked' # Nothing /\ asked'.rate = Rate(v)
        /\ asked'.epoch = v.spec.epoch /\ asked'.boot = c.boot
    BY <1>2, <1>3, <1>6, <2>1 DEF Tells
  <2>3. t \in Moment /\ now \in Moment /\ t.mono <= now.mono /\ now.mono <= MaxTime
    BY <1>1, <1>3 DEF MadeFrom, NowInv
  <2>4. Compiled(v)
    BY <1>1, <1>3, <1>6, MadeView
  <2>5. Near(v.virtual)
    BY <1>1, <1>3, <1>6, StartsNear
  <2>6. hand' \in Int /\ shown' = ClampServed(hand')
    BY <1>6, <2>2, <2>3, <2>4, <2>5, ShowsHand
  <2> DEFINE lag == now.mono - t.mono
  <2>7. lag \in 0 .. MaxTime /\ lag \in Nat
    BY <2>3, ViewClockAssumption DEF Moment
  <2>8. v.epoch = t => hand' = v.virtual + Rate(v) * lag
    <3>1. v.epoch = t => Hand(v, now) = v.virtual + lag * Rate(v)
      BY DEF Hand
    <3>2. Rate(v) \in Int /\ lag \in Int
      BY <2>4, <2>7, RateIs
    <3> HIDE DEF lag
    <3>3. lag * Rate(v) = Rate(v) * lag
      BY <3>2
    <3> QED
      BY <2>2, <3>1, <3>3
  <2>9. CASE GoesOn(v, c)
    <3>1. PICK p \in store.view :
            /\ p.spec.mode = "rate" /\ c.boot = store.boot
            /\ Rate(p) = Rate(v) /\ p.spec.epoch = v.spec.epoch
            /\ v.virtual = p.virtual /\ v.epoch = p.epoch
      BY <2>9 DEF GoesOn
    <3>2. asked = AskedBy(store, p) /\ hand = Hand(p, now) /\ shown = Served(p, now)
      BY <1>3, <2>1, <3>1 DEF Tells
    <3>3. asked' = asked
      BY <2>2, <3>1, <3>2 DEF AskedBy
    <3>4. hand' = hand
      BY <2>2, <3>1, <3>2 DEF Hand
    <3>5. shown' = shown
      <4>1. Compiled(p) /\ Near(p.virtual)
        BY <1>3, <3>1 DEF StoreInv, SnapshotInv, Started, NearInv
      <4>2. shown = ClampServed(hand)
        BY <2>3, <3>1, <3>2, <4>1, ShowsHand
      <4> QED
        BY <2>6, <3>4, <4>2
    <3> QED
      BY <3>3, <3>4, <3>5, ToldStutter
  <2>10. CASE StartsAtEpoch(v, c, t)
    <3>1. hand' = asked'.epoch[2] + asked'.rate * lag
      BY <2>2, <2>8, <2>10 DEF StartsAtEpoch, Instant
    <3>2. asked' # asked
      <4>1. CASE RateView = {}
        BY <1>3, <2>2, <4>1 DEF Tells
      <4>2. ASSUME NEW p \in RateView
            PROVE  asked' # asked
        BY <1>3, <2>1, <2>2, <2>10, <4>2 DEF Tells, StartsAtEpoch
      <4> QED
        BY <4>1, <4>2
    <3>3. asked'.epoch # <<>>
      BY <2>2, <2>10 DEF StartsAtEpoch
    <3> HIDE DEF lag
    <3> QED
      BY <2>2, <2>6, <2>7, <3>1, <3>2, <3>3, ToldSet
  <2>11. CASE ChangesRate(v, c, t)
    <3>1. PICK p \in store.view :
            /\ p.spec.mode = "rate" /\ c.boot = store.boot
            /\ Rate(p) # Rate(v) /\ v.spec.epoch = <<>>
            /\ v.virtual = Served(p, t) /\ v.epoch = t
      BY <2>11 DEF ChangesRate
    <3>2. /\ hand = Hand(p, now) /\ asked # Nothing
          /\ asked.rate = Rate(p) /\ asked.boot = store.boot
      BY <1>3, <2>1, <3>1 DEF Tells
    <3>3. Compiled(p) /\ Near(p.virtual)
      BY <1>3, <3>1 DEF StoreInv, SnapshotInv, Started, NearInv
    <3>4. Hand(p, t) \in Int /\ Served(p, t) = ClampServed(Hand(p, t))
      BY <2>3, <3>1, <3>3, ShowsHand
    <3>5. Hand(p, t) = hand - asked.rate * lag
      <4>1. Hand(p, now) = Hand(p, t) + Rate(p) * lag
        BY <2>3, <3>3, HandMoves
      <4>2. Rate(p) * lag \in Int
        BY <2>7, <3>3, RateIs, Product
      <4> HIDE DEF lag
      <4> QED
        BY <3>2, <3>4, <4>1, <4>2
    <3> HIDE DEF lag
    <3>6. hand' = ClampServed(hand - asked.rate * lag) + asked'.rate * lag
      BY <2>2, <2>8, <3>1, <3>4, <3>5
    <3> QED
      BY <2>2, <2>6, <2>7, <3>1, <3>2, <3>6, ToldChange
  <2>12. CASE StartsAtHost(v, c, t)
    <3>1. asked'.epoch = <<>>
      BY <2>2, <2>12 DEF StartsAtHost
    <3>2. ASSUME asked # Nothing, asked.boot = asked'.boot
          PROVE  asked'.epoch # asked.epoch
      <4>1. PICK p : p \in RateView
        BY <1>3, <3>2 DEF Tells
      <4> QED
        BY <1>3, <2>1, <2>2, <2>12, <3>1, <3>2, <4>1 DEF Tells, StartsAtHost
    <3>3. asked' # asked
      BY <2>2, <3>2
    <3> QED
      BY <2>2, <2>6, <3>1, <3>2, <3>3, ToldSet
  <2> QED
    BY <1>1, <1>3, <1>6, <2>9, <2>10, <2>11, <2>12, FourWays
<1>7. CASE RateView' # {}
  <2>1. PICK v \in c.view : v.spec.mode = "rate"
    BY <1>2, <1>7 DEF RateView
  <2> QED
    BY <1>4, <1>6, <2>1
<1> QED
  BY <1>4, <1>5, <1>7

(* While nothing is installed the clock goes on, or shows what it showed.  *)
LEMMA QuietMaps ==
  ASSUME ClockInv, ClockInv', NearInv, UNCHANGED store,
         now'.mono = now.mono \/ now'.mono = now.mono + 1
  PROVE  NearInv' /\ VirtualStep
<1>1. NearInv'
  BY DEF NearInv
<1>2. NowInv /\ NowInv' /\ StoreInv /\ Tells /\ Tells'
  <2>1. NowInv /\ NowInv' /\ StoreInv /\ StoreInv'
    BY DEF ClockInv
  <2>2. (StoreInv => Tells)'
    BY Told, PTL
  <2> QED
    BY <2>1, <2>2, Told
<1>3. RateView' = RateView
  BY DEF RateView
<1>4. CASE RateView = {}
  <2>1. asked' = asked /\ hand' = hand /\ shown' = shown
    BY <1>2, <1>3, <1>4 DEF Tells
  <2> QED
    BY <1>1, <2>1, ToldStutter
<1>5. ASSUME NEW v \in RateView
      PROVE  VirtualStep
  <2>1. /\ asked = AskedBy(store, v) /\ asked' = AskedBy(store, v) /\ asked # Nothing
        /\ asked.rate = Rate(v)
        /\ hand = Hand(v, now) /\ hand' = Hand(v, now')
        /\ shown = Served(v, now) /\ shown' = Served(v, now')
    BY <1>2, <1>3 DEF Tells
  <2>2. Compiled(v) /\ v.spec.mode = "rate" /\ Near(v.virtual) /\ now \in Moment /\ now' \in Moment
    BY <1>2, <1>5 DEF RateView, StoreInv, SnapshotInv, Started, NearInv, NowInv
  <2>3. /\ hand \in Int /\ hand' \in Int
        /\ shown = ClampServed(hand) /\ shown' = ClampServed(hand')
    BY <2>1, <2>2, ShowsHand
  <2>4. CASE now'.mono = now.mono
    <3>1. hand' = hand
      BY <2>1, <2>4 DEF Hand
    <3> QED
      BY <2>1, <2>3, <3>1, ToldStutter
  <2>5. CASE now'.mono = now.mono + 1
    <3>1. hand' = hand + Rate(v) * (now'.mono - now.mono)
      BY <2>1, <2>2, HandMoves
    <3>2. now'.mono - now.mono = 1
      BY <2>2, <2>5 DEF Moment
    <3>3. Rate(v) * 1 = Rate(v)
      BY <2>2, RateIs
    <3>4. hand' = hand + asked.rate
      BY <2>1, <3>1, <3>2, <3>3
    <3>5. asked' = asked
      BY <2>1
    <3> QED
      BY <2>1, <2>3, <3>4, <3>5, ToldTick
  <2> QED
    BY <2>4, <2>5
<1> QED
  BY <1>1, <1>4, <1>5

(* The clock of the file the process starts with.                          *)
LEMMA RateViewsStart ==
  ASSUME InstantsNear, Init
  PROVE  ClockInv /\ NearInv /\ Virtual!Init
<1> DEFINE m == materializeView(BootView)
<1>1. ClockInv
  BY ClockStarts
<1>2. NowInv /\ StoreInv /\ Tells
  BY <1>1, Told DEF ClockInv
<1>3. \A v \in store.view : v = compileView(m, now, 0, {})
  BY DEF Init, Compile
<1>4. ASSUME NEW v \in store.view, v.spec.mode = "rate"
      PROVE  Near(v.virtual)
  <2>1. v.spec = m /\ v.virtual = Anchor(m, now, {}).virtual
    BY <1>3 DEF compileView
  <2>2. Anchor(m, now, {}) = RateEpoch(m, now, {})
    BY <1>4, <2>1 DEF Anchor
  <2>3. IsView(BootView) /\ ~CompileFails(BootView, {})
    BY ViewClockAssumption DEF Compiles
  <2>4. m.mode = BootView.mode /\ m.epoch = BootView.epoch
    BY <2>3, Materialized
  <2> HIDE DEF m
  <2>5. Kept(m, {}) = {} /\ Changed(m, {}) = {} /\ Kept(BootView, {}) = {}
    BY DEF Kept, Changed
  <2>6. CASE BootView.epoch = <<>>
    <3>1. v.virtual = now.wall
      BY <2>1, <2>2, <2>4, <2>5, <2>6, RateEpochIs
    <3>2. now.wall \in 0 .. MaxTime + MaxSteps
      BY ViewClockAssumption DEF Init
    <3> QED
      BY <3>1, <3>2 DEF InstantsNear
  <2>7. CASE BootView.epoch # <<>>
    <3>1. v.virtual = Instant(BootView.epoch)
      BY <2>1, <2>2, <2>4, <2>5, <2>7, RateEpochIs
    <3>2. Parses(BootView.epoch)
      BY <1>4, <2>1, <2>3, <2>4, <2>5, <2>7 DEF CompileFails
    <3> QED
      BY <3>1, <3>2 DEF InstantsNear
  <2> QED
    BY <2>6, <2>7
<1>5. NearInv
  BY <1>4 DEF NearInv
<1>6. CASE RateView = {}
  BY <1>1, <1>2, <1>5, <1>6, ToldInit DEF Tells
<1>7. ASSUME NEW v \in RateView
      PROVE  Virtual!Init
  <2>1. asked # Nothing /\ hand = Hand(v, now) /\ shown = Served(v, now)
    BY <1>2 DEF Tells
  <2>2. Compiled(v) /\ v.spec.mode = "rate" /\ Near(v.virtual) /\ now \in Moment
    BY <1>2, <1>5, <1>7 DEF RateView, StoreInv, SnapshotInv, Started, NearInv, NowInv
  <2> QED
    BY <2>1, <2>2, ShowsHand, ToldInit
<1> QED
  BY <1>1, <1>5, <1>6, <1>7

(* A rate view is a clock of its own (D19): whatever else is applied,      *)
(* however the wall clock is stepped, and although the code computes it    *)
(* from an anchor in saturating arithmetic and hands it from snapshot to   *)
(* snapshot, it does what VirtualClock says, if no epoch is further from   *)
(* the range than a duration spans.                                        *)
THEOREM RateViewsKeepTime == InstantsNear => (Spec => RateKeepsTime)
<1> SUFFICES ASSUME InstantsNear
             PROVE  Spec => RateKeepsTime
  OBVIOUS
<1>1. Init => ClockInv /\ NearInv /\ Virtual!Init
  BY RateViewsStart
<1>2. ClockInv /\ ClockInv' /\ NearInv /\ [Next]_vars => NearInv' /\ VirtualStep
  <2> SUFFICES ASSUME ClockInv, ClockInv', NearInv, [Next]_vars
               PROVE  NearInv' /\ VirtualStep
    OBVIOUS
  <2>1. CASE Tick
    BY <2>1, QuietMaps DEF Tick
  <2>2. CASE StepWall
    <3>1. now'.mono = now.mono
      BY <2>2 DEF StepWall, ClockInv, NowInv, Moment
    <3> QED
      BY <2>2, <3>1, QuietMaps DEF StepWall
  <2>3. CASE UNCHANGED <<now, store>>
    BY <2>3, QuietMaps
  <2>4. CASE Swap
    BY <2>4, SwapMaps
  <2> QED
    BY <2>1, <2>2, <2>3, <2>4 DEF Next, vars, ApplyCompiles,
       ResetCompiles, Fails, Receive, Load, Reply
<1> QED
  BY <1>1, <1>2, ClockIsSound, PTL DEF Spec, RateKeepsTime, Virtual!Spec, VirtualStep

----------------------------------------------------------------------------
(* Documents that validate. To fill in what has been filled in changes     *)
(* nothing, section by section.                                            *)

(* A default is filled in once.                                            *)
LEMMA OrTwice ==
  ASSUME NEW x, NEW default, ~Blank(default)
  PROVE  Or(Or(x, default), default) = Or(x, default)
  BY DEF Or

(* The listeners.                                                          *)
LEMMA ListenersTwice ==
  ASSUME NEW l, IsRecord(l, {"ntp", "management", "restPath", "mcpPath"})
  PROVE  defaultListeners(defaultListeners(l)) = defaultListeners(l)
<1> DEFINE filled(m, a, b, c, e) ==
             [m EXCEPT !.ntp = a, !.management = b, !.restPath = c, !.mcpPath = e]
           or(x, default) == Or(x, default)
           n == filled(l, or(l.ntp, ":123"), or(l.management, ":8088"), or(l.restPath, "/v1"),
                       or(l.mcpPath, "/mcp"))
<1>1. ASSUME NEW a, NEW b, NEW c, NEW e, NEW m, m = filled(l, a, b, c, e)
      PROVE  m.ntp = a /\ m.management = b /\ m.restPath = c /\ m.mcpPath = e
             /\ filled(m, a, b, c, e) = m
  BY <1>1 DEF IsRecord
<1>2. defaultListeners(l) = n
  BY DEF defaultListeners
<1>3. defaultListeners(n)
        = filled(n, or(n.ntp, ":123"), or(n.management, ":8088"), or(n.restPath, "/v1"),
                 or(n.mcpPath, "/mcp"))
  BY DEF defaultListeners
<1> HIDE DEF filled, or
<1>4. n.ntp = or(l.ntp, ":123") /\ n.management = or(l.management, ":8088")
      /\ n.restPath = or(l.restPath, "/v1") /\ n.mcpPath = or(l.mcpPath, "/mcp")
      /\ filled(n, or(l.ntp, ":123"), or(l.management, ":8088"), or(l.restPath, "/v1"),
                or(l.mcpPath, "/mcp")) = n
  BY <1>1
<1>5. \A x : /\ or(or(x, ":123"), ":123") = or(x, ":123")
             /\ or(or(x, ":8088"), ":8088") = or(x, ":8088")
             /\ or(or(x, "/v1"), "/v1") = or(x, "/v1")
             /\ or(or(x, "/mcp"), "/mcp") = or(x, "/mcp")
  BY OrTwice DEF or, Blank
<1> HIDE DEF n
<1> QED
  BY <1>2, <1>3, <1>4, <1>5

(* The NTP section, which then has at least one version.                   *)
LEMMA NTPTwice ==
  ASSUME NEW p, IsRecord(p, {"versions", "serveMode", "restrict", "allow"}),
         p.versions \in Seq(Int)
  PROVE  LET n == defaultNTP(p) IN
         defaultNTP(n) = n /\ n.versions \in Seq(Int) /\ n.versions # <<>>
<1> DEFINE filled(m, a, b, c, e) ==
             [m EXCEPT !.versions = a, !.serveMode = b, !.restrict = c, !.allow = e]
           or(x, default) == Or(x, default)
           vers(x) == IF x = <<>> THEN <<3, 4>> ELSE x
           nets(x) == IF x = NilList THEN Universal ELSE x
           n == filled(p, vers(p.versions), or(p.serveMode, "unicast"), or(p.restrict, "serve"),
                       nets(p.allow))
<1>1. ASSUME NEW a, NEW b, NEW c, NEW e, NEW m, m = filled(p, a, b, c, e)
      PROVE  m.versions = a /\ m.serveMode = b /\ m.restrict = c /\ m.allow = e
             /\ filled(m, a, b, c, e) = m
  BY <1>1 DEF IsRecord
<1>2. defaultNTP(p) = n
  BY DEF defaultNTP
<1>3. defaultNTP(n)
        = filled(n, vers(n.versions), or(n.serveMode, "unicast"), or(n.restrict, "serve"),
                 nets(n.allow))
  BY DEF defaultNTP
<1>4. <<3, 4>> \in Seq(Int) /\ <<3, 4>> # <<>>
  OBVIOUS
<1>5. vers(p.versions) \in Seq(Int) /\ vers(p.versions) # <<>>
      /\ vers(vers(p.versions)) = vers(p.versions)
  BY <1>4
<1>6. \A x : nets(nets(x)) = nets(x)
  <2>1. Universal # NilList
    BY DEF Universal, NilList
  <2> QED
    BY <2>1
<1>7. \A x : or(or(x, "unicast"), "unicast") = or(x, "unicast")
             /\ or(or(x, "serve"), "serve") = or(x, "serve")
  BY OrTwice DEF or, Blank
<1> HIDE DEF filled, or, vers, nets
<1>8. n.versions = vers(p.versions) /\ n.serveMode = or(p.serveMode, "unicast")
      /\ n.restrict = or(p.restrict, "serve") /\ n.allow = nets(p.allow)
      /\ filled(n, vers(p.versions), or(p.serveMode, "unicast"), or(p.restrict, "serve"),
                nets(p.allow)) = n
  BY <1>1
<1> HIDE DEF n
<1> QED
  BY <1>2, <1>3, <1>5, <1>6, <1>7, <1>8

(* A view.                                                                 *)
LEMMA ViewTwice ==
  ASSUME NEW v, IsView(v)
  PROVE  materializeView(materializeView(v)) = materializeView(v)
<1> DEFINE filled(m, a, b) == [m EXCEPT !.leap = a, !.refid = b]
           refid(m) == CASE m.stratum = 1  -> "GPS"
                         [] m.stratum = 16 -> "INIT"
                         [] OTHER          -> "LOCL"
           n == filled(v, Or(v.leap, "none"), Or(v.refid, refid(v)))
<1>1. \A a, b : LET m == filled(v, a, b) IN
        m.leap = a /\ m.refid = b /\ m.stratum = v.stratum /\ filled(m, a, b) = m
  BY DEF IsView, IsRecord
<1>2. \A m : materializeView(m)
        = filled(m, Or(m.leap, "none"), Or(m.refid, refid(m)))
  BY DEF materializeView
<1>3. \A m : refid(m) \in {"GPS", "INIT", "LOCL"}
  OBVIOUS
<1>4. \A m : m.stratum = v.stratum => refid(m) = refid(v)
  OBVIOUS
<1>5. /\ \A x : Or(Or(x, "none"), "none") = Or(x, "none")
      /\ \A x : Or(Or(x, refid(v)), refid(v)) = Or(x, refid(v))
  <2>1. ~Blank("none") /\ ~Blank(refid(v))
    BY <1>3 DEF Blank
  <2> QED
    BY <2>1, OrTwice
<1> HIDE DEF filled, refid
<1>6. n.leap = Or(v.leap, "none") /\ n.refid = Or(v.refid, refid(v))
      /\ n.stratum = v.stratum
      /\ filled(n, Or(v.leap, "none"), Or(v.refid, refid(v))) = n
  BY <1>1
<1>7. materializeView(v) = n
  BY <1>2
<1> HIDE DEF n
<1>8. materializeView(n) = filled(n, Or(n.leap, "none"), Or(n.refid, refid(n)))
  BY <1>2
<1> QED
  BY <1>4, <1>5, <1>6, <1>7, <1>8

(* The filters, one by one.                                                *)
LEMMA FiltersTwice ==
  ASSUME NEW fs, \A i \in DOMAIN fs : IsRecord(fs[i], {"view"}) /\ IsView(fs[i].view)
  PROVE  /\ defaultFilters(defaultFilters(fs)) = defaultFilters(fs)
         /\ DOMAIN defaultFilters(fs) = DOMAIN fs
         /\ \A i \in DOMAIN fs :
              defaultFilters(fs)[i].view = materializeView(fs[i].view)
<1> DEFINE one(f) == [f EXCEPT !.view = materializeView(f.view)]
<1>1. \A gs : defaultFilters(gs) = [i \in DOMAIN gs |-> one(gs[i])]
  BY DEF defaultFilters
<1>2. ASSUME NEW i \in DOMAIN fs
      PROVE  /\ one(fs[i]).view = materializeView(fs[i].view)
             /\ one(one(fs[i])) = one(fs[i])
  <2>1. \A f, w : IsRecord(f, {"view"}) =>
          LET g == [f EXCEPT !.view = w] IN g.view = w /\ [g EXCEPT !.view = w] = g
    BY DEF IsRecord
  <2>2. materializeView(materializeView(fs[i].view))
          = materializeView(fs[i].view)
    BY ViewTwice
  <2> QED
    BY <2>1, <2>2
<1> HIDE DEF one
<1>3. defaultFilters(fs) = [i \in DOMAIN fs |-> one(fs[i])]
  BY <1>1
<1>4. defaultFilters(defaultFilters(fs)) = [i \in DOMAIN fs |-> one(one(fs[i]))]
  BY <1>1, <1>3
<1> QED
  BY <1>2, <1>3, <1>4

(* The whole document.                                                     *)
LEMMA NormalizedIs ==
  ASSUME NEW d, IsDocument(d)
  PROVE  LET n == Normalize(d) IN
         /\ n.ntp = defaultNTP(d.ntp) /\ n.filters = defaultFilters(d.filters)
         /\ Normalize(n) = n
<1> DEFINE filled(m, a, b, c, e, f, g) ==
             [m EXCEPT !.listeners = a, !.auth = b, !.ntp = c, !.filters = e,
                       !.logLevel = f, !.auditRing = g]
           or(x, default) == Or(x, default)
           ring(x) == IF x = 0 THEN 128 ELSE x
           auth(x) == [x EXCEPT !.mode = or(@, "bearer")]
           n == filled(d, defaultListeners(d.listeners), auth(d.auth),
                       defaultNTP(d.ntp), defaultFilters(d.filters),
                       or(d.logLevel, "info"), ring(d.auditRing))
<1>1. ASSUME NEW a, NEW b, NEW c, NEW e, NEW f, NEW g, NEW m, m = filled(d, a, b, c, e, f, g)
      PROVE  /\ m.listeners = a /\ m.auth = b /\ m.ntp = c /\ m.filters = e
             /\ m.logLevel = f /\ m.auditRing = g
             /\ filled(m, a, b, c, e, f, g) = m
  <2>1. {"listeners", "auth", "ntp", "filters", "logLevel", "auditRing"} \subseteq DOMAIN d
    BY DEF IsDocument, IsRecord
  <2>2. DOMAIN m = DOMAIN d /\ m = [k \in DOMAIN m |-> m[k]]
    BY <1>1
  <2>3. m.listeners = a /\ m.auth = b /\ m.ntp = c
    BY <1>1, <2>1
  <2>4. m.filters = e /\ m.logLevel = f /\ m.auditRing = g
    BY <1>1, <2>1
  <2>5. filled(m, a, b, c, e, f, g) = m
    BY <2>2, <2>3, <2>4
  <2> QED
    BY <2>3, <2>4, <2>5
<1>2. Normalize(d) = n
  BY DEF Normalize, materializeDefaults
<1>3. Normalize(n)
        = filled(n, defaultListeners(n.listeners), auth(n.auth),
                 defaultNTP(n.ntp), defaultFilters(n.filters),
                 or(n.logLevel, "info"), ring(n.auditRing))
  BY DEF Normalize, materializeDefaults
<1>4. /\ defaultListeners(defaultListeners(d.listeners))
           = defaultListeners(d.listeners)
      /\ defaultNTP(defaultNTP(d.ntp)) = defaultNTP(d.ntp)
      /\ defaultFilters(defaultFilters(d.filters)) = defaultFilters(d.filters)
  BY ListenersTwice, NTPTwice, FiltersTwice DEF IsDocument
<1>5. /\ \A x : or(or(x, "bearer"), "bearer") = or(x, "bearer")
      /\ \A x : or(or(x, "info"), "info") = or(x, "info")
  BY OrTwice DEF or, Blank
<1>6. \A x : ring(ring(x)) = ring(x)
  OBVIOUS
<1> HIDE DEF or, ring
<1>7. auth(auth(d.auth)) = auth(d.auth)
  <2>1. IsRecord(d.auth, {"mode"})
    BY DEF IsDocument
  <2>2. ASSUME NEW x, NEW b, IsRecord(x, {"mode"})
        PROVE  [x EXCEPT !.mode = b].mode = b
               /\ [[x EXCEPT !.mode = b] EXCEPT !.mode = b] = [x EXCEPT !.mode = b]
    BY <2>2 DEF IsRecord
  <2> QED
    BY <1>5, <2>1, <2>2
<1> HIDE DEF filled, auth
<1>8. /\ n.listeners = defaultListeners(d.listeners)
      /\ n.auth = auth(d.auth) /\ n.ntp = defaultNTP(d.ntp)
      /\ n.filters = defaultFilters(d.filters) /\ n.logLevel = or(d.logLevel, "info")
      /\ n.auditRing = ring(d.auditRing)
      /\ filled(n, defaultListeners(d.listeners), auth(d.auth),
                defaultNTP(d.ntp), defaultFilters(d.filters),
                or(d.logLevel, "info"), ring(d.auditRing)) = n
  BY <1>1
<1> HIDE DEF n
<1> QED
  BY <1>2, <1>3, <1>4, <1>5, <1>6, <1>7, <1>8

(* A default network has the addresses of its family, but for those with a *)
(* zone, and nothing contains those.                                       *)
LEMMA DefaultsContain ==
  ASSUME NEW addr, addr.v6 \in BOOLEAN
  PROVE  /\ ~addr.zoned => \E net \in Universal : Contains(net, addr)
         /\ addr.zoned => \A net : ~Contains(net, addr)
  BY DEF Universal, Contains

(* A client the allowlist lets in finds a filter.                          *)
LEMMA AllowedMatch ==
  ASSUME NEW n, validateFilters(n.filters), NEW addr, addr.v6 \in BOOLEAN,
         addr.zoned \in BOOLEAN, Allowed(n, addr)
  PROVE  Match(n, addr) # {}
<1>1. ~addr.zoned
  BY DefaultsContain DEF Allowed, ContainedIn
<1>2. PICK net \in Universal : Contains(net, addr)
  BY <1>1, DefaultsContain
<1>3. PICK i \in DOMAIN n.filters : n.filters[i].enabled /\ net \in n.filters[i].cidrs
  BY DEF validateFilters
<1>4. ContainedIn(n.filters[i].cidrs, addr)
  BY <1>2, <1>3 DEF ContainedIn
<1> QED
  BY <1>3, <1>4 DEF Match

(* It finds a version.                                                     *)
LEMMA VersionServed ==
  ASSUME NEW n, validateNTP(n.ntp), n.ntp.versions \in Seq(Int), n.ntp.versions # <<>>
  PROVE  VersionOK(n, 3) \/ VersionOK(n, 4)
<1>1. 1 \in DOMAIN n.ntp.versions
  OBVIOUS
<1>2. n.ntp.versions[1] \in {3, 4}
  BY <1>1 DEF validateNTP
<1> QED
  BY <1>1, <1>2 DEF VersionOK

(* A text that is not an instant and not blank does not validate, whatever *)
(* the field it is in.                                                     *)
LEMMA FieldsParse ==
  ASSUME NEW v, Sound(v)
  PROVE  /\ v.mode = "absolute" => Parses(v.absolute)
         /\ v.mode = "freeze" => Parses(v.freezeAt)
         /\ BlankTime(v.epoch) \/ Parses(v.epoch)
<1>1. /\ v.mode \in Modes
      /\ Required[v.mode] \subseteq Present(v)
      /\ "absolute" \in Present(v) => Parses(v.absolute)
      /\ "freezeAt" \in Present(v) => Parses(v.freezeAt)
      /\ "epoch" \in Present(v) => Parses(v.epoch)
  BY DEF Sound, validateView
<1>2. ~BlankTime(v.epoch) => "epoch" \in Present(v)
  BY DEF Present
<1>3. "absolute" \in Modes /\ "freeze" \in Modes
  BY DEF Modes
<1>4. Legal["absolute"] = {"absolute"} /\ Legal["freeze"] = {"freezeAt"}
  BY <1>3 DEF Legal
<1>5. "absolute" \in Required["absolute"] /\ "freezeAt" \in Required["freeze"]
  BY <1>3, <1>4 DEF Required
<1> QED
  BY <1>1, <1>2, <1>5

(* The view the program starts with has no epoch of blanks.                *)
BootInv == store.gen = 0 => \A p \in store.view : p.spec.rate # {} => p.spec.epoch # <<"blank">>

(* A view that validates fails to compile if and only if it is of mode     *)
(* rate and its epoch is one of blanks.                                    *)
LEMMA OnlyBlanksFail ==
  ASSUME NEW v, Sound(v), NEW prev,
         \A p \in prev : p.spec.rate # {} => p.spec.epoch # <<"blank">>
  PROVE  CompileFails(v, prev) <=> (v.mode = "rate" /\ v.epoch = <<"blank">>)
<1>1. <<"blank">> # <<>> /\ ~Parses(<<"blank">>)
  BY DEF Parses
<1>2. v.epoch = <<"blank">> => Kept(v, prev) = {}
  BY DEF Kept, rateEqual, sameEpochYAML
<1>3. v.epoch # <<>> /\ ~Parses(v.epoch) <=> v.epoch = <<"blank">>
  BY <1>1, FieldsParse DEF BlankTime
<1> QED
  BY <1>2, <1>3, FieldsParse DEF CompileFails

(* The boot file compiles without a view before, so its epoch is not blank.*)
LEMMA BootStarts ==
  ASSUME Init
  PROVE  BootInv
<1> DEFINE m == materializeView(BootView)
<1>1. /\ m.mode = BootView.mode /\ m.rate = BootView.rate /\ m.epoch = BootView.epoch
      /\ IsView(m)
  BY Materialized, ViewClockAssumption
<1>2. validateView(m) /\ ~CompileFails(BootView, {})
  BY ViewClockAssumption DEF Compiles
<1>3. Sound(m)
  BY <1>1, <1>2 DEF Sound
<1>4. \A p \in store.view : p.spec = m
  BY DEF Init, Compile, compileView
<1> HIDE DEF m
<1>5. m.rate # {} => m.mode = "rate"
  BY <1>3, RateMode
<1>6. Kept(BootView, {}) = {}
  BY DEF Kept
<1>7. ~(m.mode = "rate" /\ m.epoch = <<"blank">>)
  <2>1. <<"blank">> # <<>> /\ ~Parses(<<"blank">>)
    BY DEF Parses
  <2> QED
    BY <1>1, <1>2, <1>6, <2>1 DEF CompileFails
<1> QED
  BY <1>4, <1>5, <1>7 DEF BootInv

(* What is compiled later is of a later generation.                        *)
LEMMA BootKeeps ==
  ASSUME ClockInv, BootInv, [Next]_vars
  PROVE  BootInv'
<1>1. CASE UNCHANGED store
  BY <1>1 DEF BootInv
<1>2. CASE Swap
  <2>1. PICK c, filter, t, prev : compiled = <<c>> /\ MadeFrom(c, filter, t, prev)
    BY <1>2 DEF Swap, ClockInv, CompiledInv
  <2>2. c.gen = store.gen + 1
    BY <2>1 DEF MadeFrom, Snapshot
  <2>3. store'.gen # 0
    BY <1>2, <2>1, <2>2 DEF Swap, ClockInv, StoreInv, SnapshotInv
  <2> QED
    BY <2>3 DEF BootInv
<1> QED
  BY <1>1, <1>2 DEF Next, vars, Tick, StepWall, ApplyCompiles,
     ResetCompiles, Fails, Receive, Load, Reply

(* A document that validates once normalised serves.                       *)
LEMMA DocumentServes ==
  ASSUME NEW d, IsDocument(d), NEW prev,
         \A p \in prev : p.spec.rate # {} => p.spec.epoch # <<"blank">>,
         Validate(Normalize(d))
  PROVE  LET n == Normalize(d) IN
         /\ \A i \in DOMAIN n.filters :
              LET v == n.filters[i].view IN
              CompileFails(v, prev) <=> (v.mode = "rate" /\ v.epoch = <<"blank">>)
         /\ \A v6, lan, zoned \in BOOLEAN :
              LET addr == [v6 |-> v6, lan |-> lan, zoned |-> zoned]
              IN Allowed(n, addr) => Match(n, addr) # {}
         /\ VersionOK(n, 3) \/ VersionOK(n, 4)
         /\ Normalize(n) = n
<1> DEFINE n == Normalize(d)
<1>1. /\ n.ntp = defaultNTP(d.ntp) /\ n.filters = defaultFilters(d.filters)
      /\ Normalize(n) = n
  BY NormalizedIs
<1>2. validateNTP(n.ntp) /\ validateFilters(n.filters)
  BY DEF Validate
<1> HIDE DEF n
<1>3. ASSUME NEW i \in DOMAIN n.filters
      PROVE  Sound(n.filters[i].view)
  <2>1. i \in DOMAIN d.filters /\ n.filters[i].view = materializeView(d.filters[i].view)
    BY <1>1, FiltersTwice DEF IsDocument
  <2>2. IsView(n.filters[i].view)
    BY <2>1, Materialized DEF IsDocument
  <2>3. validateView(n.filters[i].view)
    BY <1>2 DEF validateFilters
  <2> QED
    BY <2>2, <2>3 DEF Sound
<1>4. \A i \in DOMAIN n.filters :
        CompileFails(n.filters[i].view, prev)
          <=> (n.filters[i].view.mode = "rate" /\ n.filters[i].view.epoch = <<"blank">>)
  BY <1>3, OnlyBlanksFail
<1>5. ASSUME NEW v6 \in BOOLEAN, NEW lan \in BOOLEAN, NEW zoned \in BOOLEAN,
             NEW addr, addr = [v6 |-> v6, lan |-> lan, zoned |-> zoned], Allowed(n, addr)
      PROVE  Match(n, addr) # {}
  BY <1>2, <1>5, AllowedMatch
<1>6. VersionOK(n, 3) \/ VersionOK(n, 4)
  <2>1. n.ntp.versions \in Seq(Int) /\ n.ntp.versions # <<>>
    BY <1>1, NTPTwice DEF IsDocument
  <2> QED
    BY <1>2, <2>1, VersionServed
<1>7. \A v6, lan, zoned \in BOOLEAN :
        Allowed(n, [v6 |-> v6, lan |-> lan, zoned |-> zoned])
          => Match(n, [v6 |-> v6, lan |-> lan, zoned |-> zoned]) # {}
  BY <1>5
<1> QED
  BY <1>1, <1>4, <1>6, <1>7 DEF n

(* What Validate accepts of a normalised document is fit to serve: its     *)
(* views compile, but for an epoch of blanks, an allowed client finds a    *)
(* filter and a version, and Normalize has nothing more to fill in.        *)
THEOREM ValidatedDocumentsServeAlways == Spec => []ValidatedDocumentsServe
<1>1. Init => BootInv
  BY BootStarts
<1>2. ClockInv /\ BootInv /\ [Next]_vars => BootInv'
  BY BootKeeps
<1>3. BootInv => ValidatedDocumentsServe
  <2> SUFFICES ASSUME BootInv, Starting, NEW d \in Documents,
                      Validate(Normalize(d))
               PROVE  LET n == Normalize(d) IN
                      /\ \A i \in DOMAIN n.filters :
                           LET v == n.filters[i].view IN
                           CompileFails(v, store.view)
                             <=> (v.mode = "rate" /\ v.epoch = <<"blank">>)
                      /\ \A v6, lan, zoned \in BOOLEAN :
                           LET addr == [v6 |-> v6, lan |-> lan, zoned |-> zoned]
                           IN Allowed(n, addr) => Match(n, addr) # {}
                      /\ VersionOK(n, 3) \/ VersionOK(n, 4)
                      /\ Normalize(n) = n
    BY DEF ValidatedDocumentsServe
  <2>1. \A p \in store.view : p.spec.rate # {} => p.spec.epoch # <<"blank">>
    BY DEF BootInv, Starting
  <2>2. IsDocument(d)
    BY ViewClockAssumption
  <2> QED
    BY <2>1, <2>2, DocumentServes
<1> QED
  BY <1>1, <1>2, <1>3, ClockIsSound, PTL DEF Spec
=============================================================================
