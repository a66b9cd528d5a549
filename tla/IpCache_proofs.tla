--------------------------- MODULE IpCache_proofs ---------------------------
(***************************************************************************)
(* Proofs about IpCache: the types, that timers and bans belong together,  *)
(* which bans a full list keeps, and, as long as no ban is longer than     *)
(* setTimeout can wait, that a ban ends by its own timer when it is over.  *)
(***************************************************************************)
EXTENDS IpCache, SequenceFacts

-----------------------------------------------------------------------------
(***************************************************************************)
(* The inductive invariant.                                                *)
(***************************************************************************)

\* A key has one entry: a Map has one per key.
OneEntry == Distinct(cache)

\* Only an entry has an end.
Listed == \A k \in Keys : to_date[k] # 0 => has(k)

\* A timer never fires after the end of its ban, so that a ban that is over,
\* or whose timer waits for longer than it can, does not stay in the list.
Early == \A k \in Keys : timer[k] # 0 => timer[k] <= to_date[k]

IInv == TypeOK /\ OneEntry /\ Listed /\ Early /\ TimersMatchBans

\* With bans no longer than the longest timer no ban ends later than that ...
InReach == \A k \in Keys : to_date[k] <= now + MaxDelay

\* ... and its timer fires at its end.
OnTime == \A k \in Keys : timer[k] # 0 => timer[k] = to_date[k]

-----------------------------------------------------------------------------
(***************************************************************************)
(* Operators.                                                              *)
(***************************************************************************)

\* A key is in the list when it is in the range of the sequence.
LEMMA HasRange == \A k : has(k) <=> k \in Range(cache)
BY DEF has, Range

\* What an entry loses, and what the others keep.
LEMMA DropFacts ==
    ASSUME NEW f \in [Keys -> Nat], NEW K
    PROVE  /\ Drop(f, K) \in [Keys -> Nat]
           /\ \A x \in Keys : Drop(f, K)[x] = IF x \in K THEN 0 ELSE f[x]
BY DEF Drop

\* No timer waits for longer than it was asked to, nor fires at once.
LEMMA DelayFacts ==
    ASSUME NEW ms \in Nat, ms # 0
    PROVE  /\ Delay(ms) \in Nat /\ Delay(ms) # 0 /\ Delay(ms) <= ms
           /\ ms <= MaxDelay => Delay(ms) = ms
BY CacheAssumption DEF Delay

\* The entries that are left without some keys.
LEMMA WithoutFacts ==
    ASSUME TypeOK, OneEntry, NEW K
    PROVE  /\ Without(K) \in Seq(Keys) /\ Distinct(Without(K))
           /\ Range(Without(K)) = Range(cache) \ K
BY MinusFacts DEF TypeOK, OneEntry, Without

\* The list with k as the youngest.
LEMMA YoungestFacts ==
    ASSUME TypeOK, OneEntry, NEW k \in Keys
    PROVE  LET c == Append(Without({k}), k)
           IN  /\ c \in Seq(Keys) /\ Distinct(c)
               /\ Range(c) = Range(cache) \cup {k}
<1> DEFINE w == Without({k})
           c == Append(w, k)
<1>1. w \in Seq(Keys) /\ Distinct(w) /\ Range(w) = Range(cache) \ {k}
  BY WithoutFacts
<1> HIDE DEF w
<1>2. c \in Seq(Keys) /\ Range(c) = Range(w) \cup {k}
  BY <1>1, RangeAppend
<1>3. k \notin Range(w)
  BY <1>1
<1>4. /\ Len(w) \in Nat /\ DOMAIN w = 1 .. Len(w) /\ DOMAIN c = 1 .. Len(w) + 1
      /\ c[Len(w) + 1] = k
      /\ \A i \in 1 .. Len(w) : c[i] = w[i] /\ w[i] \in Range(w)
  BY <1>1, AppendShape, RangeType
<1> DEFINE l == Len(w)
<1> HIDE DEF c, l
<1>5. ASSUME NEW i \in 1 .. l + 1, NEW j \in 1 .. l + 1, c[i] = c[j] PROVE i = j
  <2>1. CASE i \in 1 .. l /\ j \in 1 .. l
    BY <1>1, <1>4, <1>5, <2>1 DEF Distinct, l
  <2>2. ~(i \in 1 .. l /\ j = l + 1) /\ ~(j \in 1 .. l /\ i = l + 1)
    BY <1>3, <1>4, <1>5 DEF l
  <2>3. l \in Nat
    BY <1>4 DEF l
  <2> QED
    BY <2>1, <2>2, <2>3
<1>6. Distinct(c)
  BY <1>4, <1>5 DEF Distinct, l
<1> QED
  BY <1>1, <1>2, <1>6 DEF c, w

\* ensure_max_size leaves the young end, and as many as the bound allows.
LEMMA EvictedFacts ==
    ASSUME NEW c \in Seq(Keys), Distinct(c)
    PROVE  LET u == SeqMinus(c, Evicted(c))
               m == IF Len(c) > MaxCache THEN Len(c) - MaxCache ELSE 0
           IN  /\ u \in Seq(Keys) /\ m \in Nat /\ Len(u) = Len(c) - m
               /\ Distinct(u) /\ Range(u) = Range(c) \ Evicted(c)
               /\ Len(u) <= MaxCache
               /\ \A i \in 1 .. Len(c) - m : u[i] = c[m + i]
<1> DEFINE m == IF Len(c) > MaxCache THEN Len(c) - MaxCache ELSE 0
<1>1. Len(c) \in Nat /\ MaxCache \in Nat \ {0}
  BY CacheAssumption
<1>2. m \in Nat /\ m <= Len(c) /\ Len(c) - m <= MaxCache /\ 1 .. (Len(c) - MaxCache) = 1 .. m
  BY <1>1
<1> HIDE DEF m
<1>3. Evicted(c) = {c[i] : i \in 1 .. m}
  BY <1>2 DEF Evicted
<1>4. LET u == SeqMinus(c, Evicted(c))
      IN  /\ u \in Seq(Keys) /\ Len(u) = Len(c) - m
          /\ \A i \in 1 .. Len(c) - m : u[i] = c[m + i]
  <2>1. LET u == SeqMinus(c, {c[i] : i \in 1 .. m})
        IN  /\ u \in Seq(Keys) /\ Len(u) = Len(c) - m
            /\ \A i \in 1 .. Len(c) - m : u[i] = c[m + i]
    BY <1>2, MinusFirst
  <2> QED
    BY <2>1, <1>3
<1>5. LET u == SeqMinus(c, Evicted(c)) IN Distinct(u) /\ Range(u) = Range(c) \ Evicted(c)
  BY MinusFacts
<1> QED
  BY <1>2, <1>4, <1>5 DEF m

-----------------------------------------------------------------------------
(***************************************************************************)
(* The steps.                                                              *)
(***************************************************************************)

\* Initially nothing is banned.
LEMMA InitIInv == Init => IInv /\ InReach /\ OnTime
<1> SUFFICES ASSUME Init PROVE IInv /\ InReach /\ OnTime
  OBVIOUS
<1>1. TypeOK /\ now \in Nat /\ MaxDelay \in Nat
  BY CacheAssumption DEF Init, TypeOK, Nothing
<1>2. OneEntry
  BY DEF Init, OneEntry, Distinct
<1>3. \A k \in Keys : timer[k] = 0 /\ to_date[k] = 0
  BY DEF Init, Nothing
<1> QED
  BY <1>1, <1>2, <1>3 DEF IInv, Listed, Early, TimersMatchBans, InReach, OnTime

\* An entry takes its times with it: the values of each key after add.
LEMMA AddValues ==
    ASSUME IInv, NEW k \in Keys, NEW ms \in Durations, add(k, ms)
    PROVE  \E E : /\ \A x \in Keys : has(x)' <=> (has(x) \/ x = k) /\ x \notin E
                  /\ cache' \in Seq(Keys) /\ OneEntry'
                  /\ to_date' \in [Keys -> Nat] /\ timer' \in [Keys -> Nat]
                  /\ \A x \in Keys :
                       /\ to_date'[x] = IF x \in E THEN 0
                                        ELSE IF x # k THEN to_date[x]
                                        ELSE IF ms = 0 THEN 0 ELSE now + ms
                       /\ timer'[x] = IF x \in E THEN 0
                                      ELSE IF x # k THEN timer[x]
                                      ELSE IF ms = 0 THEN 0 ELSE now + Delay(ms)
<1> DEFINE c == Append(Without({k}), k)
           E == Evicted(c)
<1>1. c \in Seq(Keys) /\ Distinct(c) /\ Range(c) = Range(cache) \cup {k}
  BY YoungestFacts DEF IInv
<1>2. /\ cache' = SeqMinus(c, E)
      /\ to_date' = Drop([to_date EXCEPT ![k] = IF ms = 0 THEN 0 ELSE now + ms], E)
      /\ timer' = IF ms = 0 THEN Drop(Cleared({k}), E)
                  ELSE Drop([timer EXCEPT ![k] = now + Delay(ms)], E)
  BY DEF add
<1> HIDE DEF c
<1>3. cache' \in Seq(Keys) /\ Distinct(cache') /\ Range(cache') = Range(c) \ E
  BY <1>1, <1>2, EvictedFacts
<1>4. \A x \in Keys : has(x)' <=> (has(x) \/ x = k) /\ x \notin E
  <2>1. \A x : has(x)' <=> x \in Range(cache')
    BY DEF has, Range
  <2> QED
    BY <1>1, <1>3, <2>1, HasRange
<1>5. /\ ms \in Nat /\ now \in Nat /\ to_date \in [Keys -> Nat] /\ timer \in [Keys -> Nat]
      /\ ms # 0 => Delay(ms) \in Nat
  BY CacheAssumption, DelayFacts DEF IInv, TypeOK
<1> HIDE DEF E
<1>6. /\ to_date' \in [Keys -> Nat]
      /\ \A x \in Keys : to_date'[x] = IF x \in E THEN 0
                                       ELSE IF x # k THEN to_date[x]
                                       ELSE IF ms = 0 THEN 0 ELSE now + ms
  <2> DEFINE g == [to_date EXCEPT ![k] = IF ms = 0 THEN 0 ELSE now + ms]
  <2>1. /\ g \in [Keys -> Nat]
        /\ \A x \in Keys : g[x] = IF x # k THEN to_date[x] ELSE IF ms = 0 THEN 0 ELSE now + ms
    BY <1>5
  <2> HIDE DEF g
  <2>2. to_date' = Drop(g, E)
    BY <1>2 DEF g
  <2> QED
    BY <2>1, <2>2, DropFacts
<1>7. /\ timer' \in [Keys -> Nat]
      /\ \A x \in Keys : timer'[x] = IF x \in E THEN 0
                                     ELSE IF x # k THEN timer[x]
                                     ELSE IF ms = 0 THEN 0 ELSE now + Delay(ms)
  <2> DEFINE g == IF ms = 0 THEN Cleared({k}) ELSE [timer EXCEPT ![k] = now + Delay(ms)]
  <2>1. /\ g \in [Keys -> Nat]
        /\ \A x \in Keys : g[x] = IF x # k THEN timer[x]
                                  ELSE IF ms = 0 THEN 0 ELSE now + Delay(ms)
    <3>1. CASE ms = 0
      BY <3>1, <1>5, DropFacts DEF Cleared
    <3>2. CASE ms # 0
      BY <3>2, <1>5
    <3> QED
      BY <3>1, <3>2
  <2>2. timer' = Drop(g, E)
    BY <1>2
  <2> HIDE DEF g
  <2> QED
    BY <2>1, <2>2, DropFacts
<1> QED
  BY <1>3, <1>4, <1>6, <1>7 DEF OneEntry

\* Where entries of K go, with their times, and nothing else changes.
LEMMA GoneValues ==
    ASSUME TypeOK, OneEntry, NEW K, cache' = Without(K)
    PROVE  /\ cache' \in Seq(Keys) /\ OneEntry'
           /\ \A x \in Keys : has(x)' <=> has(x) /\ x \notin K
<1>1. cache' \in Seq(Keys) /\ Distinct(cache') /\ Range(cache') = Range(cache) \ K
  BY WithoutFacts
<1>2. \A x : has(x)' <=> x \in Range(cache')
  BY DEF has, Range
<1> QED
  BY <1>1, <1>2, HasRange DEF OneEntry

\* The part of the types that no step endangers.
LEMMA StepOthers ==
    ASSUME IInv, [Next]_vars
    PROVE  /\ strays' \subseteq [key : Keys, at : Nat, plain : BOOLEAN]
           /\ plain' \subseteq Keys /\ running' \in BOOLEAN /\ now' \in Nat
           /\ now <= now'
<1>1. /\ strays \subseteq [key : Keys, at : Nat, plain : BOOLEAN]
      /\ plain \subseteq Keys /\ running \in BOOLEAN /\ now \in Nat
      /\ timer \in [Keys -> Nat]
  BY DEF IInv, TypeOK
<1>2. ASSUME NEW K, K \subseteq Keys
      PROVE  Orphans(K) \subseteq [key : Keys, at : Nat, plain : BOOLEAN]
  <2> SUFFICES ASSUME NEW o \in Orphans(K)
               PROVE  o \in [key : Keys, at : Nat, plain : BOOLEAN]
    OBVIOUS
  <2>1. PICK k \in K : o = [key |-> k, at |-> timer[k], plain |-> k \in plain]
    BY DEF Orphans
  <2> DEFINE b == k \in plain
  <2>2. k \in Keys /\ timer[k] \in Nat /\ b \in BOOLEAN
    BY <1>1, <1>2
  <2>3. o = [key |-> k, at |-> timer[k], plain |-> b]
    BY <2>1
  <2> HIDE DEF b
  <2> QED
    BY <2>2, <2>3
<1>3. CASE \E k \in Keys, ms \in Durations : add(k, ms)
  BY <1>1, <1>3 DEF add, Armed
<1>4. CASE \E k \in Keys : delete(k)
  BY <1>1, <1>4 DEF delete, Armed
<1>5. CASE clear
  BY <1>1, <1>2, <1>5 DEF clear
<1>6. CASE clear_timeouts
  <2>1. strays' = strays /\ plain' = {} /\ running' = FALSE /\ now' = now
    BY <1>6 DEF clear_timeouts
  <2>2. plain' \subseteq Keys /\ running' \in BOOLEAN
    BY <2>1
  <2>3. now' \in Nat /\ now <= now'
    BY <2>1, <1>1
  <2> QED
    BY <2>1, <2>2, <2>3, <1>1
<1>7. CASE create_timeouts
  BY <1>1, <1>7 DEF create_timeouts
<1>8. CASE \E k \in Keys : Expire(k)
  BY <1>1, <1>8 DEF Expire, delete, Armed
<1>9. ASSUME NEW t \in strays, StrayFires(t)
      PROVE  /\ strays' \subseteq [key : Keys, at : Nat, plain : BOOLEAN]
             /\ plain' \subseteq Keys /\ running' \in BOOLEAN /\ now' \in Nat
             /\ now <= now'
  <2>1. {t.key} \subseteq Keys
    BY <1>1, <1>9
  <2>2. Orphans({t.key}) \subseteq [key : Keys, at : Nat, plain : BOOLEAN]
    BY <2>1, <1>2
  <2> QED
    <3>1. /\ strays' = (strays \ {t}) \union IF t.plain THEN Orphans({t.key}) ELSE {}
          /\ plain' = plain \ {t.key} /\ running' = running /\ now' = now
      BY <1>9 DEF StrayFires
    <3>2. strays' \subseteq strays \cup Orphans({t.key})
      BY <3>1
    <3>3. strays' \subseteq [key : Keys, at : Nat, plain : BOOLEAN]
      BY <3>2, <1>1, <2>2
    <3> QED
      BY <3>1, <3>3, <1>1
<1>10. CASE Tick
  BY <1>1, <1>10 DEF Tick
<1>11. CASE UNCHANGED vars
  BY <1>1, <1>11 DEF vars
<1> QED
  BY <1>3, <1>4, <1>5, <1>6, <1>7, <1>8, <1>9, <1>10, <1>11 DEF Next, Timer

\* Entries that go with their times leave the rest as it is.
LEMMA StepGone ==
    ASSUME IInv, NEW K, cache' = Without(K), timer' = Drop(timer, K),
           to_date' = Drop(to_date, K), now' = now, running' = running
    PROVE  /\ cache' \in Seq(Keys) /\ to_date' \in [Keys -> Nat] /\ timer' \in [Keys -> Nat]
           /\ OneEntry' /\ Listed' /\ Early' /\ TimersMatchBans'
           /\ InReach => InReach'
           /\ OnTime => OnTime'
<1>1. /\ cache' \in Seq(Keys) /\ OneEntry'
      /\ \A x \in Keys : has(x)' <=> has(x) /\ x \notin K
  BY GoneValues DEF IInv
<1>2. /\ to_date \in [Keys -> Nat] /\ timer \in [Keys -> Nat] /\ now \in Nat /\ MaxDelay \in Nat
  BY CacheAssumption DEF IInv, TypeOK
<1>3. /\ to_date' \in [Keys -> Nat] /\ timer' \in [Keys -> Nat]
      /\ \A x \in Keys : /\ to_date'[x] = IF x \in K THEN 0 ELSE to_date[x]
                         /\ timer'[x] = IF x \in K THEN 0 ELSE timer[x]
  BY <1>2, DropFacts
<1>4. Listed'
  BY <1>1, <1>3 DEF IInv, Listed
<1>5. Early'
  BY <1>2, <1>3 DEF IInv, Early
<1>6. TimersMatchBans'
  BY <1>1, <1>3 DEF IInv, TimersMatchBans
<1>7. InReach => InReach'
  BY <1>2, <1>3 DEF InReach
<1>8. OnTime => OnTime'
  BY <1>3 DEF OnTime
<1> QED
  BY <1>1, <1>3, <1>4, <1>5, <1>6, <1>7, <1>8

\* The invariant, and its second part for bans that setTimeout can wait for.
LEMMA StepAll ==
    ASSUME IInv, [Next]_vars
    PROVE  /\ IInv'
           /\ InReach /\ OnTime /\ Durations \subseteq 0 .. MaxDelay => InReach' /\ OnTime'
<1> DEFINE Kept == /\ cache' \in Seq(Keys) /\ to_date' \in [Keys -> Nat]
                   /\ timer' \in [Keys -> Nat]
                   /\ OneEntry' /\ Listed' /\ Early' /\ TimersMatchBans'
                   /\ InReach /\ OnTime /\ Durations \subseteq 0 .. MaxDelay
                        => InReach' /\ OnTime'
<1>1. /\ to_date \in [Keys -> Nat] /\ timer \in [Keys -> Nat] /\ now \in Nat
      /\ MaxDelay \in Nat \ {0} /\ Durations \subseteq Nat
      /\ cache \in Seq(Keys)
  BY CacheAssumption DEF IInv, TypeOK
<1>2. OneEntry /\ Listed /\ Early /\ TimersMatchBans
  BY DEF IInv
<1>3. ASSUME NEW k \in Keys, NEW ms \in Durations, add(k, ms) PROVE Kept
  <2>1. PICK E : /\ \A x \in Keys : has(x)' <=> (has(x) \/ x = k) /\ x \notin E
                 /\ cache' \in Seq(Keys) /\ OneEntry'
                 /\ to_date' \in [Keys -> Nat] /\ timer' \in [Keys -> Nat]
                 /\ \A x \in Keys :
                      /\ to_date'[x] = IF x \in E THEN 0
                                       ELSE IF x # k THEN to_date[x]
                                       ELSE IF ms = 0 THEN 0 ELSE now + ms
                      /\ timer'[x] = IF x \in E THEN 0
                                     ELSE IF x # k THEN timer[x]
                                     ELSE IF ms = 0 THEN 0 ELSE now + Delay(ms)
    BY <1>3, AddValues
  <2>2. /\ ms \in Nat /\ now' = now /\ running' = running
        /\ ms # 0 => /\ Delay(ms) \in Nat /\ Delay(ms) # 0 /\ Delay(ms) <= ms
                     /\ ms <= MaxDelay => Delay(ms) = ms
    BY <1>1, <1>3, DelayFacts DEF add
  <2>3. Listed'
    BY <2>1, <1>2 DEF Listed
  <2>4. Early'
    <3> SUFFICES ASSUME NEW x \in Keys, timer'[x] # 0 PROVE timer'[x] <= to_date'[x]
      BY DEF Early
    <3>1. CASE x # k
      BY <3>1, <2>1, <1>2 DEF Early
    <3>2. CASE x = k
      <4>1. timer'[k] = now + Delay(ms) /\ to_date'[k] = now + ms /\ ms # 0
        BY <3>2, <2>1
      <4> QED
        BY <4>1, <3>2, <2>2, <1>1
    <3> QED
      BY <3>1, <3>2
  <2>5. ASSUME NEW x \in Keys PROVE timer'[x] # 0 => has(x)' /\ to_date'[x] # 0
    <3>1. CASE x # k
      BY <3>1, <2>1, <1>2 DEF TimersMatchBans
    <3>2. CASE x = k
      BY <3>2, <2>1, <2>2, <1>1
    <3> QED
      BY <3>1, <3>2
  <2>6. ASSUME running, NEW x \in Keys, has(x)', to_date'[x] # 0
        PROVE  timer'[x] # 0 /\ to_date'[x] >= now
    <3>1. CASE x # k
      BY <3>1, <2>1, <2>6, <1>2 DEF TimersMatchBans
    <3>2. CASE x = k
      <4>1. timer'[k] = now + Delay(ms) /\ to_date'[k] = now + ms /\ ms # 0
        BY <3>2, <2>1, <2>6
      <4> QED
        BY <4>1, <3>2, <2>2, <1>1
    <3> QED
      BY <3>1, <3>2
  <2>7. TimersMatchBans'
    BY <2>2, <2>5, <2>6 DEF TimersMatchBans
  <2>8. ASSUME InReach, OnTime, Durations \subseteq 0 .. MaxDelay PROVE InReach' /\ OnTime'
    <3>1. ms <= MaxDelay /\ ms \in 0 .. MaxDelay
      BY <2>8
    <3>2. ms # 0 => Delay(ms) = ms
      BY <3>1, <2>2
    <3>3. \A x \in Keys : to_date[x] <= now + MaxDelay
      BY <2>8 DEF InReach
    <3>4. ASSUME NEW x \in Keys PROVE to_date'[x] <= now + MaxDelay
      <4>1. to_date[x] <= now + MaxDelay /\ 0 <= now + MaxDelay
        BY <3>3, <1>1
      <4>2. now + ms <= now + MaxDelay
        BY <3>1, <2>2, <1>1
      <4> QED
        BY <4>1, <4>2, <2>1
    <3>5. InReach'
      BY <3>4, <2>2 DEF InReach
    <3>6. OnTime'
      BY <3>2, <2>8, <2>1, <1>1 DEF OnTime
    <3> QED
      BY <3>5, <3>6
  <2> QED
    BY <2>1, <2>3, <2>4, <2>7, <2>8
<1>4. ASSUME NEW k \in Keys, delete(k) PROVE Kept
  BY <1>4, StepGone DEF delete, Cleared
<1>5. ASSUME clear PROVE Kept
  <2>1. \A x \in Keys : timer'[x] = 0 /\ to_date'[x] = 0
    BY <1>5 DEF clear, Nothing
  <2>2. /\ cache' \in Seq(Keys) /\ OneEntry' /\ now' = now
        /\ timer' \in [Keys -> Nat] /\ to_date' \in [Keys -> Nat]
    BY <1>5 DEF clear, OneEntry, Distinct, Nothing
  <2> QED
    BY <2>1, <2>2, <1>1 DEF Listed, Early, TimersMatchBans, InReach, OnTime
<1>6. ASSUME clear_timeouts PROVE Kept
  <2>1. /\ \A x \in Keys : timer'[x] = 0
        /\ cache' = cache /\ now' = now /\ to_date' = to_date /\ running' = FALSE
        /\ timer' \in [Keys -> Nat]
    BY <1>6 DEF clear_timeouts, Nothing
  <2>2. \A x : has(x)' <=> has(x)
    BY <2>1 DEF has
  <2> QED
    BY <2>1, <2>2, <1>1, <1>2 DEF OneEntry, Listed, Early, TimersMatchBans, InReach, OnTime
<1>7. ASSUME create_timeouts PROVE Kept
  <2>1. /\ cache' = Without(Expired) /\ to_date' = Drop(to_date, Expired)
        /\ timer' = [k \in Keys |-> IF to_date[k] > now
                                    THEN now + Delay(to_date[k] - now) ELSE 0]
        /\ now' = now
    BY <1>7 DEF create_timeouts
  <2>2. /\ cache' \in Seq(Keys) /\ OneEntry'
        /\ \A x \in Keys : has(x)' <=> has(x) /\ x \notin Expired
    BY <2>1, GoneValues DEF IInv
  <2>3. \A x \in Keys : x \in Expired <=> to_date[x] # 0 /\ to_date[x] <= now
    BY <1>2 DEF Expired, Listed
  <2>4. /\ to_date' \in [Keys -> Nat]
        /\ \A x \in Keys : to_date'[x] = IF to_date[x] <= now THEN 0 ELSE to_date[x]
    BY <2>1, <2>3, <1>1, DropFacts
  <2>5. ASSUME NEW x \in Keys, to_date[x] > now
        PROVE  LET d == Delay(to_date[x] - now)
               IN  /\ d \in Nat /\ d # 0 /\ now + d <= to_date[x]
                   /\ to_date[x] <= now + MaxDelay => now + d = to_date[x]
    <3>1. to_date[x] - now \in Nat /\ to_date[x] - now # 0 /\ to_date[x] \in Nat
      BY <2>5, <1>1
    <3> DEFINE ms == to_date[x] - now
    <3>2. /\ Delay(ms) \in Nat /\ Delay(ms) # 0 /\ Delay(ms) <= ms
          /\ ms <= MaxDelay => Delay(ms) = ms
      <4> HIDE DEF ms
      <4>1. ms \in Nat /\ ms # 0
        BY <3>1 DEF ms
      <4> QED
        BY <4>1, DelayFacts
    <3>3. ms = to_date[x] - now /\ now + ms = to_date[x]
      BY <3>1, <1>1
    <3> DEFINE d == Delay(ms)
    <3>4. /\ d \in Nat /\ d # 0 /\ now + d <= to_date[x]
          /\ to_date[x] <= now + MaxDelay => now + d = to_date[x]
      <4> HIDE DEF d
      <4>1. d \in Nat /\ d # 0 /\ d <= ms /\ (ms <= MaxDelay => d = ms)
        BY <3>2 DEF d
      <4> HIDE DEF ms
      <4>2. ms \in Nat /\ now \in Nat
        BY <3>1, <1>1 DEF ms
      <4> QED
        BY <4>1, <4>2, <3>3, <1>1
    <3> QED
      BY <3>4
  <2>6. timer' \in [Keys -> Nat]
    BY <2>1, <2>5, <1>1
  <2>7. \A x \in Keys : timer'[x] = IF to_date[x] > now THEN now + Delay(to_date[x] - now) ELSE 0
    BY <2>1
  <2>8. Listed'
    BY <2>2, <2>3, <2>4, <1>1, <1>2 DEF Listed
  <2>9. Early'
    BY <2>4, <2>5, <2>7, <1>1 DEF Early
  <2>10. TimersMatchBans'
    <3>1. ASSUME NEW x \in Keys, timer'[x] # 0 PROVE has(x)' /\ to_date'[x] # 0
      <4>1. to_date[x] > now /\ to_date[x] # 0
        BY <3>1, <2>7, <1>1
      <4> QED
        BY <4>1, <2>2, <2>3, <2>4, <1>1, <1>2 DEF Listed
    <3>2. ASSUME NEW x \in Keys, to_date'[x] # 0 PROVE timer'[x] # 0 /\ to_date'[x] >= now
      <4>1. to_date[x] > now /\ to_date'[x] = to_date[x]
        BY <3>2, <2>4, <1>1
      <4> QED
        BY <4>1, <2>5, <2>7, <1>1
    <3> QED
      BY <3>1, <3>2, <2>1 DEF TimersMatchBans
  <2>11. InReach => InReach'
    BY <2>1, <2>4, <1>1 DEF InReach
  <2>12. InReach => OnTime'
    BY <2>4, <2>5, <2>7, <1>1 DEF InReach, OnTime
  <2> QED
    BY <2>2, <2>4, <2>6, <2>8, <2>9, <2>10, <2>11, <2>12
<1>8. ASSUME NEW k \in Keys, Expire(k) PROVE Kept
  BY <1>4, <1>8 DEF Expire
<1>9. ASSUME NEW t \in strays, StrayFires(t) PROVE Kept
  BY <1>9, StepGone DEF StrayFires
<1>10. ASSUME Tick PROVE Kept
  <2>1. /\ cache' = cache /\ now' = now + 1 /\ to_date' = to_date /\ running' = running
        /\ timer' = timer
    BY <1>10 DEF Tick
  <2>2. \A x : has(x)' <=> has(x)
    BY <2>1 DEF has
  <2>3. \A x \in Keys : timer[x] # 0 => timer[x] > now
    BY <1>10, <1>1 DEF Tick, Due
  <2>4. TimersMatchBans'
    BY <2>1, <2>2, <2>3, <1>1, <1>2 DEF TimersMatchBans, Early
  <2>5. OneEntry' /\ Listed' /\ Early'
    BY <2>1, <2>2, <1>2 DEF OneEntry, Listed, Early
  <2>6. InReach => InReach'
    BY <2>1, <1>1 DEF InReach
  <2>7. OnTime => OnTime'
    BY <2>1 DEF OnTime
  <2> QED
    BY <2>1, <2>4, <2>5, <2>6, <2>7, <1>1
<1>11. ASSUME UNCHANGED vars PROVE Kept
  <2>1. /\ cache' = cache /\ now' = now /\ to_date' = to_date /\ running' = running
        /\ timer' = timer
    BY <1>11 DEF vars
  <2>2. \A x : has(x)' <=> has(x)
    BY <2>1 DEF has
  <2> QED
    BY <2>1, <2>2, <1>1, <1>2 DEF OneEntry, Listed, Early, TimersMatchBans, InReach, OnTime
<1>12. Kept
  <2> HIDE DEF Kept
  <2> QED
    BY <1>3, <1>4, <1>5, <1>6, <1>7, <1>8, <1>9, <1>10, <1>11 DEF Next, Timer
<1>13. TypeOK'
  BY <1>12, StepOthers DEF TypeOK
<1> QED
  BY <1>12, <1>13 DEF IInv

\* The invariant holds in every state.
LEMMA Invariant == Spec => []IInv
<1>1. Init => IInv
  BY InitIInv
<1>2. IInv /\ [Next]_vars => IInv'
  BY StepAll
<1> QED
  BY <1>1, <1>2, PTL DEF Spec

-----------------------------------------------------------------------------
(***************************************************************************)
(* The properties.                                                         *)
(***************************************************************************)

\* The type invariant.
THEOREM TypeCorrect == Spec => []TypeOK
<1>1. IInv => TypeOK
  BY DEF IInv
<1> QED
  BY <1>1, Invariant, PTL

\* While the port runs every ban with a duration has a timer and is gone when its
\* time is over, and no timer is armed for a ban that is not in the list or that
\* does not end: also when a port takes the list of its predecessor over, and
\* also when a ban is longer than setTimeout can wait.
THEOREM BansEnd == Spec => []TimersMatchBans
<1>1. IInv => TimersMatchBans
  BY DEF IInv
<1> QED
  BY <1>1, Invariant, PTL

\* A ban whose own timer fires is over, as long as no ban is longer than setTimeout
\* can wait; a longer one is lifted at once (Delay).
THEOREM BansLastTheirTime ==
    ASSUME Durations \subseteq 0 .. MaxDelay
    PROVE  Spec => OwnTimerIsDue
<1> DEFINE Inv == IInv /\ InReach /\ OnTime
           Due1 == \A k \in Keys : Expire(k) => to_date[k] # 0 /\ to_date[k] <= now
<1>1. Init => Inv
  BY InitIInv
<1>2. Inv /\ [Next]_vars => Inv'
  BY StepAll
<1>3. Inv => Due1
  BY DEF IInv, TypeOK, OnTime, Expire
<1> QED
  BY <1>1, <1>2, <1>3, PTL DEF Spec, OwnTimerIsDue

\* What a ban leaves of the list: the ban itself, the youngest, after the youngest
\* of the others, and not more than the bound.
LEMMA AddKeepsNewest ==
    ASSUME IInv, NEW k \in Keys, NEW ms \in Durations, add(k, ms)
    PROVE  /\ Last(cache') = k
           /\ IsSuffix(Front(cache'), Without({k}))
           /\ Len(cache') <= MaxCache
<1> DEFINE w == Without({k})
           c == Append(w, k)
           u == SeqMinus(c, Evicted(c))
           m == IF Len(c) > MaxCache THEN Len(c) - MaxCache ELSE 0
<1>1. cache' = u
  BY DEF add
<1>2. c \in Seq(Keys) /\ Distinct(c)
  BY YoungestFacts DEF IInv
<1>3. w \in Seq(Keys)
  BY WithoutFacts DEF IInv
<1> HIDE DEF w
<1>4. /\ Len(w) \in Nat /\ Len(c) = Len(w) + 1 /\ c[Len(w) + 1] = k
      /\ \A i \in 1 .. Len(w) : c[i] = w[i]
  BY <1>3, AppendShape
<1> HIDE DEF c
<1>5. /\ u \in Seq(Keys) /\ m \in Nat /\ Len(u) = Len(c) - m /\ Len(u) <= MaxCache
      /\ \A i \in 1 .. Len(c) - m : u[i] = c[m + i]
  BY <1>2, EvictedFacts
<1>6. m < Len(c)
  BY <1>4, CacheAssumption
<1> HIDE DEF u, m
<1>7. Last(u) = k
  <2>1. Len(c) - m \in 1 .. Len(c) - m /\ m + (Len(c) - m) = Len(w) + 1
    BY <1>4, <1>5, <1>6
  <2> QED
    BY <2>1, <1>4, <1>5 DEF Last
<1> DEFINE f == Front(u)
<1>8. /\ f \in Seq(Keys) /\ Len(f) = Len(w) - m /\ m <= Len(w)
      /\ \A i \in 1 .. Len(w) - m : f[i] = w[m + i]
  <2>1. Len(u) = Len(w) + 1 - m /\ Len(u) - 1 = Len(w) - m /\ m <= Len(w)
    BY <1>4, <1>5, <1>6
  <2>2. /\ f \in Seq(Keys) /\ Len(f) = Len(u) - 1
        /\ \A i \in 1 .. Len(u) - 1 : f[i] = u[i]
    BY <2>1, <1>5, <1>4 DEF Front
  <2>3. ASSUME NEW i \in 1 .. Len(w) - m PROVE f[i] = w[m + i]
    <3>1. i \in 1 .. Len(u) - 1 /\ i \in 1 .. Len(c) - m /\ m + i \in 1 .. Len(w)
      BY <2>1, <1>4, <1>5
    <3> QED
      BY <3>1, <2>2, <1>4, <1>5
  <2> QED
    BY <2>1, <2>2, <2>3
<1> HIDE DEF f
<1>9. IsSuffix(f, w)
  <2> DEFINE rf == Reverse(f)
             rw == Reverse(w)
             n == Len(f)
  <2>1. n \in Nat /\ n = Len(w) - m /\ n <= Len(w)
    BY <1>3, <1>4, <1>5, <1>8
  <2>2. /\ rf \in Seq(Keys) /\ Len(rf) = n
        /\ \A i \in 1 .. n : rf[i] = f[n - i + 1]
    BY <1>8 DEF Reverse
  <2>3. /\ rw \in Seq(Keys) /\ Len(rw) = Len(w)
        /\ \A i \in 1 .. Len(w) : rw[i] = w[Len(w) - i + 1]
    BY <1>3 DEF Reverse
  <2> HIDE DEF rf, rw, n
  <2>4. ASSUME NEW i \in 1 .. n PROVE rf[i] = rw[i]
    <3>1. n - i + 1 \in 1 .. Len(w) - m /\ m + (n - i + 1) = Len(w) - i + 1 /\ i \in 1 .. Len(w)
      BY <2>1, <1>5, <1>4
    <3>2. f[n - i + 1] = w[m + (n - i + 1)]
      BY <3>1, <1>8
    <3> QED
      BY <3>1, <3>2, <2>2, <2>3
  <2>5. SubSeq(rf, 1, n) = [i \in 1 .. n |-> rf[i]]
    BY <2>1, <2>2
  <2>6. SubSeq(rw, 1, n) = [i \in 1 .. n |-> rw[i]]
    BY <2>1, <2>3
  <2>7. SubSeq(rf, 1, n) = SubSeq(rw, 1, n)
    BY <2>4, <2>5, <2>6
  <2> QED
    BY <2>1, <2>2, <2>3, <2>7 DEF IsSuffix, IsPrefix, rf, rw
<1> QED
  BY <1>1, <1>5, <1>7, <1>9 DEF f, w

\* A full list keeps the ban that was set last and drops the oldest ones; the list
\* that is sent to the workers stays within MAX_CACHE.
THEOREM NewestBansStay == Spec => NewestIsKept
<1> DEFINE Kept == \A k \in Keys, ms \in Durations :
                     add(k, ms) => /\ Last(cache') = k
                                   /\ IsSuffix(Front(cache'), Without({k}))
                                   /\ Len(cache') <= MaxCache
<1>1. IInv /\ [Next]_vars => [Kept]_vars
  BY AddKeepsNewest
<1> QED
  BY <1>1, Invariant, PTL DEF Spec, NewestIsKept
=============================================================================
