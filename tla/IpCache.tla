------------------------------- MODULE IpCache -------------------------------
(***************************************************************************)
(* The ban list of one proxy port: class Ip_cache of lib/ip_cache.js, a    *)
(* Map in insertion order whose entries expire by a timer each.            *)
(*                                                                         *)
(* A key is an IP or an IP and a domain (_key).  Time is counted in the    *)
(* units of the bans' durations; a timer that is due fires before time     *)
(* goes on.  A timer is either the one its entry refers to (entry.to) or   *)
(* stray: armed, and referred to by no entry.                              *)
(***************************************************************************)
EXTENDS Integers, Sequences, FiniteSets, SequencesExt, Lists

CONSTANTS
    Keys,        \* what _key returns
    Durations,   \* the ms of a ban, 0 bans for ever
    MaxDelay,    \* the longest delay setTimeout takes, 2^31-1 ms in Node
    MaxCache,    \* MAX_CACHE
    MaxStrays,   \* bound on the stray timers at a time
    MaxTime      \* bound on the clock

ASSUME CacheAssumption == /\ Durations \subseteq Nat
                          /\ {MaxDelay, MaxCache} \subseteq Nat \ {0}
                          /\ {MaxStrays, MaxTime} \subseteq Nat

VARIABLES
    cache,    \* the keys of this.cache, oldest first
    to_date,  \* entry.to_date: when the ban ends, 0 for never (or no entry)
    timer,    \* when the timer entry.to fires, 0 if none is armed
    plain,    \* the keys whose timer create_timeouts armed: it deletes from
              \* the Map alone
    strays,   \* armed timers without an entry: [key, at, plain]
    running,  \* the port runs: between create_timeouts and clear_timeouts
    now

vars == <<cache, to_date, timer, plain, strays, running, now>>

Nothing == [k \in Keys |-> 0]

Init == /\ cache = <<>>
        /\ to_date = Nothing
        /\ timer = Nothing
        /\ plain = {}
        /\ strays = {}
        /\ running = TRUE
        /\ now = 1

has(k) == \E i \in DOMAIN cache : cache[i] = k

\* f without the values of the keys in K
MutDrop(f, K) == [k \in Keys |-> IF k \in K THEN -1 ELSE f[k]]
Drop(f, K) == [k \in Keys |-> IF k \in K THEN 0 ELSE f[k]]

\* setTimeout: a longer delay than it takes is replaced by the shortest one.
Delay(ms) == IF ms > MaxDelay THEN 1 ELSE ms

-----------------------------------------------------------------------------
(***************************************************************************)
(* Operations.                                                             *)
(***************************************************************************)

\* The list without the keys in K
Without(K) == SeqMinus(cache, K)

\* delete clears the timer of an entry that goes.
MutCleared(K) == timer
Cleared(K) == Drop(timer, K)

\* The keys of K that have a timer after this step
Armed(K) == {k \in K : timer'[k] # 0}

\* ensure_max_size drops the oldest entries above the bound.
MutEvicted(c) == {c[i] : i \in 2 .. (Len(c) - MaxCache + 1)}
Evicted(c) == {c[i] : i \in 1 .. (Len(c) - MaxCache)}

\* add: the old entry goes with its timer, the new one is the youngest.
add(k, ms) ==
    LET c == Append(Without({k}), k) IN
    /\ cache' = SeqMinus(c, Evicted(c))
    /\ to_date' = Drop([to_date EXCEPT ![k] = IF ms = 0 THEN 0 ELSE now + ms], Evicted(c))
    /\ timer' = IF ms = 0 THEN Drop(Cleared({k}), Evicted(c))
                ELSE Drop([timer EXCEPT ![k] = now + Delay(ms)], Evicted(c))
    /\ plain' = Armed(plain \ {k})
    /\ UNCHANGED <<strays, running, now>>

delete(k) ==
    /\ has(k)
    /\ cache' = Without({k})
    /\ timer' = Cleared({k})
    /\ plain' = Armed(plain)
    /\ to_date' = Drop(to_date, {k})
    /\ UNCHANGED <<strays, running, now>>

\* The timers of the keys in K, once their entries are gone
Orphans(K) == {[key |-> k, at |-> timer[k], plain |-> k \in plain] :
                  k \in {x \in K : timer[x] # 0}}

\* clear empties the Map; the timers of the entries stay armed.
clear ==
    /\ cache # <<>>
    /\ Cardinality(strays \union Orphans(Keys)) <= MaxStrays
    /\ cache' = <<>>
    /\ strays' = strays \union Orphans(Keys)
    /\ timer' = Nothing
    /\ plain' = {}
    /\ to_date' = Nothing
    /\ UNCHANGED <<running, now>>

\* stop_port: clear_timeouts while the port stops
clear_timeouts ==
    /\ running
    /\ running' = FALSE
    /\ timer' = Nothing
    /\ plain' = {}
    /\ UNCHANGED <<cache, to_date, strays, now>>

\* A new port takes the Map over (mgr_proxy.js hands banlist on, and the
\* constructor of Ip_cache calls create_timeouts): entries that ended meanwhile
\* go, the others get a new timer.
MutExpired == {k \in Keys : has(k) /\ to_date[k] # 0 /\ to_date[k] < now}
Expired == {k \in Keys : has(k) /\ to_date[k] # 0 /\ to_date[k] <= now}

create_timeouts ==
    /\ ~running
    /\ cache' = Without(Expired)
    /\ timer' = [k \in Keys |-> IF to_date[k] > now THEN now + Delay(to_date[k] - now) ELSE 0]
    /\ plain' = {k \in Keys : to_date[k] > now}
    /\ to_date' = Drop(to_date, Expired)
    /\ running' = TRUE
    /\ UNCHANGED <<strays, now>>

-----------------------------------------------------------------------------
(***************************************************************************)
(* The timers and the clock.                                               *)
(***************************************************************************)

\* The entry's own timer.
Expire(k) ==
    /\ timer[k] # 0
    /\ timer[k] <= now
    /\ delete(k)

\* A stray timer deletes the key it was armed for: an entry that was added
\* since goes.  Its own timer goes with it, or becomes a stray as well if the
\* first one deletes from the Map alone.
StrayFires(t) ==
    /\ t.at <= now
    /\ strays' = (strays \ {t}) \union IF t.plain THEN Orphans({t.key}) ELSE {}
    /\ cache' = Without({t.key})
    /\ timer' = Drop(timer, {t.key})
    /\ plain' = plain \ {t.key}
    /\ to_date' = Drop(to_date, {t.key})
    /\ UNCHANGED <<running, now>>

Due == \/ \E k \in Keys : timer[k] # 0 /\ timer[k] <= now
       \/ \E t \in strays : t.at <= now

Tick == /\ now < MaxTime
        /\ ~Due
        /\ now' = now + 1
        /\ UNCHANGED <<cache, to_date, timer, plain, strays, running>>

Timer == (\E k \in Keys : Expire(k)) \/ (\E t \in strays : StrayFires(t))

Next == \/ \E k \in Keys, ms \in Durations : add(k, ms)
        \/ \E k \in Keys : delete(k)
        \/ clear \/ clear_timeouts \/ create_timeouts
        \/ Timer \/ Tick

Spec == Init /\ [][Next]_vars

-----------------------------------------------------------------------------
(***************************************************************************)
(* Properties.                                                             *)
(***************************************************************************)

\* Types: a time of 0 stands for "never" and for "no timer".
TypeOK == /\ cache \in Seq(Keys)
          /\ to_date \in [Keys -> Nat]
          /\ timer \in [Keys -> Nat]
          /\ strays \subseteq [key : Keys, at : Nat, plain : BOOLEAN]
          /\ plain \subseteq Keys
          /\ running \in BOOLEAN
          /\ now \in Nat

\* A timer belongs to a ban that is in the list and that ends, or it would end a
\* later ban of the same IP.  While the port runs every ban with a duration has
\* a timer, and is gone when its time is over (the timer may be due in this very
\* instant): also a ban that was taken over from a stopped port.
TimersMatchBans ==
    /\ \A k \in Keys : timer[k] # 0 => has(k) /\ to_date[k] # 0
    /\ running => \A k \in Keys : has(k) /\ to_date[k] # 0 =>
                                       timer[k] # 0 /\ to_date[k] >= now

\* The timer that an entry refers to fires when the time of this very ban is
\* over: not that of an earlier ban of the same key, nor of one the port's
\* predecessor had armed.
OwnTimerIsDue ==
    [][\A k \in Keys : Expire(k) => to_date[k] # 0 /\ to_date[k] <= now]_vars

\* No timer at all ends a ban before its time; an IP that was banned again,
\* for longer or for ever, stays.
TimersEndOnlyExpired ==
    [][Timer => \A k \in Keys : has(k) /\ ~has(k)' =>
                    to_date[k] # 0 /\ to_date[k] <= now]_vars

\* The list, which is serialized into every message that configures a worker,
\* stays within its bound.  When it is full the ban that was set last is kept
\* and the oldest ones are dropped: what is left is the young end of the list
\* before, without the entry that the ban replaces.
NewestIsKept ==
    [][\A k \in Keys, ms \in Durations :
          add(k, ms) => /\ Last(cache') = k
                        /\ IsSuffix(Front(cache'), Without({k}))
                        /\ Len(cache') <= MaxCache]_vars
=============================================================================
