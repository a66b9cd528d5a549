------------------------------ MODULE WorkersIpc ------------------------------
(***************************************************************************)
(* Calls between the master and its workers (util/cluster_ipc.js) and the  *)
(* two services built on them: the cache of responses that the workers     *)
(* share (lib/cache.js, lib/cache_client.js, the cache action of           *)
(* lib/rules.js) and the statistics that the master collects from them     *)
(* (lib/stat.js).                                                          *)
(*                                                                         *)
(* Between two processes messages keep their order.  A worker that dies    *)
(* ("dying") leaves what it had sent to be read until the master sees its  *)
(* exit ("dead").  A request is a number; its statistics are the request   *)
(* itself, so that none can be counted twice without being seen.           *)
(* "world" says what is configured:                                        *)
(*   cache   a rule of the port caches responses                           *)
(*   stat    the cloud wants statistics (server_conf.client.send_stat)     *)
(*   two     two workers, not one                                          *)
(* and which troubles may occur, at most MaxTroubles of them:              *)
(*   crash   a worker dies                                                 *)
(*   reconf  new settings from the cloud restart the collecting interval   *)
(*   restart config_changed: the manager stops, a new one takes over in    *)
(*           the same process                                              *)
(*   lossy   send_stat fails                                               *)
(***************************************************************************)
EXTENDS Naturals, Sequences, FiniteSets

CONSTANTS None, Urls, Sizes,
          MaxWorkers,               \* ever forked
          MaxRequests, MaxTroubles,
          CACHE_LIMIT, Hour,        \* in units of size, in ticks
          Worlds

ASSUME BoundsAssumption ==
  /\ MaxWorkers \in Nat /\ MaxRequests \in Nat /\ MaxTroubles \in Nat
  /\ Hour \in Nat /\ CACHE_LIMIT \in Nat \ {0}
ASSUME SizesAssumption == Sizes \subseteq Nat

VARIABLES world, troubles,
          status, killed,           \* of every worker
          toW, toM,                 \* channels to and from every worker
          pend,                     \* incoming_pending of a worker
          waitM, waitW,             \* "waiting" of the master, of a worker
          data,                     \* Stat._data of a worker
          task, issued,             \* the request of a worker; requests so far
          mgr, flush, gen,          \* managers; their collecting of statistics
          uploaded,                 \* statistics the cloud has
          cache, space_taken, timers

procs == <<status, killed>>
ipc == <<toW, toM, pend, waitM, waitW>>
requests == <<task, issued>>
stat == <<mgr, flush, gen, uploaded>>
store == <<cache, space_taken, timers>>
vars == <<world, troubles, procs, ipc, data, requests, stat, store>>

Workers == 1..MaxWorkers
Requests == 1..MaxRequests
Mgrs == 1..(MaxTroubles + 1)
Keys == Workers \X Mgrs \X (0..MaxTroubles)
Funs == {"has", "get", "set"}
Stages == Funs \cup {"none", "fetch"}
Idle == [stage |-> "none", id |-> 0, url |-> None]
NoFlush == [stage |-> "idle", asked |-> {}, got |-> {}]

TypeOK ==
  /\ world \in Worlds /\ troubles \in 0..MaxTroubles
  /\ status \in [Workers -> {"unborn", "booting", "ready", "dying", "dead"}]
  /\ killed \subseteq Workers
  /\ waitM \subseteq Keys
  /\ waitW \in [Workers -> SUBSET (Funs \X Requests)]
  /\ data \in [Workers -> SUBSET Requests] /\ uploaded \subseteq Requests
  /\ task \in [Workers -> [stage: Stages, id: 0..MaxRequests,
                           url: Urls \cup {None}]]
  /\ issued \in 0..MaxRequests
  /\ mgr \in Mgrs /\ gen \in [Mgrs -> 0..MaxTroubles]
  /\ flush \in [Mgrs -> [stage: {"idle", "collect", "send"},
                         asked: SUBSET Workers, got: SUBSET Requests]]
  /\ cache \in [Urls -> [id: Requests, size: Sizes] \cup {None}]
  /\ space_taken \in 0..CACHE_LIMIT
  /\ timers \subseteq [id: Requests, url: Urls, space: Sizes, left: 0..Hour]

NumWorkers == IF "two" \in world THEN 2 ELSE 1
May(what) == what \in world /\ troubles < MaxTroubles
Trouble == troubles' = troubles + 1

Init ==
  /\ world \in Worlds /\ troubles = 0
  /\ status = [w \in Workers |-> IF w <= NumWorkers THEN "booting" ELSE "unborn"]
  /\ killed = {}
  /\ toW = [w \in Workers |-> <<>>] /\ toM = toW /\ pend = toW
  /\ waitM = {} /\ waitW = [w \in Workers |-> {}]
  /\ data = [w \in Workers |-> {}]
  /\ task = [w \in Workers |-> Idle] /\ issued = 0
  /\ mgr = 1 /\ flush = [f \in Mgrs |-> NoFlush] /\ gen = [f \in Mgrs |-> 0]
  /\ uploaded = {}
  /\ cache = [u \in Urls |-> None] /\ space_taken = 0 /\ timers = {}

-----------------------------------------------------------------------------
(* The cache, in the master *)

MutRoom(size) == space_taken < CACHE_LIMIT      \* the new response is not counted

Room(size) == space_taken + size < CACHE_LIMIT

MutSet(id, u, size) ==                          \* one timer for each URL
  \/ /\ ~Room(size)
     /\ UNCHANGED store
  \/ /\ Room(size)
     /\ cache' = [cache EXCEPT ![u] = [id |-> id, size |-> size]]
     /\ IF cache[u] # None THEN UNCHANGED <<space_taken, timers>>
        ELSE /\ timers' = timers \cup {[id |-> id, url |-> u, space |-> size,
                                        left |-> Hour]}
             /\ space_taken' = space_taken + size

cache_set(id, u, size) ==
  \/ /\ ~Room(size)
     /\ UNCHANGED store
  \/ /\ Room(size)
     /\ timers' = timers \cup {[id |-> id, url |-> u, space |-> size,
                                left |-> Hour]}
     /\ cache' = [cache EXCEPT ![u] = [id |-> id, size |-> size]]
     /\ space_taken' = space_taken + size

\* the timer of one set(): it deletes the URL, whoever stored it last
Expire ==
  \E t \in timers :
    /\ t.left = 0
    /\ timers' = timers \ {t}
    /\ space_taken' = space_taken - t.space
    /\ cache' = [cache EXCEPT ![t.url] = None]
    /\ UNCHANGED <<world, troubles, procs, ipc, data, requests, stat>>

Tick ==
  /\ timers # {} /\ \A t \in timers : t.left > 0
  /\ timers' = {[t EXCEPT !.left = @ - 1] : t \in timers}
  /\ UNCHANGED <<world, troubles, procs, ipc, data, requests, stat, cache,
                 space_taken>>

-----------------------------------------------------------------------------
(* Messages *)

\* Cache_client in worker w: a call to the master for its request t, once the
\* calls in "answered" are plucked
CallMaster(w, t, size, answered) ==
  /\ task' = [task EXCEPT ![w] = t]
  /\ waitW' = [waitW EXCEPT ![w] = (@ \ answered) \cup {<<t.stage, t.id>>}]
  /\ toM' = [toM EXCEPT ![w] = Append(@,
       [type |-> "call", fn |-> t.stage, id |-> t.id, url |-> t.url,
        size |-> size])]

\* the request of w is over: usage or usage_abort counts it
EndCount(w) == [data EXCEPT ![w] = @ \cup {task[w].id}]
EndRequest(w) == data' = EndCount(w) /\ task' = [task EXCEPT ![w] = Idle]

StartRequest(w, u) ==
  /\ status[w] = "ready" /\ task[w] = Idle /\ issued < MaxRequests
  /\ issued' = issued + 1
  /\ LET t == [stage |-> "has", id |-> issued + 1, url |-> u]
     IN \/ "cache" \in world /\ CallMaster(w, t, 0, {})
        \/ /\ "cache" \notin world
           /\ task' = [task EXCEPT ![w] = [t EXCEPT !.stage = "fetch", !.url = None]]
           /\ UNCHANGED <<waitW, toM>>
  /\ UNCHANGED <<world, troubles, procs, toW, pend, waitM, data, stat, store>>

\* the response of the target: it is stored, or no rule matches it
Fetched(w) ==
  /\ status[w] = "ready" /\ task[w].stage = "fetch"
  /\ \/ /\ "cache" \in world
        /\ \E size \in Sizes :
             CallMaster(w, [task[w] EXCEPT !.stage = "set"], size, {})
        /\ UNCHANGED data
     \/ EndRequest(w) /\ UNCHANGED <<waitW, toM>>
  /\ UNCHANGED <<world, troubles, procs, toW, pend, waitM, issued, stat, store>>

MutHandOver(w) == data[w]                       \* _data is not reset

\* what Stat._send_to_master leaves in the worker
HandOver(w) == {}

\* on_call in a worker: get_stats, or the call waits for its handler
OnCall(w, m) ==
  \/ /\ status[w] = "booting"
     /\ pend' = [pend EXCEPT ![w] = Append(@, m)]
     /\ UNCHANGED <<toM, data>>
  \/ /\ status[w] = "ready"
     /\ toM' = [toM EXCEPT ![w] = Append(@,
          [type |-> "result", key |-> m.key, val |-> data[w]])]
     /\ data' = [data EXCEPT ![w] = HandOver(w)]
     /\ UNCHANGED pend

\* on_response in a worker: the request goes on with the answer
OnResult(w, m) ==
  \/ /\ task[w].stage = "has" /\ m.val
     /\ CallMaster(w, [task[w] EXCEPT !.stage = "get"], 0, {m.key})
     /\ UNCHANGED data
  \/ /\ task[w].stage = "has" /\ ~m.val
     /\ task' = [task EXCEPT ![w].stage = "fetch"]
     /\ waitW' = [waitW EXCEPT ![w] = @ \ {m.key}]
     /\ UNCHANGED <<toM, data>>
  \/ /\ task[w].stage \in {"get", "set"}
     /\ EndRequest(w)
     /\ waitW' = [waitW EXCEPT ![w] = @ \ {m.key}]
     /\ UNCHANGED toM

WorkerReceives(w) ==
  /\ status[w] \in {"booting", "ready"} /\ toW[w] # <<>>
  /\ toW' = [toW EXCEPT ![w] = Tail(@)]
  /\ LET m == Head(toW[w]) IN
       \/ /\ m.type = "call" /\ OnCall(w, m)
          /\ UNCHANGED <<waitW, task>>
       \/ /\ m.type = "result" /\ OnResult(w, m)
          /\ UNCHANGED pend
  /\ UNCHANGED <<world, troubles, procs, waitM, issued, stat, store>>

\* add_handler: what came before the handler is answered now
Boot(w) ==
  /\ status[w] = "booting"
  /\ status' = [status EXCEPT ![w] = "ready"]
  /\ toM' = [toM EXCEPT ![w] = @ \o [i \in DOMAIN pend[w] |->
       [type |-> "result", key |-> pend[w][i].key, val |-> {}]]]
  /\ pend' = [pend EXCEPT ![w] = <<>>]
  /\ UNCHANGED <<world, troubles, killed, toW, waitM, waitW, data, requests,
                 stat, store>>

\* send() to a worker: nothing if it is not in cluster.workers any more
Reply(w, m) ==
  toW' = IF status[w] \in {"booting", "ready"}
         THEN [toW EXCEPT ![w] = Append(@, m)] ELSE toW

\* on_call in the master: the handlers of the shared cache
Serve(w, m) ==
  LET answer(v) == Reply(w, [type |-> "result", key |-> <<m.fn, m.id>>,
                             val |-> v])
  IN \/ /\ m.fn = "set"
        /\ cache_set(m.id, m.url, m.size)
        /\ answer(TRUE)
     \/ /\ m.fn \in {"has", "get"}
        /\ answer(cache[m.url] # None)
        /\ UNCHANGED store

MutCollect(w, m) ==                             \* the last answer is kept
  /\ waitM' = waitM \ {m.key}
  /\ LET f == m.key[2]
     IN flush' = IF flush[f].stage = "collect" /\ gen[f] = m.key[3]
                 THEN [flush EXCEPT ![f].asked = @ \ {w}, ![f].got = m.val]
                 ELSE flush

\* on_response in the master: the flush that asked has one answer more; the
\* answer to a flush that was cancelled continues a task that is over
Collect(w, m) ==
  /\ waitM' = waitM \ {m.key}
  /\ LET f == m.key[2]
     IN flush' = IF flush[f].stage = "collect" /\ gen[f] = m.key[3]
                 THEN [flush EXCEPT ![f].asked = @ \ {w},
                                    ![f].got = @ \cup m.val]
                 ELSE flush

MasterReceives(w) ==
  /\ status[w] \in {"booting", "ready", "dying"} /\ toM[w] # <<>>
  /\ toM' = [toM EXCEPT ![w] = Tail(@)]
  /\ LET m == Head(toM[w]) IN
       \/ /\ m.type = "call" /\ Serve(w, m)
          /\ UNCHANGED <<waitM, flush>>
       \/ /\ m.type = "result" /\ Collect(w, m)
          /\ UNCHANGED <<toW, store>>
  /\ UNCHANGED <<world, troubles, procs, pend, waitW, data, requests, mgr, gen,
                 uploaded>>

-----------------------------------------------------------------------------
(* Statistics, in the master *)

\* call_all_workers goes through cluster.workers: those that were disconnected
\* on purpose are out of it, those that died are in it until their exit is seen
Listed == {w \in Workers : status[w] \in {"booting", "ready", "dying"}} \ killed
Key(w, f) == <<w, f, gen[f]>>

FlushStarts(f) ==
  /\ "stat" \in world
  /\ f <= mgr /\ flush[f].stage = "idle" /\ Listed # {}
  /\ flush' = [flush EXCEPT ![f] =
       [stage |-> "collect", asked |-> Listed, got |-> {}]]
  /\ waitM' = waitM \cup {Key(w, f) : w \in Listed}
  /\ toW' = [w \in Workers |->
       IF w \in Listed /\ status[w] # "dying"
       THEN Append(toW[w], [type |-> "call", key |-> Key(w, f)])
       ELSE toW[w]]
  /\ UNCHANGED <<world, troubles, procs, toM, pend, waitW, data, requests, mgr,
                 gen, uploaded, store>>

\* all have answered, or failed
FlushCollected(f) ==
  /\ flush[f].stage = "collect" /\ flush[f].asked = {}
  /\ flush' = [flush EXCEPT ![f] =
       IF @.got = {} THEN NoFlush ELSE [@ EXCEPT !.stage = "send"]]
  /\ UNCHANGED <<world, troubles, procs, ipc, data, requests, mgr, gen,
                 uploaded, store>>

\* send_stat; the connection of a manager that was stopped is closed
SendStat(f) ==
  /\ flush[f].stage = "send"
  /\ \/ /\ f = mgr
        /\ uploaded' = uploaded \cup flush[f].got
        /\ UNCHANGED troubles
     \/ /\ f # mgr
        /\ UNCHANGED <<uploaded, troubles>>
     \/ /\ May("lossy") /\ Trouble
        /\ UNCHANGED uploaded
  /\ flush' = [flush EXCEPT ![f] = NoFlush]
  /\ UNCHANGED <<world, procs, ipc, data, requests, mgr, gen, store>>

MutReconf ==                                    \* its calls are forgotten, too
  /\ May("reconf") /\ Trouble
  /\ gen' = [gen EXCEPT ![mgr] = @ + 1]
  /\ flush' = [flush EXCEPT ![mgr] = NoFlush]
  /\ waitM' = {}
  /\ UNCHANGED <<world, procs, toW, toM, pend, waitW, data, requests, mgr,
                 uploaded, store>>

\* server_conf: flush_stats_interval.return() cancels what is under way
Reconf ==
  /\ May("reconf") /\ Trouble
  /\ gen' = [gen EXCEPT ![mgr] = @ + 1]
  /\ flush' = [flush EXCEPT ![mgr] = NoFlush]
  /\ UNCHANGED <<world, procs, ipc, data, requests, mgr, uploaded, store>>

-----------------------------------------------------------------------------
(* Processes *)

Fresh == {w \in Workers : status[w] = "unborn"}
Forked(n) == {w \in Fresh : Cardinality({v \in Fresh : v < w}) < n}

WorkerGone(W) ==
  /\ toW' = [w \in Workers |-> IF w \in W THEN <<>> ELSE toW[w]]
  /\ pend' = [w \in Workers |-> IF w \in W THEN <<>> ELSE pend[w]]
  /\ waitW' = [w \in Workers |-> IF w \in W THEN {} ELSE waitW[w]]
  /\ data' = [w \in Workers |-> IF w \in W THEN {} ELSE data[w]]
  /\ task' = [w \in Workers |-> IF w \in W THEN Idle ELSE task[w]]

WorkerDies(w) ==
  /\ May("crash") /\ Trouble
  /\ status[w] \in {"booting", "ready"}
  /\ status' = [status EXCEPT ![w] = "dying"]
  /\ WorkerGone({w})
  /\ UNCHANGED <<world, killed, toM, waitM, issued, stat, store>>

\* config_changed: the workers are killed, a new manager forks its own; the
\* interval of the old one goes on
Restart ==
  /\ May("restart") /\ Trouble
  /\ Cardinality(Fresh) >= NumWorkers
  /\ mgr' = mgr + 1
  /\ LET old == Listed
         young == Forked(NumWorkers)
     IN /\ killed' = killed \cup old
        /\ status' = [w \in Workers |->
             IF w \in young THEN "booting"
             ELSE IF w \in old THEN "dying" ELSE status[w]]
        /\ WorkerGone(old)
  /\ UNCHANGED <<world, toM, waitM, issued, flush, gen, uploaded, store>>

MutExit(w) ==                                   \* nobody tells the callers
  /\ UNCHANGED <<waitM, flush>>

\* worker_fail_fn: what waits for an answer of w fails; etask.try_catch makes
\* an answer of it that holds nothing
FailCalls(w) ==
  /\ waitM' = {k \in waitM : k[1] # w}
  /\ flush' = [f \in Mgrs |-> [flush[f] EXCEPT !.asked = @ \ {w}]]

\* the exit event: failing calls, then on_worker_exit removes the listeners and
\* forks a new worker unless this one was to go
ExitSeen(w) ==
  /\ status[w] = "dying"
  /\ w \in killed \/ Fresh # {}
  /\ status' = [v \in Workers |->
       IF v = w THEN "dead"
       ELSE IF w \notin killed /\ v \in Forked(1) THEN "booting" ELSE status[v]]
  /\ toM' = [toM EXCEPT ![w] = <<>>]
  /\ FailCalls(w)
  /\ UNCHANGED <<world, troubles, killed, toW, pend, waitW, data, requests, mgr,
                 gen, uploaded, store>>

Next ==
  \/ \E w \in Workers :
       \/ \E u \in Urls : StartRequest(w, u)
       \/ Fetched(w) \/ WorkerReceives(w) \/ Boot(w) \/ MasterReceives(w)
       \/ WorkerDies(w) \/ ExitSeen(w)
  \/ \E f \in Mgrs : FlushStarts(f) \/ FlushCollected(f) \/ SendStat(f)
  \/ Expire \/ Tick \/ Reconf \/ Restart

Spec == Init /\ [][Next]_vars

\* event loops run, timers fire, exits are reported, targets answer
FairSpec ==
  /\ Spec
  /\ \A w \in Workers :
       /\ WF_vars(WorkerReceives(w) \/ Boot(w)) /\ WF_vars(Fetched(w))
       /\ WF_vars(MasterReceives(w)) /\ WF_vars(ExitSeen(w))
  /\ \A f \in Mgrs : WF_vars(FlushStarts(f) \/ FlushCollected(f) \/ SendStat(f))

-----------------------------------------------------------------------------
(* Properties *)

\* Every answer that arrives finds the call it answers: on_response would end
\* the process otherwise.
NoOrphanAnswer ==
  \A w \in Workers :
    /\ \A i \in DOMAIN toM[w] :
         toM[w][i].type = "result" => toM[w][i].key \in waitM
    /\ \A i \in DOMAIN toW[w] :
         toW[w][i].type = "result" => toW[w][i].key \in waitW[w]

\* Where the statistics of request r are.
Places(r) ==
  Cardinality({w \in Workers : r \in data[w]})
    + Cardinality(UNION {{<<w, i>> : i \in {j \in DOMAIN toM[w] :
                    toM[w][j].type = "result" /\ r \in toM[w][j].val}}
                  : w \in Workers})
    + Cardinality({f \in Mgrs : r \in flush[f].got})
    + (IF r \in uploaded THEN 1 ELSE 0)

\* No request is counted twice, whatever is asked again or cancelled.
CountedOnce == \A r \in Requests : Places(r) <= 1

\* The units of space that the timers will give back, and those of the entries.
Cells(S) == UNION {{t} \X (1..t.space) : t \in S}
TimerCells == Cells(timers)
EntryCells == UNION {{u} \X (1..cache[u].size) : u \in {v \in Urls : cache[v] # None}}

\* What the cache holds never exceeds its limit; its accounts are those of the
\* timers, so that all the space is free again when the last one has fired; and
\* nothing is served that was stored more than an hour ago: what is in the cache
\* has its own timer still before it.
CacheBounded ==
  /\ Cardinality(TimerCells) = space_taken
  /\ Cardinality(EntryCells) < CACHE_LIMIT
  /\ \A u \in Urls : cache[u] # None => \E t \in timers : t.id = cache[u].id

\* Every request comes to its end, or its worker does; collecting the statistics
\* always ends, whichever worker dies meanwhile.
CallsEnd ==
  /\ \A w \in Workers : task[w].stage # "none" ~> task[w].stage = "none"
  /\ \A f \in Mgrs : flush[f].stage # "idle" ~> flush[f].stage = "idle"

\* Where no trouble but the death of workers occurs, the statistics of every
\* request reach the cloud, unless its worker dies with them.
StatsArrive ==
  {"reconf", "restart", "lossy"} \cap world = {} /\ "stat" \in world =>
    \A r \in Requests : \A w \in Workers :
      r \in data[w] ~> r \in uploaded \/ status[w] \in {"dying", "dead"}

=============================================================================
