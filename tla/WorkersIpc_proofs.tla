-------------------------- MODULE WorkersIpc_proofs --------------------------
(***************************************************************************)
(* Proofs about WorkersIpc for any numbers of workers, requests and        *)
(* troubles, any cache limit and any combination of what may happen.       *)
(***************************************************************************)
EXTENDS WorkersIpc, SequenceFacts, FiniteSetTheorems

-----------------------------------------------------------------------------
(***************************************************************************)
(* Types, and what the messages and the tasks look like.                   *)
(***************************************************************************)

Asked == [type: {"call"}, key: Keys]
Replies == [type: {"result"}, key: Funs \X Requests, val: BOOLEAN]
ToWorker == Asked \cup Replies
Looks == [type: {"call"}, fn: {"has", "get"}, id: Requests, url: Urls, size: {0}]
Stores == [type: {"call"}, fn: {"set"}, id: Requests, url: Urls, size: Sizes]
Counts == [type: {"result"}, key: Keys, val: SUBSET Requests]
ToMaster == Looks \cup Stores \cup Counts

Alive(w) == status[w] \in {"booting", "ready"}
Busy(w) == task[w].stage # "none"

ProcsTyped ==
  /\ world \in Worlds /\ troubles \in 0..MaxTroubles
  /\ status \in [Workers -> {"unborn", "booting", "ready", "dying", "dead"}]
  /\ killed \subseteq Workers
  /\ mgr \in Mgrs /\ gen \in [Mgrs -> 0..MaxTroubles]
  /\ mgr <= troubles + 1 /\ \A f \in Mgrs : gen[f] <= troubles
WaitsTyped == waitM \subseteq Keys /\ waitW \in [Workers -> SUBSET (Funs \X Requests)]
StatsTyped ==
  /\ data \in [Workers -> SUBSET Requests] /\ uploaded \subseteq Requests
  /\ flush \in [Mgrs -> [stage: {"idle", "collect", "send"},
                         asked: SUBSET Workers, got: SUBSET Requests]]
TaskTyped(w) ==
  /\ Busy(w) => /\ task[w].id \in 1..issued
                /\ IF "cache" \in world THEN task[w].url \in Urls
                   ELSE task[w].stage = "fetch"
  /\ ~Busy(w) => task[w].id = 0
TasksTyped ==
  /\ task \in [Workers -> [stage: Stages, id: 0..MaxRequests, url: Urls \cup {None}]]
  /\ issued \in 0..MaxRequests
  /\ \A w \in Workers : TaskTyped(w)
EntriesTyped ==
  /\ cache \in [Urls -> [id: Requests, size: Sizes] \cup {None}]
  /\ timers \subseteq [id: Requests, url: Urls, space: Sizes, left: 0..Hour]
SpaceTyped == space_taken \in 0..CACHE_LIMIT
ChannelsTyped ==
  /\ toW \in [Workers -> Seq(ToWorker)] /\ pend \in [Workers -> Seq(Asked)]
  /\ toM \in [Workers -> Seq(ToMaster)]
TypeInv == /\ ProcsTyped /\ WaitsTyped /\ StatsTyped /\ TasksTyped /\ EntriesTyped
           /\ SpaceTyped /\ ChannelsTyped

\* The parts make the type invariant of the model.
LEMMA TypeInvIsTyped == TypeInv => TypeOK
BY DEF TypeInv, TypeOK, ProcsTyped, WaitsTyped, StatsTyped, TasksTyped,
       EntriesTyped, SpaceTyped

\* What there is to know about a message to the master ...
LEMMA MessageShape ==
  ASSUME NEW m \in ToMaster
  PROVE  /\ m.type \in {"call", "result"}
         /\ m.type = "call" =>
              /\ m \in Looks \cup Stores /\ m.fn \in Funs /\ m.id \in Requests
              /\ m.url \in Urls /\ (m.fn = "set" => m.size \in Sizes)
         /\ m.type = "result" => m \in Counts /\ m.key \in Keys /\ m.val \subseteq Requests
BY DEF ToMaster, Looks, Stores, Counts, Funs

\* ... and about one to a worker.
LEMMA ReplyShape ==
  ASSUME NEW m \in ToWorker
  PROVE  /\ m.type \in {"call", "result"}
         /\ m.type = "call" => m \in Asked /\ m.key \in Keys
         /\ m.type = "result" => /\ m \in Replies /\ m.key \in Funs \X Requests
                                 /\ m.val \in BOOLEAN
BY DEF ToWorker, Asked, Replies

\* The first message of a channel is one of its type.
LEMMA HeadTyped ==
  ASSUME ChannelsTyped, NEW w \in Workers
  PROVE  /\ toM[w] \in Seq(ToMaster) /\ toW[w] \in Seq(ToWorker) /\ pend[w] \in Seq(Asked)
         /\ toM[w] # <<>> => Head(toM[w]) \in ToMaster /\ Tail(toM[w]) \in Seq(ToMaster)
         /\ toW[w] # <<>> => Head(toW[w]) \in ToWorker /\ Tail(toW[w]) \in Seq(ToWorker)
<1>1. toM[w] \in Seq(ToMaster) /\ toW[w] \in Seq(ToWorker) /\ pend[w] \in Seq(Asked)
  BY DEF ChannelsTyped
<1> QED
  BY <1>1, RangeTail

-----------------------------------------------------------------------------
(* Every step keeps its types. *)

\* What there was and is, of managers, workers and troubles.
LEMMA ProcsStep ==
  ASSUME TypeInv, [Next]_vars
  PROVE  ProcsTyped'
<1>1. CASE \/ \E w \in Workers, u \in Urls : StartRequest(w, u)
           \/ \E w \in Workers : Fetched(w) \/ WorkerReceives(w) \/ MasterReceives(w)
           \/ \E f \in Mgrs : FlushStarts(f) \/ FlushCollected(f)
           \/ Expire \/ Tick
           \/ UNCHANGED vars
  BY <1>1 DEF TypeInv, ProcsTyped, StartRequest, Fetched, WorkerReceives, MasterReceives,
               FlushStarts, FlushCollected, Expire, Tick, vars, procs, stat
<1>2. ASSUME NEW w \in Workers, Boot(w) PROVE ProcsTyped'
  BY <1>2 DEF TypeInv, ProcsTyped, Boot, stat
<1>3. ASSUME NEW w \in Workers, WorkerDies(w) PROVE ProcsTyped'
  BY <1>3, BoundsAssumption DEF TypeInv, ProcsTyped, WorkerDies, May, Trouble, Mgrs, stat
<1>4. ASSUME NEW w \in Workers, ExitSeen(w) PROVE ProcsTyped'
  BY <1>4 DEF TypeInv, ProcsTyped, ExitSeen
<1>5. ASSUME NEW f \in Mgrs, SendStat(f) PROVE ProcsTyped'
  <2>1. mgr' = mgr /\ gen' = gen /\ UNCHANGED <<world, status, killed>>
    BY <1>5 DEF SendStat, procs
  <2>2. troubles' = troubles \/ (troubles < MaxTroubles /\ troubles' = troubles + 1)
    BY <1>5 DEF SendStat, May, Trouble
  <2>3. troubles \in Nat /\ mgr \in Nat /\ \A f2 \in Mgrs : gen[f2] \in Nat
    BY BoundsAssumption DEF TypeInv, ProcsTyped, Mgrs
  <2>4. troubles' \in 0..MaxTroubles /\ mgr' <= troubles' + 1 /\ \A f2 \in Mgrs : gen'[f2] <= troubles'
    BY <2>1, <2>2, <2>3, BoundsAssumption DEF TypeInv, ProcsTyped
  <2> QED
    BY <2>1, <2>4 DEF TypeInv, ProcsTyped
<1>6. ASSUME Reconf PROVE ProcsTyped'
  BY <1>6, BoundsAssumption DEF TypeInv, ProcsTyped, Reconf, May, Trouble, Mgrs, procs
<1>7. ASSUME Restart PROVE ProcsTyped'
  <2>1. /\ troubles < MaxTroubles /\ troubles' = troubles + 1 /\ mgr' = mgr + 1
        /\ UNCHANGED <<world, gen>> /\ killed' \subseteq Workers
        /\ status' \in [Workers -> {"unborn", "booting", "ready", "dying", "dead"}]
    BY <1>7 DEF Restart, May, Trouble, TypeInv, ProcsTyped, Listed, stat
  <2> QED
    BY <2>1, BoundsAssumption DEF TypeInv, ProcsTyped, Mgrs
<1> QED
  BY <1>1, <1>2, <1>3, <1>4, <1>5, <1>6, <1>7 DEF Next

\* A call to the master: the channel, what waits and the task have their types.
LEMMA CallTyped ==
  ASSUME TypeInv, NEW w \in Workers, NEW size, NEW answered,
         NEW t \in [stage: Funs, id: Requests, url: Urls],
         IF t.stage = "set" THEN size \in Sizes ELSE size = 0,
         CallMaster(w, t, size, answered)
  PROVE  /\ toM' \in [Workers -> Seq(ToMaster)]
         /\ waitW' \in [Workers -> SUBSET (Funs \X Requests)]
         /\ task' = [task EXCEPT ![w] = t]
<1> DEFINE m == [type |-> "call", fn |-> t.stage, id |-> t.id, url |-> t.url, size |-> size]
<1>1. m \in ToMaster
  BY DEF ToMaster, Looks, Stores, Funs
<1>2. toM[w] \in Seq(ToMaster) /\ toM \in [Workers -> Seq(ToMaster)]
  BY DEF TypeInv, ChannelsTyped
<1>3. Append(toM[w], m) \in Seq(ToMaster)
  BY <1>1, <1>2
<1>4. toM' = [toM EXCEPT ![w] = Append(toM[w], m)]
  BY DEF CallMaster
<1>5. toM' \in [Workers -> Seq(ToMaster)]
  BY <1>2, <1>3, <1>4
<1>6. <<t.stage, t.id>> \in Funs \X Requests
  OBVIOUS
<1>7. waitW' \in [Workers -> SUBSET (Funs \X Requests)]
  BY <1>6 DEF CallMaster, TypeInv, WaitsTyped
<1> QED
  BY <1>5, <1>7 DEF CallMaster

\* The task of a new request.
LEMMA StartTask ==
  ASSUME TypeInv, NEW w \in Workers, NEW u \in Urls, StartRequest(w, u)
  PROVE  /\ issued + 1 \in Requests /\ issued' = issued + 1 /\ task[w] = Idle
         /\ status[w] = "ready" /\ UNCHANGED <<world, status, timers>>
         /\ \/ /\ "cache" \in world
               /\ CallMaster(w, [stage |-> "has", id |-> issued + 1, url |-> u], 0, {})
            \/ /\ "cache" \notin world
               /\ task' = [task EXCEPT ![w] =
                    [stage |-> "fetch", id |-> issued + 1, url |-> None]]
               /\ UNCHANGED <<waitW, toM>>
<1>1. issued + 1 \in Requests
  BY BoundsAssumption DEF StartRequest, TypeInv, TasksTyped, Requests
<1> QED
  BY <1>1 DEF StartRequest, procs, store

\* The task of a request whose response has come.
LEMMA FetchedTask ==
  ASSUME TypeInv, NEW w \in Workers, Fetched(w)
  PROVE  /\ status[w] = "ready" /\ task[w].stage = "fetch" /\ task[w].id \in Requests
         /\ UNCHANGED <<world, status, timers, issued>>
         /\ \/ /\ "cache" \in world /\ task[w].url \in Urls /\ data' = data
               /\ \E size \in Sizes :
                    CallMaster(w, [stage |-> "set", id |-> task[w].id, url |-> task[w].url],
                               size, {})
            \/ /\ task' = [task EXCEPT ![w] = Idle]
               /\ data' = [data EXCEPT ![w] = @ \cup {task[w].id}]
               /\ UNCHANGED <<waitW, toM>>
<1>1. task[w] \in [stage: Stages, id: 0..MaxRequests, url: Urls \cup {None}]
  BY DEF TypeInv, TasksTyped
<1>2. task[w].stage = "fetch"
  BY DEF Fetched
<1>3. task[w].id \in Requests /\ ("cache" \in world => task[w].url \in Urls)
  BY <1>1, <1>2, BoundsAssumption DEF TypeInv, TasksTyped, TaskTyped, Busy, Requests
<1>4. [task[w] EXCEPT !.stage = "set"]
        = [stage |-> "set", id |-> task[w].id, url |-> task[w].url]
  BY <1>1
<1> QED
  BY <1>2, <1>3, <1>4 DEF Fetched, EndRequest, EndCount, procs, store

\* The task of a request that has an answer from the master.
LEMMA AnsweredTask ==
  ASSUME TypeInv, NEW w \in Workers, NEW m, OnResult(w, m)
  PROVE  /\ task[w].stage \in Funs /\ task[w].id \in Requests /\ task[w].url \in Urls
         /\ "cache" \in world
         /\ \/ /\ task[w].stage = "has" /\ data' = data
               /\ CallMaster(w, [stage |-> "get", id |-> task[w].id, url |-> task[w].url],
                             0, {m.key})
            \/ /\ task[w].stage = "has" /\ data' = data /\ toM' = toM
               /\ task' = [task EXCEPT ![w] =
                    [stage |-> "fetch", id |-> task[w].id, url |-> task[w].url]]
               /\ waitW' = [waitW EXCEPT ![w] = @ \ {m.key}]
            \/ /\ task[w].stage \in {"get", "set"} /\ toM' = toM
               /\ task' = [task EXCEPT ![w] = Idle]
               /\ data' = [data EXCEPT ![w] = @ \cup {task[w].id}]
               /\ waitW' = [waitW EXCEPT ![w] = @ \ {m.key}]
<1>1. task[w] \in [stage: Stages, id: 0..MaxRequests, url: Urls \cup {None}]
  BY DEF TypeInv, TasksTyped
<1>2. task[w].stage \in Funs
  BY DEF OnResult, Funs
<1>3. task[w].id \in Requests /\ task[w].url \in Urls /\ "cache" \in world
  BY <1>1, <1>2, BoundsAssumption DEF TypeInv, TasksTyped, TaskTyped, Busy, Requests, Funs
<1>4. /\ [task[w] EXCEPT !.stage = "get"]
           = [stage |-> "get", id |-> task[w].id, url |-> task[w].url]
      /\ [task[w] EXCEPT !.stage = "fetch"]
           = [stage |-> "fetch", id |-> task[w].id, url |-> task[w].url]
  BY <1>1
<1>5. task \in [Workers -> [stage: Stages, id: 0..MaxRequests, url: Urls \cup {None}]]
  BY DEF TypeInv, TasksTyped
<1>6. CASE task[w].stage = "has" /\ m.val
  BY <1>2, <1>3, <1>4, <1>6 DEF OnResult, CallMaster
<1>7. CASE task[w].stage = "has" /\ ~m.val
  <2>1. [task EXCEPT ![w].stage = "fetch"] = [task EXCEPT ![w] =
                    [stage |-> "fetch", id |-> task[w].id, url |-> task[w].url]]
    BY <1>4, <1>5
  <2> QED
    BY <1>2, <1>3, <1>7, <2>1 DEF OnResult
<1>8. CASE task[w].stage \in {"get", "set"}
  BY <1>2, <1>3, <1>8 DEF OnResult, EndRequest, EndCount
<1> QED
  BY <1>6, <1>7, <1>8 DEF OnResult

\* A worker has a new task, or none.
LEMMA NewTask ==
  ASSUME TypeInv, world' = world, NEW w \in Workers,
         NEW t \in [stage: Stages, id: 0..MaxRequests, url: Urls \cup {None}],
         task' = [task EXCEPT ![w] = t],
         issued' \in 0..MaxRequests, issued <= issued',
         t.stage # "none" => /\ t.id \in 1..issued'
                             /\ IF "cache" \in world THEN t.url \in Urls
                                ELSE t.stage = "fetch",
         t.stage = "none" => t.id = 0
  PROVE  TasksTyped'
<1>1. task' \in [Workers -> [stage: Stages, id: 0..MaxRequests, url: Urls \cup {None}]]
  BY DEF TypeInv, TasksTyped
<1>2. task'[w] = t /\ \A v \in Workers : v # w => task'[v] = task[v]
  BY DEF TypeInv, TasksTyped
<1>3. issued \in Nat /\ issued' \in Nat
  BY BoundsAssumption DEF TypeInv, TasksTyped
<1>4. ASSUME NEW v \in Workers PROVE TaskTyped(v)'
  <2>1. CASE v = w
    BY <1>2, <2>1 DEF TaskTyped, Busy
  <2>2. CASE v # w
    <3>1. TaskTyped(v) /\ task'[v] = task[v]
      BY <1>2, <2>2 DEF TypeInv, TasksTyped
    <3> QED
      BY <1>3, <3>1 DEF TaskTyped, Busy
  <2> QED
    BY <2>1, <2>2
<1> QED
  BY <1>1, <1>4 DEF TasksTyped

\* Being idle is a task.
LEMMA IdleTyped == Idle \in [stage: Stages, id: 0..MaxRequests, url: Urls \cup {None}]
<1>1. 0 \in 0..MaxRequests
  BY BoundsAssumption
<1> QED
  BY <1>1 DEF Idle, Stages

\* The processes that are gone have no task.
LEMMA GoneTasks ==
  ASSUME TypeInv, NEW W, WorkerGone(W), UNCHANGED <<world, issued>>
  PROVE  TasksTyped'
<1>1. \A v \in Workers : task'[v] = Idle \/ task'[v] = task[v]
  BY DEF WorkerGone
<1>2. task' \in [Workers -> [stage: Stages, id: 0..MaxRequests, url: Urls \cup {None}]]
  BY IdleTyped DEF WorkerGone, TypeInv, TasksTyped
<1>3. \A v \in Workers : TaskTyped(v)'
  BY <1>1 DEF TypeInv, TasksTyped, TaskTyped, Busy, Idle
<1> QED
  BY <1>2, <1>3 DEF TypeInv, TasksTyped

\* Where the request that a worker handles stands.
LEMMA TasksStep ==
  ASSUME TypeInv, [Next]_vars
  PROVE  TasksTyped'
<1> DEFINE Task == [stage: Stages, id: 0..MaxRequests, url: Urls \cup {None}]
<1>a. issued \in 0..MaxRequests /\ issued \in Nat
  BY BoundsAssumption DEF TypeInv, TasksTyped
<1>b. \A i \in Requests : i \in 0..MaxRequests /\ i # 0
  BY BoundsAssumption DEF Requests
<1>c. \A w \in Workers : task[w].stage # "none" => task[w].id \in 1..issued
  BY DEF TypeInv, TasksTyped, TaskTyped, Busy
<1>1. ASSUME NEW w \in Workers, NEW u \in Urls, StartRequest(w, u) PROVE TasksTyped'
  <2>1. /\ issued' = issued + 1 /\ issued' \in 0..MaxRequests /\ issued' \in 1..issued'
        /\ issued <= issued' /\ world' = world
    <3>1. issued' = issued + 1 /\ issued + 1 \in Requests /\ world' = world
      BY <1>1, StartTask
    <3>2. issued + 1 \in 0..MaxRequests
      BY <1>b, <3>1
    <3>3. issued + 1 \in 1..(issued + 1) /\ issued <= issued + 1
      BY <1>a
    <3> QED
      BY <3>1, <3>2, <3>3
  <2>2. CASE "cache" \in world
    <3> DEFINE t == [stage |-> "has", id |-> issued + 1, url |-> u]
    <3>1. t \in Task
      BY <2>1 DEF Stages, Funs
    <3>2. task' = [task EXCEPT ![w] = t]
      BY <1>1, <2>2, StartTask DEF CallMaster
    <3> QED
      BY <2>1, <2>2, <3>1, <3>2, NewTask
  <2>3. CASE "cache" \notin world
    <3> DEFINE t == [stage |-> "fetch", id |-> issued + 1, url |-> None]
    <3>1. t \in Task
      BY <2>1 DEF Stages, Funs
    <3>2. task' = [task EXCEPT ![w] = t]
      BY <1>1, <2>3, StartTask
    <3> QED
      BY <2>1, <2>3, <3>1, <3>2, NewTask
  <2> QED
    BY <2>2, <2>3
<1>2. ASSUME NEW w \in Workers, Fetched(w) PROVE TasksTyped'
  <2>1. UNCHANGED <<world, issued>> /\ task[w].id \in Requests /\ task[w].id \in 1..issued
    BY <1>2, <1>c, FetchedTask
  <2>4. issued' \in 0..MaxRequests /\ issued <= issued' /\ task[w].id \in 1..issued'
    BY <1>a, <2>1
  <2>2. CASE /\ "cache" \in world /\ task[w].url \in Urls
             /\ task' = [task EXCEPT ![w] =
                  [stage |-> "set", id |-> task[w].id, url |-> task[w].url]]
    <3> DEFINE t == [stage |-> "set", id |-> task[w].id, url |-> task[w].url]
    <3>1. t \in Task
      BY <1>b, <2>1, <2>2 DEF Stages, Funs
    <3> QED
      BY <2>1, <2>2, <2>4, <3>1, NewTask
  <2>3. CASE task' = [task EXCEPT ![w] = Idle]
    BY <2>1, <2>3, <2>4, NewTask, IdleTyped DEF Idle
  <2> QED
    BY <1>2, <2>2, <2>3, FetchedTask DEF CallMaster
<1>3. ASSUME NEW w \in Workers, WorkerReceives(w) PROVE TasksTyped'
  <2>1. UNCHANGED <<world, issued>>
    BY <1>3 DEF WorkerReceives
  <2>4. issued' \in 0..MaxRequests /\ issued <= issued'
    BY <1>a, <2>1
  <2>2. CASE task' = task
    BY <2>1, <2>2 DEF TypeInv, TasksTyped, TaskTyped, Busy
  <2>3. ASSUME NEW m, OnResult(w, m) PROVE TasksTyped'
    <3>1. /\ task[w].id \in Requests /\ task[w].id \in 1..issued /\ task[w].url \in Urls
          /\ "cache" \in world
      BY <1>c, <2>3, AnsweredTask DEF Funs
    <3>2. ASSUME NEW s \in {"get", "fetch"},
                 task' = [task EXCEPT ![w] = [stage |-> s, id |-> task[w].id, url |-> task[w].url]]
          PROVE  TasksTyped'
      <4> DEFINE t == [stage |-> s, id |-> task[w].id, url |-> task[w].url]
      <4>1. t \in Task
        BY <1>b, <3>1 DEF Stages, Funs
      <4> QED
        BY <2>1, <2>4, <3>1, <3>2, <4>1, NewTask
    <3>3. CASE task' = [task EXCEPT ![w] = Idle]
      BY <2>1, <2>4, <3>3, NewTask, IdleTyped DEF Idle
    <3> QED
      BY <2>3, <3>2, <3>3, AnsweredTask DEF CallMaster
  <2> QED
    BY <1>3, <2>2, <2>3 DEF WorkerReceives
<1>4. ASSUME NEW w \in Workers, WorkerDies(w) PROVE TasksTyped'
  BY <1>4, GoneTasks DEF WorkerDies
<1>5. CASE Restart
  BY <1>5, GoneTasks DEF Restart
<1>6. CASE \/ \E w \in Workers : Boot(w) \/ MasterReceives(w) \/ ExitSeen(w)
           \/ \E f \in Mgrs : FlushStarts(f) \/ FlushCollected(f) \/ SendStat(f)
           \/ Expire \/ Tick \/ Reconf
           \/ UNCHANGED vars
  <2>1. UNCHANGED <<world, task, issued>>
    BY <1>6 DEF Boot, MasterReceives, ExitSeen, FlushStarts, FlushCollected, SendStat, Expire,
                Tick, Reconf, vars, requests
  <2> QED
    BY <2>1 DEF TypeInv, TasksTyped, TaskTyped, Busy
<1> QED
  BY <1>1, <1>2, <1>3, <1>4, <1>5, <1>6 DEF Next

\* A call to the shared cache is answered, and perhaps stores something.
LEMMA ServeAnswers ==
  ASSUME TypeInv, NEW w \in Workers, NEW m \in ToMaster, m.type = "call", Serve(w, m)
  PROVE  \E e \in Replies :
           /\ e = [type |-> "result", key |-> <<m.fn, m.id>>, val |-> e.val]
           /\ toW' = IF Alive(w) THEN [toW EXCEPT ![w] = Append(@, e)] ELSE toW
           /\ \/ UNCHANGED store
              \/ m.fn = "set" /\ m.size \in Sizes /\ cache_set(m.id, m.url, m.size)
<1>1. m.fn \in Funs /\ m.id \in Requests /\ (m.fn = "set" => m.size \in Sizes)
  BY MessageShape
<1> DEFINE e(v) == [type |-> "result", key |-> <<m.fn, m.id>>, val |-> v]
<1>2. \A v \in BOOLEAN : e(v) \in Replies /\ e(v).val = v
  BY <1>1 DEF Replies
<1>3. CASE m.fn = "set"
  <2>1. Reply(w, e(TRUE)) /\ cache_set(m.id, m.url, m.size)
    BY <1>3 DEF Serve
  <2>2. e(TRUE) \in Replies /\ e(TRUE).val = TRUE
    BY <1>2
  <2> QED
    BY <1>1, <1>3, <2>1, <2>2 DEF Reply, Alive
<1>4. CASE m.fn # "set"
  <2>1. Reply(w, e(cache[m.url] # None)) /\ UNCHANGED store
    BY <1>4 DEF Serve
  <2>2. e(cache[m.url] # None) \in Replies
        /\ e(cache[m.url] # None).val = (cache[m.url] # None)
    BY <1>2
  <2> QED
    BY <2>1, <2>2 DEF Reply, Alive
<1> QED
  BY <1>3, <1>4

\* What was asked before the handler came is answered when it comes.
LateAnswers(w) ==
  [i \in DOMAIN pend[w] |-> [type |-> "result", key |-> pend[w][i].key, val |-> {}]]

\* They are answers that hold nothing, one for each call that waited.
LEMMA BootAnswers ==
  ASSUME ChannelsTyped, NEW w \in Workers
  PROVE  /\ LateAnswers(w) \in Seq(ToMaster)
         /\ \A m \in Range(LateAnswers(w)) :
              m.type = "result" /\ m.val = {} /\ \E c \in Range(pend[w]) : m.key = c.key
         /\ \A i \in DOMAIN LateAnswers(w) :
              /\ i \in DOMAIN pend[w] /\ LateAnswers(w)[i].type = "result"
              /\ LateAnswers(w)[i].val = {} /\ LateAnswers(w)[i].key = pend[w][i].key
<1>1. pend[w] \in Seq(Asked)
  BY DEF ChannelsTyped
<1>2. ASSUME NEW i \in DOMAIN pend[w]
      PROVE  [type |-> "result", key |-> pend[w][i].key, val |-> {}] \in ToMaster
  <2>1. pend[w][i] \in Asked
    BY <1>1
  <2>2. pend[w][i].key \in Keys
    BY <2>1 DEF Asked
  <2>3. [type |-> "result", key |-> pend[w][i].key, val |-> {}] \in Counts
    BY <2>2 DEF Counts
  <2> QED
    BY <2>3 DEF ToMaster
<1>3. LateAnswers(w) \in Seq(ToMaster)
  <2>1. PICK n \in Nat : DOMAIN pend[w] = 1 .. n
    BY <1>1
  <2>2. LateAnswers(w) \in [1 .. n -> ToMaster]
    BY <1>2, <2>1 DEF LateAnswers
  <2> QED
    BY <2>2
<1> QED
  BY <1>3 DEF LateAnswers, Range

\* The channels keep their types.
LEMMA ChannelsStep ==
  ASSUME TypeInv, [Next]_vars
  PROVE  ChannelsTyped'
<1>a. /\ toW \in [Workers -> Seq(ToWorker)] /\ pend \in [Workers -> Seq(Asked)]
      /\ toM \in [Workers -> Seq(ToMaster)] /\ ChannelsTyped
      /\ <<>> \in Seq(ToWorker) /\ <<>> \in Seq(Asked) /\ <<>> \in Seq(ToMaster)
  BY DEF TypeInv, ChannelsTyped
<1>b. \A w \in Workers :
        /\ toM[w] # <<>> => Head(toM[w]) \in ToMaster /\ Tail(toM[w]) \in Seq(ToMaster)
        /\ toW[w] # <<>> => Head(toW[w]) \in ToWorker /\ Tail(toW[w]) \in Seq(ToWorker)
  BY <1>a, HeadTyped
<1>c. Funs \subseteq Stages /\ \A u \in Urls, i \in Requests, s \in Funs :
        [stage |-> s, id |-> i, url |-> u] \in [stage: Funs, id: Requests, url: Urls]
  BY DEF Stages
<1>d. ASSUME NEW W, WorkerGone(W)
      PROVE  toW' \in [Workers -> Seq(ToWorker)] /\ pend' \in [Workers -> Seq(Asked)]
  BY <1>a, <1>d DEF WorkerGone
<1>1. ASSUME NEW w \in Workers, NEW u \in Urls, StartRequest(w, u) PROVE ChannelsTyped'
  <2>1. UNCHANGED <<toW, pend>>
    BY <1>1 DEF StartRequest
  <2>2. "has" \in Funs
    BY DEF Funs
  <2>3. toM' \in [Workers -> Seq(ToMaster)]
    BY <1>1, <1>a, <1>c, <2>2, StartTask, CallTyped
  <2> QED
    BY <1>a, <2>1, <2>3 DEF ChannelsTyped
<1>2. ASSUME NEW w \in Workers, Fetched(w) PROVE ChannelsTyped'
  <2>1. UNCHANGED <<toW, pend>>
    BY <1>2 DEF Fetched
  <2>2. "set" \in Funs
    BY DEF Funs
  <2>3. toM' \in [Workers -> Seq(ToMaster)]
    BY <1>2, <1>a, <1>c, <2>2, FetchedTask, CallTyped
  <2> QED
    BY <1>a, <2>1, <2>3 DEF ChannelsTyped
<1>3. ASSUME NEW w \in Workers, WorkerReceives(w) PROVE ChannelsTyped'
  <2> DEFINE m == Head(toW[w])
  <2>1. m \in ToWorker /\ toW' \in [Workers -> Seq(ToWorker)]
    BY <1>3, <1>a, <1>b DEF WorkerReceives
  <2>2. CASE m.type = "call" /\ OnCall(w, m)
    <3>1. m \in Asked /\ m.key \in Keys
      BY <2>1, <2>2, ReplyShape
    <3>2. [type |-> "result", key |-> m.key, val |-> data[w]] \in ToMaster
      BY <3>1 DEF ToMaster, Counts, TypeInv, StatsTyped
    <3>3. Append(pend[w], m) \in Seq(Asked)
          /\ Append(toM[w], [type |-> "result", key |-> m.key, val |-> data[w]]) \in Seq(ToMaster)
      BY <1>a, <3>1, <3>2
    <3> QED
      BY <1>a, <2>1, <2>2, <3>3 DEF OnCall, ChannelsTyped
  <2>3. CASE m.type = "result" /\ OnResult(w, m) /\ pend' = pend
    <3>1. "get" \in Funs
      BY DEF Funs
    <3>2. toM' \in [Workers -> Seq(ToMaster)]
      BY <1>a, <1>c, <2>3, <3>1, AnsweredTask, CallTyped
    <3> QED
      BY <1>a, <2>1, <2>3, <3>2 DEF ChannelsTyped
  <2> QED
    BY <1>3, <2>2, <2>3 DEF WorkerReceives
<1>4. ASSUME NEW w \in Workers, Boot(w) PROVE ChannelsTyped'
  <2>1. toM[w] \o LateAnswers(w) \in Seq(ToMaster)
    BY <1>a, BootAnswers
  <2>2. toM' = [toM EXCEPT ![w] = toM[w] \o LateAnswers(w)]
    BY <1>4 DEF Boot, LateAnswers
  <2> QED
    BY <1>4, <1>a, <2>1, <2>2 DEF Boot, ChannelsTyped
<1>5. ASSUME NEW w \in Workers, MasterReceives(w) PROVE ChannelsTyped'
  <2> DEFINE m == Head(toM[w])
  <2>1. m \in ToMaster /\ toM' \in [Workers -> Seq(ToMaster)] /\ pend' = pend
    BY <1>5, <1>a, <1>b DEF MasterReceives
  <2>2. CASE m.type = "call" /\ Serve(w, m)
    <3>1. PICK e \in Replies :
            toW' = IF Alive(w) THEN [toW EXCEPT ![w] = Append(@, e)] ELSE toW
      BY <2>1, <2>2, ServeAnswers
    <3>2. Append(toW[w], e) \in Seq(ToWorker)
      BY <1>a DEF ToWorker
    <3> QED
      BY <1>a, <2>1, <3>1, <3>2 DEF ChannelsTyped
  <2>3. CASE toW' = toW
    BY <1>a, <2>1, <2>3 DEF ChannelsTyped
  <2> QED
    BY <1>5, <2>2, <2>3 DEF MasterReceives
<1>6. ASSUME NEW w \in Workers, WorkerDies(w) PROVE ChannelsTyped'
  BY <1>6, <1>a, <1>d DEF WorkerDies, ChannelsTyped
<1>7. ASSUME NEW w \in Workers, ExitSeen(w) PROVE ChannelsTyped'
  BY <1>7, <1>a DEF ExitSeen, ChannelsTyped
<1>8. ASSUME NEW f \in Mgrs, FlushStarts(f) PROVE ChannelsTyped'
  <2>1. ASSUME NEW w \in Workers
        PROVE  Append(toW[w], [type |-> "call", key |-> Key(w, f)]) \in Seq(ToWorker)
    <3>1. Key(w, f) \in Keys
      BY DEF Key, Keys, TypeInv, ProcsTyped
    <3>2. [type |-> "call", key |-> Key(w, f)] \in ToWorker
      BY <3>1 DEF ToWorker, Asked
    <3> QED
      BY <1>a, <3>2
  <2> QED
    BY <1>8, <1>a, <2>1 DEF FlushStarts, ChannelsTyped
<1>9. CASE Restart
  BY <1>9, <1>a, <1>d DEF Restart, ChannelsTyped
<1>10. CASE \/ \E f \in Mgrs : FlushCollected(f) \/ SendStat(f)
            \/ Expire \/ Tick \/ Reconf
            \/ UNCHANGED vars
  BY <1>10, <1>a DEF FlushCollected, SendStat, Expire, Tick, Reconf, vars, ipc, ChannelsTyped
<1> QED
  BY <1>1, <1>2, <1>3, <1>4, <1>5, <1>6, <1>7, <1>8, <1>9, <1>10 DEF Next

\* What waits for an answer keeps its type.
LEMMA WaitsStep ==
  ASSUME TypeInv, [Next]_vars
  PROVE  WaitsTyped'
<1>a. waitM \subseteq Keys /\ waitW \in [Workers -> SUBSET (Funs \X Requests)]
  BY DEF TypeInv, WaitsTyped
<1>c. Funs \subseteq Stages /\ \A u \in Urls, i \in Requests, s \in Funs :
        [stage |-> s, id |-> i, url |-> u] \in [stage: Funs, id: Requests, url: Urls]
  BY DEF Stages
<1>d. ASSUME NEW W, WorkerGone(W) PROVE waitW' \in [Workers -> SUBSET (Funs \X Requests)]
  BY <1>a, <1>d DEF WorkerGone
<1>1. ASSUME NEW w \in Workers, NEW u \in Urls, StartRequest(w, u) PROVE WaitsTyped'
  <2>1. waitM' = waitM /\ "has" \in Funs
    BY <1>1 DEF StartRequest, Funs
  <2>2. waitW' \in [Workers -> SUBSET (Funs \X Requests)]
    BY <1>1, <1>a, <1>c, <2>1, StartTask, CallTyped
  <2> QED
    BY <1>a, <2>1, <2>2 DEF WaitsTyped
<1>2. ASSUME NEW w \in Workers, Fetched(w) PROVE WaitsTyped'
  <2>1. waitM' = waitM /\ "set" \in Funs
    BY <1>2 DEF Fetched, Funs
  <2>2. waitW' \in [Workers -> SUBSET (Funs \X Requests)]
    BY <1>2, <1>a, <1>c, <2>1, FetchedTask, CallTyped
  <2> QED
    BY <1>a, <2>1, <2>2 DEF WaitsTyped
<1>3. ASSUME NEW w \in Workers, WorkerReceives(w) PROVE WaitsTyped'
  <2>1. waitM' = waitM /\ "get" \in Funs
    BY <1>3 DEF WorkerReceives, Funs
  <2>2. CASE waitW' = waitW
    BY <1>a, <2>1, <2>2 DEF WaitsTyped
  <2>3. ASSUME NEW m, OnResult(w, m) PROVE WaitsTyped'
    <3>1. CASE waitW' = [waitW EXCEPT ![w] = @ \ {m.key}]
      BY <1>a, <2>1, <3>1 DEF WaitsTyped
    <3>2. CASE ~(waitW' = [waitW EXCEPT ![w] = @ \ {m.key}])
      <4> DEFINE t == [stage |-> "get", id |-> task[w].id, url |-> task[w].url]
      <4>1. t \in [stage: Funs, id: Requests, url: Urls] /\ t.stage # "set"
        BY <1>c, <2>1, <2>3, AnsweredTask
      <4>2. CallMaster(w, t, 0, {m.key})
        BY <2>3, <3>2, AnsweredTask
      <4>3. waitW' \in [Workers -> SUBSET (Funs \X Requests)]
        BY <4>1, <4>2, CallTyped
      <4> QED
        BY <1>a, <2>1, <4>3 DEF WaitsTyped
    <3> QED
      BY <3>1, <3>2
  <2> QED
    BY <1>3, <2>2, <2>3 DEF WorkerReceives
<1>4. ASSUME NEW w \in Workers, WorkerDies(w) PROVE WaitsTyped'
  BY <1>4, <1>a, <1>d DEF WorkerDies, WaitsTyped
<1>5. ASSUME NEW w \in Workers, ExitSeen(w) PROVE WaitsTyped'
  BY <1>5, <1>a DEF ExitSeen, FailCalls, WaitsTyped
<1>6. ASSUME NEW f \in Mgrs, FlushStarts(f) PROVE WaitsTyped'
  <2>1. \A w \in Workers : Key(w, f) \in Keys
    BY DEF Key, Keys, TypeInv, ProcsTyped
  <2>2. Listed \subseteq Workers
    BY DEF Listed
  <2> QED
    BY <1>6, <1>a, <2>1, <2>2 DEF FlushStarts, WaitsTyped
<1>7. CASE Restart
  BY <1>7, <1>a, <1>d DEF Restart, WaitsTyped
<1>8. ASSUME NEW w \in Workers, MasterReceives(w) PROVE WaitsTyped'
  BY <1>8, <1>a DEF MasterReceives, Collect, WaitsTyped
<1>9. CASE \/ \E w \in Workers : Boot(w)
           \/ \E f \in Mgrs : FlushCollected(f) \/ SendStat(f)
           \/ Expire \/ Tick \/ Reconf
           \/ UNCHANGED vars
  BY <1>9, <1>a DEF Boot, FlushCollected, SendStat, Expire, Tick, Reconf, vars, ipc, WaitsTyped
<1> QED
  BY <1>1, <1>2, <1>3, <1>4, <1>5, <1>6, <1>7, <1>8, <1>9 DEF Next

\* The statistics are sets of requests.
LEMMA StatsStep ==
  ASSUME TypeInv, [Next]_vars
  PROVE  StatsTyped'
<1> DEFINE Flush == [stage: {"idle", "collect", "send"}, asked: SUBSET Workers,
                     got: SUBSET Requests]
<1>a. data \in [Workers -> SUBSET Requests] /\ uploaded \subseteq Requests
      /\ flush \in [Mgrs -> Flush] /\ NoFlush \in Flush
  BY DEF TypeInv, StatsTyped, NoFlush
<1>b. mgr \in Mgrs
  BY DEF TypeInv, ProcsTyped
<1>d. ASSUME NEW W, WorkerGone(W) PROVE data' \in [Workers -> SUBSET Requests]
  BY <1>a, <1>d DEF WorkerGone
<1>1. ASSUME NEW w \in Workers, Fetched(w) PROVE StatsTyped'
  <2>1. data' \in [Workers -> SUBSET Requests]
    <3>1. task[w].id \in Requests
          /\ (data' = data \/ data' = [data EXCEPT ![w] = @ \cup {task[w].id}])
      BY <1>1, FetchedTask
    <3> QED
      BY <1>a, <3>1
  <2> QED
    BY <1>1, <1>a, <2>1 DEF Fetched, stat, StatsTyped
<1>2. ASSUME NEW w \in Workers, WorkerReceives(w) PROVE StatsTyped'
  <2>1. UNCHANGED <<flush, uploaded>>
    BY <1>2 DEF WorkerReceives, stat
  <2>2. ASSUME NEW m, OnResult(w, m) PROVE data' \in [Workers -> SUBSET Requests]
    <3>1. task[w].id \in Requests
          /\ (data' = data \/ data' = [data EXCEPT ![w] = @ \cup {task[w].id}])
      BY <2>2, AnsweredTask
    <3> QED
      BY <1>a, <3>1
  <2>3. ASSUME NEW m, OnCall(w, m) PROVE data' \in [Workers -> SUBSET Requests]
    BY <1>a, <2>3 DEF OnCall, HandOver
  <2> QED
    BY <1>2, <1>a, <2>1, <2>2, <2>3 DEF WorkerReceives, StatsTyped
<1>3. ASSUME NEW w \in Workers, MasterReceives(w) PROVE StatsTyped'
  <2> DEFINE m == Head(toM[w])
  <2>1. UNCHANGED <<data, uploaded>> /\ m \in ToMaster
    BY <1>3, HeadTyped DEF MasterReceives, TypeInv
  <2>2. CASE flush' = flush
    BY <1>a, <2>1, <2>2 DEF StatsTyped
  <2>3. CASE m.type = "result" /\ Collect(w, m)
    <3>1. m.val \subseteq Requests /\ m.key \in Keys /\ m.key[2] \in Mgrs
      BY <2>1, <2>3, MessageShape DEF Keys
    <3>2. flush' \in [Mgrs -> Flush]
      BY <1>a, <2>3, <3>1 DEF Collect
    <3> QED
      BY <1>a, <2>1, <3>2 DEF StatsTyped
  <2> QED
    BY <1>3, <2>2, <2>3 DEF MasterReceives
<1>4. ASSUME NEW w \in Workers, WorkerDies(w) PROVE StatsTyped'
  BY <1>4, <1>a, <1>d DEF WorkerDies, stat, StatsTyped
<1>5. ASSUME NEW w \in Workers, ExitSeen(w) PROVE StatsTyped'
  <2>1. flush' \in [Mgrs -> Flush]
    BY <1>5, <1>a DEF ExitSeen, FailCalls
  <2> QED
    BY <1>5, <1>a, <2>1 DEF ExitSeen, StatsTyped
<1>6. ASSUME NEW f \in Mgrs, FlushStarts(f) PROVE StatsTyped'
  <2>1. [stage |-> "collect", asked |-> Listed, got |-> {}] \in Flush
    BY DEF Listed
  <2> QED
    BY <1>6, <1>a, <2>1 DEF FlushStarts, StatsTyped
<1>7. ASSUME NEW f \in Mgrs, FlushCollected(f) PROVE StatsTyped'
  <2>1. flush' \in [Mgrs -> Flush]
    BY <1>7, <1>a DEF FlushCollected
  <2> QED
    BY <1>7, <1>a, <2>1 DEF FlushCollected, StatsTyped
<1>8. ASSUME NEW f \in Mgrs, SendStat(f) PROVE StatsTyped'
  BY <1>8, <1>a DEF SendStat, StatsTyped
<1>9. CASE Reconf
  BY <1>9, <1>a, <1>b DEF Reconf, StatsTyped
<1>10. CASE Restart
  BY <1>10, <1>a, <1>d DEF Restart, StatsTyped
<1>11. CASE \/ \E w \in Workers, u \in Urls : StartRequest(w, u)
            \/ \E w \in Workers : Boot(w)
            \/ Expire \/ Tick
            \/ UNCHANGED vars
  BY <1>11, <1>a DEF StartRequest, Boot, Expire, Tick, vars, stat, StatsTyped
<1> QED
  BY <1>1, <1>2, <1>3, <1>4, <1>5, <1>6, <1>7, <1>8, <1>9, <1>10, <1>11 DEF Next

\* What the cache and its timers hold.
LEMMA EntriesStep ==
  ASSUME TypeInv, [Next]_vars
  PROVE  EntriesTyped'
<1>a. cache \in [Urls -> [id: Requests, size: Sizes] \cup {None}]
      /\ timers \subseteq [id: Requests, url: Urls, space: Sizes, left: 0..Hour]
  BY DEF TypeInv, EntriesTyped
<1>1. ASSUME NEW w \in Workers, MasterReceives(w) PROVE EntriesTyped'
  <2> DEFINE m == Head(toM[w])
  <2>1. CASE UNCHANGED store
    BY <1>a, <2>1 DEF store, EntriesTyped
  <2>2. CASE m \in ToMaster /\ m.type = "call" /\ Serve(w, m) /\ ~UNCHANGED store
    <3>1. m.size \in Sizes /\ cache_set(m.id, m.url, m.size)
          /\ m.id \in Requests /\ m.url \in Urls
      BY <2>2, ServeAnswers, MessageShape
    <3>2. [id |-> m.id, url |-> m.url, space |-> m.size, left |-> Hour]
            \in [id: Requests, url: Urls, space: Sizes, left: 0..Hour]
      BY <3>1, BoundsAssumption
    <3> QED
      BY <1>a, <3>1, <3>2 DEF cache_set, store, EntriesTyped
  <2> QED
    BY <1>1, <2>1, <2>2, HeadTyped DEF MasterReceives, TypeInv
<1>2. CASE Expire
  BY <1>2, <1>a DEF Expire, EntriesTyped
<1>3. CASE Tick
  <2>1. ASSUME NEW t \in timers
        PROVE  [t EXCEPT !.left = @ - 1]
                 \in [id: Requests, url: Urls, space: Sizes, left: 0..Hour]
    <3>1. t.left > 0 /\ t.left \in 0..Hour /\ t.left - 1 \in 0..Hour
      BY <1>3, <1>a, BoundsAssumption DEF Tick
    <3> QED
      BY <1>a, <3>1
  <2> QED
    BY <1>3, <1>a, <2>1 DEF Tick, EntriesTyped
<1>4. CASE \/ \E w \in Workers, u \in Urls : StartRequest(w, u)
           \/ \E w \in Workers : \/ Fetched(w) \/ WorkerReceives(w) \/ Boot(w)
                                 \/ WorkerDies(w) \/ ExitSeen(w)
           \/ \E f \in Mgrs : FlushStarts(f) \/ FlushCollected(f) \/ SendStat(f)
           \/ Reconf \/ Restart
           \/ UNCHANGED vars
  BY <1>4, <1>a DEF StartRequest, Fetched, WorkerReceives, Boot, WorkerDies, ExitSeen, FlushStarts,
                FlushCollected, SendStat, Reconf, Restart, vars, store, EntriesTyped
<1> QED
  BY <1>1, <1>2, <1>3, <1>4 DEF Next

-----------------------------------------------------------------------------
(***************************************************************************)
(* The calls of the master.  A key is on its way to a worker, waits there  *)
(* for the handler, or is on its way back, in one of these places only and *)
(* once; until it is back the master waits for it.                         *)
(***************************************************************************)

Messages == ToWorker \cup ToMaster
KeysApart(type) ==
  {p \in Messages \X Messages :
     p[1].type = type /\ p[2].type = type => p[1].key # p[2].key}

\* The keys in channel a to worker w, among the calls p that wait in it, and in
\* channel b from it, if the master waits for those of K.
Keyed(w, a, p, b, K) ==
  /\ \A m \in Range(a) : m.type = "call" => m.key \in K /\ m.key[1] = w
  /\ \A c \in Range(p) : c.key \in K /\ c.key[1] = w
  /\ \A n \in Range(b) : n.type = "result" => n.key \in K /\ n.key[1] = w
  /\ \A m \in Range(a), c \in Range(p) : m.type = "call" => m.key # c.key
  /\ \A m \in Range(a), n \in Range(b) :
       m.type = "call" /\ n.type = "result" => m.key # n.key
  /\ \A c \in Range(p), n \in Range(b) : n.type = "result" => c.key # n.key
  /\ Pairwise(a, KeysApart("call")) /\ Pairwise(p, KeysApart("call"))
  /\ Pairwise(b, KeysApart("result"))

Asking == \A w \in Workers : Keyed(w, toW[w], pend[w], toM[w], waitM)

\* Only the keys of the worker itself matter.
LEMMA KeyedFrame ==
  ASSUME NEW w, NEW a, NEW p, NEW b, NEW K, NEW K2, Keyed(w, a, p, b, K),
         \A k \in K : k[1] = w => k \in K2
  PROVE  Keyed(w, a, p, b, K2)
BY DEF Keyed

\* Nothing on the way to it ...
LEMMA KeyedGone ==
  ASSUME NEW w, NEW a, NEW p, NEW b, NEW K, Keyed(w, a, p, b, K)
  PROVE  Keyed(w, <<>>, <<>>, b, K)
BY RangeEmpty, PairwiseEmpty DEF Keyed

\* ... or from it.
LEMMA KeyedNone == ASSUME NEW w, NEW K PROVE Keyed(w, <<>>, <<>>, <<>>, K)
BY RangeEmpty, PairwiseEmpty DEF Keyed

\* A new call of the master.
LEMMA KeyedAsk ==
  ASSUME NEW w, NEW a \in Seq(ToWorker), NEW p \in Seq(Asked), NEW b \in Seq(ToMaster),
         NEW K, NEW K2, NEW k \in Keys, Keyed(w, a, p, b, K),
         k \notin K, k[1] = w, k \in K2, \A l \in K : l \in K2
  PROVE  Keyed(w, Append(a, [type |-> "call", key |-> k]), p, b, K2)
<1> DEFINE m == [type |-> "call", key |-> k]
<1>1. m \in ToWorker /\ m.type = "call" /\ m.key = k
  BY DEF ToWorker, Asked
<1>2. Range(Append(a, m)) = Range(a) \cup {m} /\ Range(a) \subseteq ToWorker
  BY <1>1, RangeAppend, RangeType
<1>3. \A n \in Range(a) : <<n, m>> \in KeysApart("call") /\ <<m, n>> \in KeysApart("call")
  BY <1>1, <1>2 DEF Keyed, KeysApart, Messages
<1>4. Pairwise(Append(a, m), KeysApart("call"))
  BY <1>1, <1>3, PairwiseAppend DEF Keyed
<1> QED
  BY <1>1, <1>2, <1>4 DEF Keyed

\* An answer to the worker, and a call of it, are none of these.
LEMMA KeyedReply ==
  ASSUME NEW w, NEW a \in Seq(ToWorker), NEW p, NEW b, NEW K, NEW m \in Replies,
         Keyed(w, a, p, b, K)
  PROVE  Keyed(w, Append(a, m), p, b, K)
<1>1. m \in ToWorker /\ m.type = "result"
  BY DEF ToWorker, Replies
<1>2. Range(Append(a, m)) = Range(a) \cup {m} /\ Range(a) \subseteq ToWorker
  BY <1>1, RangeAppend, RangeType
<1>3. \A n \in Range(a) : <<n, m>> \in KeysApart("call") /\ <<m, n>> \in KeysApart("call")
  BY <1>1, <1>2 DEF KeysApart, Messages
<1>4. Pairwise(Append(a, m), KeysApart("call"))
  BY <1>1, <1>3, PairwiseAppend DEF Keyed
<1> QED
  BY <1>1, <1>2, <1>4 DEF Keyed

\* A call of the worker does not touch the keys of the master.
LEMMA KeyedCall ==
  ASSUME NEW w, NEW a, NEW p, NEW b \in Seq(ToMaster), NEW K, NEW m \in ToMaster,
         m.type = "call", Keyed(w, a, p, b, K)
  PROVE  Keyed(w, a, p, Append(b, m), K)
<1>1. Range(Append(b, m)) = Range(b) \cup {m} /\ Range(b) \subseteq ToMaster
  BY RangeAppend, RangeType
<1>2. \A n \in Range(b) : <<n, m>> \in KeysApart("result") /\ <<m, n>> \in KeysApart("result")
  BY <1>1 DEF KeysApart, Messages
<1>3. Pairwise(Append(b, m), KeysApart("result"))
  BY <1>2, PairwiseAppend DEF Keyed
<1> QED
  BY <1>1, <1>3 DEF Keyed

\* A message that the worker has read.
LEMMA KeyedRead ==
  ASSUME NEW w, NEW a \in Seq(ToWorker), NEW p \in Seq(Asked), NEW b \in Seq(ToMaster), NEW K,
         Keyed(w, a, p, b, K), a # <<>>
  PROVE  /\ Keyed(w, Tail(a), p, b, K)
         /\ Head(a).type = "call" => Keyed(w, Tail(a), Append(p, Head(a)), b, K)
         /\ Head(a).type = "call" => \A n \in Counts : n.key = Head(a).key =>
              Keyed(w, Tail(a), p, Append(b, n), K)
<1>1. /\ Head(a) \in ToWorker /\ Tail(a) \in Seq(ToWorker)
      /\ Range(a) = {Head(a)} \cup Range(Tail(a)) /\ Range(Tail(a)) \subseteq ToWorker
  BY RangeTail, RangeType
<1>2. /\ Pairwise(Tail(a), KeysApart("call"))
      /\ \A m \in Range(Tail(a)) : <<Head(a), m>> \in KeysApart("call")
  BY PairwiseTail DEF Keyed
<1>3. Keyed(w, Tail(a), p, b, K)
  BY <1>1, <1>2 DEF Keyed
<1>4. ASSUME Head(a).type = "call"
      PROVE  \A m \in Range(Tail(a)) : m.type = "call" => m.key # Head(a).key
  BY <1>2, <1>4 DEF KeysApart
<1>5. ASSUME Head(a).type = "call"
      PROVE  Keyed(w, Tail(a), Append(p, Head(a)), b, K)
  <2>1. Head(a) \in Asked
    BY <1>1, <1>5, ReplyShape
  <2>2. Range(Append(p, Head(a))) = Range(p) \cup {Head(a)} /\ Range(p) \subseteq Asked
    BY <2>1, RangeAppend, RangeType
  <2>3. \A c \in Range(p) : c.key # Head(a).key
    BY <1>1, <1>5 DEF Keyed
  <2>4. \A c \in Range(p) : /\ <<c, Head(a)>> \in KeysApart("call")
                            /\ <<Head(a), c>> \in KeysApart("call")
    BY <1>1, <2>2, <2>3 DEF KeysApart, Messages, ToWorker
  <2>5. Pairwise(Append(p, Head(a)), KeysApart("call"))
    BY <2>1, <2>4, PairwiseAppend DEF Keyed
  <2>6. \A n \in Range(b) : n.type = "result" => n.key # Head(a).key
    BY <1>1, <1>5 DEF Keyed
  <2>7. Head(a).key \in K /\ Head(a).key[1] = w
    BY <1>1, <1>5 DEF Keyed
  <2> QED
    BY <1>3, <1>4, <1>5, <2>2, <2>5, <2>6, <2>7 DEF Keyed
<1>6. ASSUME Head(a).type = "call", NEW n \in Counts, n.key = Head(a).key
      PROVE  Keyed(w, Tail(a), p, Append(b, n), K)
  <2>1. n \in ToMaster /\ n.type = "result"
    BY DEF Counts, ToMaster
  <2>2. Range(Append(b, n)) = Range(b) \cup {n} /\ Range(b) \subseteq ToMaster
    BY <2>1, RangeAppend, RangeType
  <2>3. \A o \in Range(b) : o.type = "result" => o.key # n.key
    BY <1>1, <1>6 DEF Keyed
  <2>4. \A o \in Range(b) : <<o, n>> \in KeysApart("result") /\ <<n, o>> \in KeysApart("result")
    BY <2>1, <2>2, <2>3 DEF KeysApart, Messages
  <2>5. Pairwise(Append(b, n), KeysApart("result"))
    BY <2>1, <2>4, PairwiseAppend DEF Keyed
  <2>6. \A c \in Range(p) : c.key # n.key
    BY <1>1, <1>6 DEF Keyed
  <2>7. n.key \in K /\ n.key[1] = w
    BY <1>1, <1>6 DEF Keyed
  <2> QED
    BY <1>3, <1>4, <1>6, <2>1, <2>2, <2>5, <2>6, <2>7 DEF Keyed
<1> QED
  BY <1>3, <1>5, <1>6

\* A message that the master has read: a call, or the answer to one of its own,
\* for which it does not wait any more.
LEMMA KeyedHeard ==
  ASSUME NEW w, NEW a, NEW p, NEW b \in Seq(ToMaster), NEW K, Keyed(w, a, p, b, K), b # <<>>
  PROVE  /\ Keyed(w, a, p, Tail(b), K)
         /\ Head(b).type = "result" =>
              Head(b).key \in K /\ Keyed(w, a, p, Tail(b), K \ {Head(b).key})
<1>1. /\ Head(b) \in ToMaster /\ Tail(b) \in Seq(ToMaster)
      /\ Range(b) = {Head(b)} \cup Range(Tail(b)) /\ Range(Tail(b)) \subseteq ToMaster
  BY RangeTail, RangeType
<1>2. /\ Pairwise(Tail(b), KeysApart("result"))
      /\ \A m \in Range(Tail(b)) : <<Head(b), m>> \in KeysApart("result")
  BY PairwiseTail DEF Keyed
<1>3. Keyed(w, a, p, Tail(b), K)
  BY <1>1, <1>2 DEF Keyed
<1>4. ASSUME Head(b).type = "result"
      PROVE  Head(b).key \in K /\ Keyed(w, a, p, Tail(b), K \ {Head(b).key})
  <2>1. \A n \in Range(Tail(b)) : n.type = "result" => n.key # Head(b).key
    BY <1>2, <1>4 DEF KeysApart
  <2>2. /\ \A m \in Range(a) : m.type = "call" => m.key # Head(b).key
        /\ \A c \in Range(p) : c.key # Head(b).key
        /\ Head(b).key \in K
    BY <1>1, <1>4 DEF Keyed
  <2> QED
    BY <1>3, <2>1, <2>2 DEF Keyed
<1> QED
  BY <1>3, <1>4

\* The handler has come: what waited for it is answered.
LEMMA KeyedBoot ==
  ASSUME ChannelsTyped, NEW w \in Workers, Keyed(w, toW[w], pend[w], toM[w], waitM)
  PROVE  Keyed(w, toW[w], <<>>, toM[w] \o LateAnswers(w), waitM)
<1> DEFINE b == toM[w]  l == LateAnswers(w)
<1>1. b \in Seq(ToMaster) /\ l \in Seq(ToMaster) /\ pend[w] \in Seq(Asked)
  BY BootAnswers, HeadTyped
<1>2. Range(b \o l) = Range(b) \cup Range(l) /\ Range(b) \subseteq ToMaster
      /\ Range(l) \subseteq ToMaster
  BY <1>1, RangeConcatenation, RangeType
<1>3. \A m \in Range(l) : m.type = "result" /\ \E c \in Range(pend[w]) : m.key = c.key
  BY BootAnswers
<1>4. Pairwise(l, KeysApart("result"))
  <2> SUFFICES ASSUME NEW i \in DOMAIN l, NEW j \in DOMAIN l, i # j
               PROVE  <<l[i], l[j]>> \in KeysApart("result")
    BY DEF Pairwise
  <2>1. /\ i \in DOMAIN pend[w] /\ l[i].type = "result" /\ l[i].key = pend[w][i].key
        /\ j \in DOMAIN pend[w] /\ l[j].type = "result" /\ l[j].key = pend[w][j].key
    BY BootAnswers
  <2>2. pend[w][i] \in Asked /\ pend[w][j] \in Asked
    BY <1>1, <2>1
  <2>3. pend[w][i].key # pend[w][j].key
    BY <2>1, <2>2 DEF Keyed, Pairwise, KeysApart, Asked
  <2>4. l[i] \in ToMaster /\ l[j] \in ToMaster
    BY <1>1
  <2> QED
    BY <2>1, <2>3, <2>4 DEF KeysApart, Messages
<1>5. ASSUME NEW m \in Range(b), NEW n \in Range(l)
      PROVE  <<m, n>> \in KeysApart("result") /\ <<n, m>> \in KeysApart("result")
  <2>1. m.type = "result" => m.key # n.key
    BY <1>3 DEF Keyed
  <2> QED
    BY <1>2, <2>1 DEF KeysApart, Messages
<1>6. Pairwise(b \o l, KeysApart("result"))
  BY <1>1, <1>4, <1>5, PairwiseConcat DEF Keyed
<1> HIDE DEF b, l
<1>7. /\ \A n \in Range(l) : n.key \in waitM /\ n.key[1] = w
      /\ \A m \in Range(toW[w]), n \in Range(l) : m.type = "call" => m.key # n.key
  BY <1>3 DEF Keyed
<1>8. /\ \A n \in Range(b) : n.type = "result" => n.key \in waitM /\ n.key[1] = w
      /\ \A m \in Range(toW[w]), n \in Range(b) :
           m.type = "call" /\ n.type = "result" => m.key # n.key
  BY DEF Keyed, b
<1>9. Keyed(w, toW[w], <<>>, b \o l, waitM)
  BY <1>2, <1>6, <1>7, <1>8, RangeEmpty, PairwiseEmpty DEF Keyed
<1> QED
  BY <1>9 DEF b, l

\* The flush that a call belongs to still waits for the worker, or it was
\* cancelled and another one may have been started since.
Current ==
  \A k \in waitM :
    /\ k[3] <= gen[k[2]]
    /\ k[3] = gen[k[2]] => flush[k[2]].stage = "collect" /\ k[1] \in flush[k[2]].asked

\* A process that does not run has nothing, and nothing is on its way to it.
Lifeless(w) ==
  /\ ~Alive(w) => /\ toW[w] = <<>> /\ pend[w] = <<>> /\ waitW[w] = {}
                  /\ data[w] = {} /\ task[w] = Idle
  /\ status[w] \in {"unborn", "dead"} => toM[w] = <<>>
GoneForGood == \A w \in Workers : Lifeless(w)

\* No call waits yet when a flush begins.
LEMMA FreshKeys ==
  ASSUME Current, NEW f \in Mgrs, flush[f].stage = "idle", NEW w
  PROVE  Key(w, f) \notin waitM
BY DEF Current, Key

\* Processes that are gone, and no others, lose what they had.
LEMMA GoneLifeless ==
  ASSUME TypeInv, GoneForGood, NEW W, WorkerGone(W),
         \A w \in Workers : w \in W => status'[w] = "dying",
         \A w \in Workers : w \notin W => status'[w] = status[w] \/ Alive(w)',
         \A w \in Workers : status'[w] \in {"unborn", "dead"} => status'[w] = status[w],
         toM' = toM
  PROVE  GoneForGood'
<1>1. ASSUME NEW w \in Workers, w \in W PROVE Lifeless(w)'
  BY <1>1 DEF WorkerGone, Lifeless, GoneForGood
<1>2. ASSUME NEW w \in Workers, w \notin W PROVE Lifeless(w)'
  <2>1. /\ toW'[w] = toW[w] /\ pend'[w] = pend[w] /\ waitW'[w] = waitW[w]
        /\ data'[w] = data[w] /\ task'[w] = task[w]
    BY <1>2 DEF WorkerGone
  <2> QED
    BY <1>2, <2>1 DEF Lifeless, GoneForGood, Alive
<1> QED
  BY <1>1, <1>2 DEF GoneForGood

\* What works in a process that runs changes nothing for those that do not.
LEMMA AliveLifeless ==
  ASSUME TypeInv, GoneForGood, NEW w \in Workers, Alive(w), Alive(w)',
         \A v \in Workers : v # w =>
           /\ status'[v] = status[v] /\ toW'[v] = toW[v] /\ pend'[v] = pend[v]
           /\ waitW'[v] = waitW[v] /\ data'[v] = data[v] /\ task'[v] = task[v]
           /\ toM'[v] = toM[v]
  PROVE  GoneForGood'
<1>1. Lifeless(w)'
  BY DEF Lifeless, Alive
<1>2. ASSUME NEW v \in Workers, v # w PROVE Lifeless(v)'
  BY <1>2 DEF Lifeless, GoneForGood, Alive
<1> QED
  BY <1>1, <1>2 DEF GoneForGood

\* Processes that are gone stay without anything.
LEMMA LifelessStep ==
  ASSUME TypeInv, GoneForGood, [Next]_vars
  PROVE  GoneForGood'
<1>a. /\ status \in [Workers -> {"unborn", "booting", "ready", "dying", "dead"}]
      /\ killed \subseteq Workers
  BY DEF TypeInv, ProcsTyped
<1>b. /\ toW \in [Workers -> Seq(ToWorker)] /\ pend \in [Workers -> Seq(Asked)]
      /\ toM \in [Workers -> Seq(ToMaster)]
      /\ waitW \in [Workers -> SUBSET (Funs \X Requests)]
      /\ data \in [Workers -> SUBSET Requests]
      /\ task \in [Workers -> [stage: Stages, id: 0..MaxRequests, url: Urls \cup {None}]]
  BY DEF TypeInv, ChannelsTyped, WaitsTyped, StatsTyped, TasksTyped
<1>1. ASSUME NEW w \in Workers, NEW u \in Urls, StartRequest(w, u) PROVE GoneForGood'
  BY <1>1, <1>a, <1>b, AliveLifeless DEF StartRequest, CallMaster, Alive, procs
<1>2. ASSUME NEW w \in Workers, Fetched(w) PROVE GoneForGood'
  BY <1>2, <1>a, <1>b, AliveLifeless DEF Fetched, CallMaster, EndRequest, EndCount, Alive, procs
<1>3. ASSUME NEW w \in Workers, WorkerReceives(w) PROVE GoneForGood'
  BY <1>3, <1>a, <1>b, AliveLifeless
     DEF WorkerReceives, OnCall, OnResult, CallMaster, EndRequest, EndCount, Alive, procs
<1>4. ASSUME NEW w \in Workers, Boot(w) PROVE GoneForGood'
  BY <1>4, <1>a, <1>b, AliveLifeless DEF Boot, Alive, requests
<1>5. ASSUME NEW w \in Workers, MasterReceives(w) PROVE GoneForGood'
  <2>1. UNCHANGED <<status, pend, waitW, data, task>>
        /\ toM' = [toM EXCEPT ![w] = Tail(@)] /\ status[w] \in {"booting", "ready", "dying"}
    BY <1>5 DEF MasterReceives, procs, requests
  <2>2. toW' = toW \/ (Alive(w) /\ \E e : toW' = [toW EXCEPT ![w] = Append(@, e)])
    BY <1>5 DEF MasterReceives, Serve, Reply, Alive
  <2>3. ASSUME NEW v \in Workers PROVE Lifeless(v)'
    <3>1. ~Alive(v) => toW'[v] = toW[v]
      BY <2>2, <1>b
    <3>2. status[v] \in {"unborn", "dead"} => toM'[v] = toM[v]
      BY <2>1, <1>b
    <3> QED
      BY <2>1, <3>1, <3>2 DEF Lifeless, GoneForGood, Alive
  <2> QED
    BY <2>3 DEF GoneForGood
<1>6. ASSUME NEW w \in Workers, WorkerDies(w) PROVE GoneForGood'
  BY <1>6, <1>a, GoneLifeless DEF WorkerDies
<1>7. ASSUME NEW w \in Workers, ExitSeen(w) PROVE GoneForGood'
  <2>1. UNCHANGED <<toW, pend, waitW, data, task>> /\ toM' = [toM EXCEPT ![w] = <<>>]
        /\ status[w] = "dying" /\ w \in Workers
    BY <1>7 DEF ExitSeen, requests
  <2>2. \A v \in Workers : \/ status'[v] = status[v] \/ Alive(v)'
                           \/ v = w /\ status'[v] = "dead"
    BY <1>7 DEF ExitSeen, Alive
  <2>3. ASSUME NEW v \in Workers PROVE Lifeless(v)'
    <3>1. toM'[v] = IF v = w THEN <<>> ELSE toM[v]
      BY <2>1, <1>b
    <3> QED
      BY <2>1, <2>2, <3>1 DEF Lifeless, GoneForGood, Alive
  <2> QED
    BY <2>3 DEF GoneForGood
<1>8. ASSUME NEW f \in Mgrs, FlushStarts(f) PROVE GoneForGood'
  <2>1. UNCHANGED <<status, pend, waitW, data, task, toM>>
    BY <1>8 DEF FlushStarts, procs, requests
  <2>2. \A v \in Workers : ~Alive(v) => toW'[v] = toW[v]
    BY <1>8 DEF FlushStarts, Listed, Alive
  <2> QED
    BY <2>1, <2>2 DEF Lifeless, GoneForGood, Alive
<1>9. CASE Restart
  <2>1. WorkerGone(Listed) /\ toM' = toM
    BY <1>9 DEF Restart
  <2>2. /\ \A w \in Workers : w \in Listed => status'[w] = "dying"
        /\ \A w \in Workers : w \notin Listed => status'[w] = status[w] \/ Alive(w)'
        /\ \A w \in Workers : status'[w] \in {"unborn", "dead"} => status'[w] = status[w]
    BY <1>9 DEF Restart, Listed, Forked, Fresh, Alive
  <2> QED
    BY <2>1, <2>2, GoneLifeless
<1>10. CASE \/ \E f \in Mgrs : FlushCollected(f) \/ SendStat(f)
            \/ Expire \/ Tick \/ Reconf
            \/ UNCHANGED vars
  <2>1. UNCHANGED <<status, toW, pend, waitW, data, task, toM>>
    BY <1>10 DEF FlushCollected, SendStat, Expire, Tick, Reconf, vars, procs, ipc, requests
  <2> QED
    BY <2>1 DEF Lifeless, GoneForGood, Alive
<1> QED
  BY <1>1, <1>2, <1>3, <1>4, <1>5, <1>6, <1>7, <1>8, <1>9, <1>10 DEF Next

\* What the master waits for belongs to a flush that still waits, or to an older one.
LEMMA CurrentStep ==
  ASSUME TypeInv, Asking, Current, [Next]_vars
  PROVE  Current'
<1>a. /\ gen \in [Mgrs -> 0..MaxTroubles] /\ waitM \subseteq Keys
      /\ flush \in [Mgrs -> [stage: {"idle", "collect", "send"}, asked: SUBSET Workers,
                             got: SUBSET Requests]]
      /\ mgr \in Mgrs
  BY DEF TypeInv, ProcsTyped, WaitsTyped, StatsTyped
<1>b. \A k \in Keys : /\ k = <<k[1], k[2], k[3]>> /\ k[1] \in Workers /\ k[2] \in Mgrs
                      /\ k[3] \in Nat
  BY BoundsAssumption DEF Keys
<1>1. ASSUME NEW w \in Workers, MasterReceives(w) PROVE Current'
  <2> DEFINE m == Head(toM[w])
  <2>1. gen' = gen /\ toM[w] # <<>> /\ toM[w] \in Seq(ToMaster) /\ m \in ToMaster
    BY <1>1, HeadTyped DEF MasterReceives, TypeInv
  <2>2. CASE UNCHANGED <<waitM, flush>>
    BY <2>1, <2>2 DEF Current
  <2>3. CASE m.type = "result" /\ Collect(w, m)
    <3>1. m.key \in waitM /\ m.key[1] = w /\ m.key \in Keys
      <4>1. m \in Range(toM[w])
        BY <2>1, RangeTail
      <4> QED
        BY <1>a, <2>3, <4>1 DEF Asking, Keyed
    <3>2. waitM' = waitM \ {m.key}
      BY <2>3 DEF Collect
    <3>3. \A g \in Mgrs : flush'[g].stage = flush[g].stage
      BY <1>a, <1>b, <2>3, <3>1 DEF Collect
    <3>4. \A g \in Mgrs, v \in Workers :
            v \in flush[g].asked => \/ v \in flush'[g].asked
                                    \/ v = w /\ g = m.key[2] /\ gen[g] = m.key[3]
      BY <1>a, <1>b, <2>3, <3>1 DEF Collect
    <3>5. ASSUME NEW k \in waitM', k[3] = gen[k[2]], k[1] = w, k[2] = m.key[2], gen[k[2]] = m.key[3]
          PROVE  FALSE
      <4>1. k \in Keys /\ k # m.key
        BY <1>a, <3>2
      <4>2. k = <<k[1], k[2], k[3]>>
        BY <1>b, <4>1
      <4>3. m.key = <<m.key[1], m.key[2], m.key[3]>>
        BY <1>b, <3>1
      <4> QED
        BY <3>1, <3>5, <4>1, <4>2, <4>3
    <3> QED
      BY <1>a, <1>b, <2>1, <3>2, <3>3, <3>4, <3>5 DEF Current
  <2> QED
    BY <1>1, <2>2, <2>3 DEF MasterReceives
<1>2. ASSUME NEW w \in Workers, ExitSeen(w) PROVE Current'
  <2>1. gen' = gen /\ waitM' = {k \in waitM : k[1] # w}
        /\ flush' = [f \in Mgrs |-> [flush[f] EXCEPT !.asked = @ \ {w}]]
    BY <1>2 DEF ExitSeen, FailCalls
  <2> QED
    BY <1>a, <1>b, <2>1 DEF Current
<1>3. ASSUME NEW f \in Mgrs, FlushStarts(f) PROVE Current'
  <2>1. /\ gen' = gen /\ flush[f].stage = "idle"
        /\ waitM' = waitM \cup {Key(w, f) : w \in Listed}
        /\ flush' = [flush EXCEPT ![f] = [stage |-> "collect", asked |-> Listed, got |-> {}]]
    BY <1>3 DEF FlushStarts
  <2>2. ASSUME NEW w \in Listed
        PROVE  /\ Key(w, f)[3] = gen[f] /\ Key(w, f)[2] = f /\ Key(w, f)[1] = w
               /\ gen[f] \in Nat
    BY <1>a, BoundsAssumption DEF Key
  <2>3. ASSUME NEW k \in waitM
        PROVE  /\ k[3] <= gen[k[2]]
               /\ k[3] = gen[k[2]] => k[2] # f /\ flush'[k[2]] = flush[k[2]]
    BY <1>a, <1>b, <2>1 DEF Current
  <2>4. flush'[f].stage = "collect" /\ flush'[f].asked = Listed
    BY <1>a, <2>1
  <2>5. ASSUME NEW k \in waitM'
        PROVE  /\ k[3] <= gen'[k[2]]
               /\ k[3] = gen'[k[2]] => flush'[k[2]].stage = "collect"
                                       /\ k[1] \in flush'[k[2]].asked
    <3>1. CASE k \in waitM
      BY <2>1, <2>3, <3>1 DEF Current
    <3>2. CASE \E w \in Listed : k = Key(w, f)
      BY <2>1, <2>2, <2>4, <3>2
    <3> QED
      BY <2>1, <3>1, <3>2
  <2> QED
    BY <2>5 DEF Current
<1>4. ASSUME NEW f \in Mgrs, FlushCollected(f) PROVE Current'
  <2>1. /\ UNCHANGED <<gen, waitM>> /\ flush[f].asked = {}
        /\ \A g \in Mgrs : g # f => flush'[g] = flush[g]
    BY <1>4, <1>a DEF FlushCollected, ipc
  <2> QED
    BY <1>a, <1>b, <2>1 DEF Current
<1>5. ASSUME NEW f \in Mgrs, SendStat(f) PROVE Current'
  <2>1. /\ UNCHANGED <<gen, waitM>> /\ flush[f].stage = "send"
        /\ \A g \in Mgrs : g # f => flush'[g] = flush[g]
    BY <1>5, <1>a DEF SendStat, ipc
  <2> QED
    BY <1>a, <1>b, <2>1 DEF Current
<1>6. CASE Reconf
  <2>1. /\ waitM' = waitM /\ gen' = [gen EXCEPT ![mgr] = @ + 1]
        /\ \A g \in Mgrs : g # mgr => flush'[g] = flush[g]
    BY <1>6, <1>a DEF Reconf, ipc
  <2>2. \A g \in Mgrs : gen[g] \in Nat /\ gen'[g] = IF g = mgr THEN gen[g] + 1 ELSE gen[g]
    BY <1>a, <2>1, BoundsAssumption
  <2>3. ASSUME NEW k \in waitM
        PROVE  /\ k[3] <= gen'[k[2]]
               /\ k[3] = gen'[k[2]] => k[3] = gen[k[2]] /\ k[2] # mgr
    BY <1>a, <1>b, <2>2 DEF Current
  <2> QED
    BY <1>a, <1>b, <2>1, <2>3 DEF Current
<1>7. CASE \/ \E w \in Workers, u \in Urls : StartRequest(w, u)
           \/ \E w \in Workers : Fetched(w) \/ WorkerReceives(w) \/ Boot(w) \/ WorkerDies(w)
           \/ Expire \/ Tick \/ Restart
           \/ UNCHANGED vars
  <2>1. UNCHANGED <<gen, waitM, flush>>
    BY <1>7 DEF StartRequest, Fetched, WorkerReceives, Boot, WorkerDies, Expire, Tick, Restart,
                vars, ipc, stat
  <2> QED
    BY <2>1 DEF Current
<1> QED
  BY <1>1, <1>2, <1>3, <1>4, <1>5, <1>6, <1>7 DEF Next

\* The keys of the calls of the master stay apart, and it waits for them.
LEMMA AskingStep ==
  ASSUME TypeInv, GoneForGood, Asking, Current, [Next]_vars
  PROVE  Asking'
<1>a. /\ toW \in [Workers -> Seq(ToWorker)] /\ pend \in [Workers -> Seq(Asked)]
      /\ toM \in [Workers -> Seq(ToMaster)] /\ ChannelsTyped
      /\ waitM \subseteq Keys
  BY DEF TypeInv, ChannelsTyped, WaitsTyped
<1>b. \A w \in Workers : Keyed(w, toW[w], pend[w], toM[w], waitM)
  BY DEF Asking
<1>c. \A w \in Workers : /\ toW[w] \in Seq(ToWorker) /\ pend[w] \in Seq(Asked)
                         /\ toM[w] \in Seq(ToMaster)
  BY <1>a
<1>d. ASSUME NEW w \in Workers, NEW m, NEW t, NEW size, NEW answered,
             t.stage \in Funs, m \in ToMaster, m.type = "call",
             m = [type |-> "call", fn |-> t.stage, id |-> t.id, url |-> t.url, size |-> size],
             CallMaster(w, t, size, answered)
      PROVE  \A v \in Workers : /\ toM'[v] = toM[v] \/ v = w
                                /\ Keyed(v, toW[v], pend[v], toM'[v], waitM)
  <2>1. toM' = [toM EXCEPT ![w] = Append(@, m)]
    BY <1>d DEF CallMaster
  <2>2. Keyed(w, toW[w], pend[w], Append(toM[w], m), waitM)
    BY <1>b, <1>c, <1>d, KeyedCall
  <2> QED
    BY <1>a, <1>b, <2>1, <2>2
<1>e. ASSUME NEW t \in [stage: Funs, id: Requests, url: Urls], NEW size,
             IF t.stage = "set" THEN size \in Sizes ELSE size = 0
      PROVE  /\ t.stage \in Funs
             /\ [type |-> "call", fn |-> t.stage, id |-> t.id, url |-> t.url, size |-> size]
                  \in ToMaster
  BY <1>e DEF ToMaster, Looks, Stores, Funs
<1>f. ASSUME NEW w \in Workers, NEW size, NEW answered,
             NEW t \in [stage: Funs, id: Requests, url: Urls],
             IF t.stage = "set" THEN size \in Sizes ELSE size = 0,
             CallMaster(w, t, size, answered)
      PROVE  \A v \in Workers : /\ toM'[v] = toM[v] \/ v = w
                                /\ Keyed(v, toW[v], pend[v], toM'[v], waitM)
  <2> DEFINE m == [type |-> "call", fn |-> t.stage, id |-> t.id, url |-> t.url, size |-> size]
  <2>1. t.stage \in Funs /\ m \in ToMaster /\ m.type = "call"
    BY <1>e, <1>f
  <2> HIDE DEF m
  <2> QED
    BY <1>d, <1>f, <2>1 DEF m
<1>1. ASSUME NEW w \in Workers, NEW u \in Urls, StartRequest(w, u) PROVE Asking'
  <2>1. UNCHANGED <<toW, pend, waitM>>
    BY <1>1 DEF StartRequest
  <2>2. CASE toM' = toM
    BY <1>b, <2>1, <2>2 DEF Asking
  <2>3. CASE CallMaster(w, [stage |-> "has", id |-> issued + 1, url |-> u], 0, {})
    <3>1. [stage |-> "has", id |-> issued + 1, url |-> u] \in [stage: Funs, id: Requests, url: Urls]
      BY <1>1, StartTask DEF Funs
    <3> QED
      BY <1>f, <2>1, <2>3, <3>1 DEF Asking
  <2> QED
    BY <1>1, <2>2, <2>3, StartTask
<1>2. ASSUME NEW w \in Workers, Fetched(w) PROVE Asking'
  <2> DEFINE t == [stage |-> "set", id |-> task[w].id, url |-> task[w].url]
  <2>1. UNCHANGED <<toW, pend, waitM>>
    BY <1>2 DEF Fetched
  <2>2. CASE toM' = toM
    BY <1>b, <2>1, <2>2 DEF Asking
  <2>3. ASSUME NEW size \in Sizes, task[w].url \in Urls, CallMaster(w, t, size, {}) PROVE Asking'
    <3>1. t \in [stage: Funs, id: Requests, url: Urls]
      BY <1>2, <2>3, FetchedTask DEF Funs
    <3> QED
      BY <1>f, <2>1, <2>3, <3>1 DEF Asking
  <2> QED
    BY <1>2, <2>2, <2>3, FetchedTask
<1>3. ASSUME NEW w \in Workers, WorkerReceives(w) PROVE Asking'
  <2> DEFINE m == Head(toW[w])
  <2>1. /\ toW[w] # <<>> /\ toW' = [toW EXCEPT ![w] = Tail(@)] /\ waitM' = waitM
        /\ m \in ToWorker
    BY <1>3, <1>a, HeadTyped DEF WorkerReceives
  <2>2. \A v \in Workers : v # w => toW'[v] = toW[v]
    BY <1>a, <2>1
  <2>3. toW'[w] = Tail(toW[w])
    BY <1>a, <2>1
  <2>4. /\ Keyed(w, Tail(toW[w]), pend[w], toM[w], waitM)
        /\ m.type = "call" => Keyed(w, Tail(toW[w]), Append(pend[w], m), toM[w], waitM)
        /\ m.type = "call" => \A n \in Counts : n.key = m.key =>
             Keyed(w, Tail(toW[w]), pend[w], Append(toM[w], n), waitM)
    BY <1>b, <1>c, <2>1, KeyedRead
  <2>5. CASE m.type = "call" /\ OnCall(w, m) /\ status[w] = "booting"
    <3>1. pend' = [pend EXCEPT ![w] = Append(@, m)] /\ toM' = toM
      BY <2>5 DEF OnCall
    <3> QED
      BY <1>a, <1>b, <2>1, <2>2, <2>3, <2>4, <2>5, <3>1 DEF Asking
  <2>6. CASE m.type = "call" /\ OnCall(w, m) /\ status[w] = "ready"
    <3> DEFINE n == [type |-> "result", key |-> m.key, val |-> data[w]]
    <3>1. pend' = pend /\ toM' = [toM EXCEPT ![w] = Append(@, n)]
      BY <2>6 DEF OnCall
    <3>2. n \in Counts /\ n.key = m.key
      BY <2>1, <2>6, ReplyShape DEF Counts, TypeInv, StatsTyped
    <3>3. Keyed(w, Tail(toW[w]), pend[w], Append(toM[w], n), waitM)
      BY <2>4, <2>6, <3>2
    <3> QED
      BY <1>a, <1>b, <2>1, <2>2, <2>3, <3>1, <3>3 DEF Asking
  <2>7. CASE OnResult(w, m) /\ toM' = toM /\ pend' = pend
    BY <1>b, <2>1, <2>2, <2>3, <2>4, <2>7 DEF Asking
  <2>8. CASE OnResult(w, m) /\ toM' # toM /\ pend' = pend
    <3> DEFINE t == [stage |-> "get", id |-> task[w].id, url |-> task[w].url]
               n == [type |-> "call", fn |-> "get", id |-> task[w].id, url |-> task[w].url,
                     size |-> 0]
    <3>1. t \in [stage: Funs, id: Requests, url: Urls]
      BY <2>8, AnsweredTask DEF Funs
    <3>2. CallMaster(w, t, 0, {m.key})
      BY <2>8, AnsweredTask
    <3>3. toM' = [toM EXCEPT ![w] = Append(@, n)]
      BY <3>2 DEF CallMaster
    <3>4. n \in ToMaster /\ n.type = "call"
      BY <3>1 DEF ToMaster, Looks
    <3>5. Keyed(w, Tail(toW[w]), pend[w], Append(toM[w], n), waitM)
      BY <1>c, <2>4, <3>4, KeyedCall
    <3> QED
      BY <1>a, <1>b, <2>1, <2>2, <2>3, <2>8, <3>3, <3>5 DEF Asking
  <2> QED
    BY <1>3, <2>5, <2>6, <2>7, <2>8 DEF WorkerReceives, OnCall
<1>4. ASSUME NEW w \in Workers, Boot(w) PROVE Asking'
  <2>1. UNCHANGED <<toW, waitM>> /\ pend' = [pend EXCEPT ![w] = <<>>]
        /\ toM' = [toM EXCEPT ![w] = @ \o LateAnswers(w)]
    BY <1>4 DEF Boot, LateAnswers
  <2>2. Keyed(w, toW[w], <<>>, toM[w] \o LateAnswers(w), waitM)
    BY <1>a, <1>b, KeyedBoot
  <2> QED
    BY <1>a, <1>b, <2>1, <2>2 DEF Asking
<1>5. ASSUME NEW w \in Workers, MasterReceives(w) PROVE Asking'
  <2> DEFINE m == Head(toM[w])
  <2>1. /\ toM[w] # <<>> /\ toM' = [toM EXCEPT ![w] = Tail(@)] /\ pend' = pend
        /\ m \in ToMaster
    BY <1>5, <1>a, HeadTyped DEF MasterReceives
  <2>2. /\ Keyed(w, toW[w], pend[w], Tail(toM[w]), waitM)
        /\ m.type = "result" =>
             m.key \in waitM /\ Keyed(w, toW[w], pend[w], Tail(toM[w]), waitM \ {m.key})
    BY <1>b, <1>c, <2>1, KeyedHeard
  <2>3. CASE m.type = "call" /\ Serve(w, m) /\ waitM' = waitM
    <3>1. PICK e \in Replies :
            toW' = IF Alive(w) THEN [toW EXCEPT ![w] = Append(@, e)] ELSE toW
      BY <2>1, <2>3, ServeAnswers
    <3>2. Keyed(w, Append(toW[w], e), pend[w], Tail(toM[w]), waitM)
      BY <1>c, <2>2, KeyedReply
    <3> QED
      BY <1>a, <1>b, <2>1, <2>2, <2>3, <3>1, <3>2 DEF Asking
  <2>4. CASE m.type = "result" /\ Collect(w, m) /\ toW' = toW
    <3>1. waitM' = waitM \ {m.key}
      BY <2>4 DEF Collect
    <3>2. m.key[1] = w
      <4>1. m \in Range(toM[w])
        BY <1>c, <2>1, RangeTail
      <4> QED
        BY <1>b, <2>4, <4>1 DEF Keyed
    <3>3. ASSUME NEW v \in Workers, v # w
          PROVE  Keyed(v, toW[v], pend[v], toM[v], waitM \ {m.key})
      BY <1>b, <3>2, <3>3, KeyedFrame
    <3> QED
      BY <1>a, <2>1, <2>2, <2>4, <3>1, <3>3 DEF Asking
  <2> QED
    BY <1>5, <2>3, <2>4 DEF MasterReceives
<1>6. ASSUME NEW W, WorkerGone(W), UNCHANGED <<toM, waitM>> PROVE Asking'
  <2>1. ASSUME NEW v \in Workers PROVE Keyed(v, toW[v], pend[v], toM[v], waitM)'
    <3>1. CASE v \in W
      <4>1. toW'[v] = <<>> /\ pend'[v] = <<>>
        BY <1>6, <3>1 DEF WorkerGone
      <4> QED
        BY <1>6, <1>b, <4>1, KeyedGone
    <3>2. CASE v \notin W
      BY <1>6, <1>b, <3>2 DEF WorkerGone
    <3> QED
      BY <3>1, <3>2
  <2> QED
    BY <2>1 DEF Asking
<1>7. ASSUME NEW w \in Workers, WorkerDies(w) PROVE Asking'
  BY <1>6, <1>7 DEF WorkerDies
<1>8. ASSUME NEW w \in Workers, ExitSeen(w) PROVE Asking'
  <2>1. /\ UNCHANGED <<toW, pend>> /\ toM' = [toM EXCEPT ![w] = <<>>]
        /\ waitM' = {k \in waitM : k[1] # w}
        /\ toW[w] = <<>> /\ pend[w] = <<>>
    BY <1>8 DEF ExitSeen, FailCalls, GoneForGood, Lifeless, Alive
  <2>2. Keyed(w, <<>>, <<>>, <<>>, waitM')
    BY KeyedNone
  <2>3. ASSUME NEW v \in Workers, v # w PROVE Keyed(v, toW[v], pend[v], toM[v], waitM')
    BY <1>b, <2>1, <2>3, KeyedFrame
  <2> QED
    BY <1>a, <2>1, <2>2, <2>3 DEF Asking
<1>9. ASSUME NEW f \in Mgrs, FlushStarts(f) PROVE Asking'
  <2>1. /\ UNCHANGED <<pend, toM>> /\ flush[f].stage = "idle"
        /\ waitM' = waitM \cup {Key(w, f) : w \in Listed} /\ Listed \subseteq Workers
        /\ toW' = [w \in Workers |-> IF w \in Listed /\ status[w] # "dying"
                     THEN Append(toW[w], [type |-> "call", key |-> Key(w, f)]) ELSE toW[w]]
    BY <1>9 DEF FlushStarts, Listed
  <2>2. ASSUME NEW v \in Workers PROVE Key(v, f) \in Keys /\ Key(v, f)[1] = v
    BY DEF Key, Keys, TypeInv, ProcsTyped
  <2>3. ASSUME NEW v \in Workers PROVE Keyed(v, toW'[v], pend[v], toM[v], waitM')
    <3>1. CASE v \in Listed /\ status[v] # "dying"
      <4>1. Key(v, f) \notin waitM /\ Key(v, f) \in waitM'
        BY <2>1, <3>1, FreshKeys
      <4>2. Keyed(v, Append(toW[v], [type |-> "call", key |-> Key(v, f)]), pend[v], toM[v],
                  waitM')
        BY <1>b, <1>c, <2>1, <2>2, <4>1, KeyedAsk
      <4> QED
        BY <2>1, <3>1, <4>2
    <3>2. CASE ~(v \in Listed /\ status[v] # "dying")
      BY <1>b, <2>1, <3>2, KeyedFrame
    <3> QED
      BY <3>1, <3>2
  <2> QED
    BY <2>1, <2>3 DEF Asking
<1>10. CASE Restart
  BY <1>6, <1>10 DEF Restart
<1>11. CASE \/ \E f \in Mgrs : FlushCollected(f) \/ SendStat(f)
            \/ Expire \/ Tick \/ Reconf
            \/ UNCHANGED vars
  <2>1. UNCHANGED <<toW, pend, toM, waitM>>
    BY <1>11 DEF FlushCollected, SendStat, Expire, Tick, Reconf, vars, ipc
  <2> QED
    BY <1>b, <2>1 DEF Asking
<1> QED
  BY <1>1, <1>2, <1>3, <1>4, <1>5, <1>7, <1>8, <1>9, <1>10, <1>11 DEF Next

-----------------------------------------------------------------------------
(***************************************************************************)
(* The calls of the workers.  A request has one call under way at most,    *)
(* and it is the one its worker waits for: on its way to the master, or    *)
(* answered and on its way back.                                           *)
(***************************************************************************)

OneOf(type) == {p \in Messages \X Messages : p[1].type # type \/ p[2].type # type}

\* No call of a worker is under way: no answer in channel a, no call in channel b.
Quiet(a, b) ==
  (\A m \in Range(a) : m.type # "result") /\ (\A m \in Range(b) : m.type # "call")

\* The call that is under way is that of task t.
Spoken(t, W, a, b, alive) ==
  /\ W = IF t.stage \in Funs THEN {<<t.stage, t.id>>} ELSE {}
  /\ \A m \in Range(b) : m.type = "call" /\ alive => m.fn = t.stage /\ m.id = t.id
  /\ \A m \in Range(a) : m.type = "result" => m.key \in W
  /\ \A m \in Range(a), n \in Range(b) : m.type = "result" => n.type # "call"
  /\ Pairwise(a, OneOf("result")) /\ Pairwise(b, OneOf("call"))

Dialogue == \A w \in Workers : Spoken(task[w], waitW[w], toW[w], toM[w], Alive(w))

\* A channel without such messages ...
LEMMA NoneOf ==
  ASSUME NEW s \in Seq(Messages), NEW type, \A m \in Range(s) : m.type # type
  PROVE  Pairwise(s, OneOf(type))
<1>1. \A i \in DOMAIN s : s[i] \in Messages /\ s[i].type # type
  BY RangeType
<1> QED
  BY <1>1 DEF Pairwise, OneOf

\* ... may get one of them, and one with any may get others.
LEMMA FirstOf ==
  ASSUME NEW s \in Seq(Messages), NEW type, NEW e \in Messages, Pairwise(s, OneOf(type)),
         e.type # type \/ \A m \in Range(s) : m.type # type
  PROVE  Pairwise(Append(s, e), OneOf(type))
<1>1. Range(s) \subseteq Messages
  BY RangeType
<1>2. \A m \in Range(s) : <<m, e>> \in OneOf(type) /\ <<e, m>> \in OneOf(type)
  BY <1>1 DEF OneOf
<1> QED
  BY <1>2, PairwiseAppend

\* The channels of the model are of messages.
LEMMA ChannelMessages ==
  ASSUME NEW s
  PROVE  (s \in Seq(ToWorker) => s \in Seq(Messages)) /\ (s \in Seq(ToMaster) => s \in Seq(Messages))
BY DEF Messages

\* Without a call under way the task may be any that waits for none ...
LEMMA QuietIdle ==
  ASSUME NEW a \in Seq(ToWorker), NEW b \in Seq(ToMaster), Quiet(a, b),
         NEW t, t.stage \notin Funs, NEW alive
  PROVE  Spoken(t, {}, a, b, alive)
<1>1. Pairwise(a, OneOf("result")) /\ Pairwise(b, OneOf("call"))
  BY NoneOf, ChannelMessages DEF Quiet
<1> QED
  BY <1>1 DEF Quiet, Spoken

\* ... or the worker may make one.
LEMMA QuietCall ==
  ASSUME NEW a \in Seq(ToWorker), NEW b \in Seq(ToMaster), Quiet(a, b),
         NEW t, t.stage \in Funs, NEW alive, NEW m \in ToMaster,
         m.type = "call", m.fn = t.stage, m.id = t.id
  PROVE  Spoken(t, {<<t.stage, t.id>>}, a, Append(b, m), alive)
<1>1. Pairwise(a, OneOf("result")) /\ Pairwise(b, OneOf("call")) /\ m \in Messages
      /\ b \in Seq(Messages)
  BY NoneOf, ChannelMessages DEF Quiet, Messages
<1>2. Pairwise(Append(b, m), OneOf("call"))
  BY <1>1, FirstOf DEF Quiet
<1>3. Range(Append(b, m)) = Range(b) \cup {m}
  BY RangeAppend
<1> QED
  BY <1>1, <1>2, <1>3 DEF Quiet, Spoken

\* There is none while the task waits for nothing, nor after the answer was read.
LEMMA SpokenQuiet ==
  ASSUME NEW t, NEW W, NEW a \in Seq(ToWorker), NEW b \in Seq(ToMaster), Spoken(t, W, a, b, TRUE)
  PROVE  /\ t.stage \notin Funs => Quiet(a, b)
         /\ a # <<>> /\ Head(a).type = "result" =>
              /\ Quiet(Tail(a), b) /\ W = {Head(a).key} /\ t.stage \in Funs
<1>1. Range(b) \subseteq ToMaster
  BY RangeType
<1>2. t.stage \notin Funs => Quiet(a, b)
  BY <1>1, MessageShape DEF Spoken, Quiet
<1>3. ASSUME a # <<>>, Head(a).type = "result"
      PROVE  Quiet(Tail(a), b) /\ W = {Head(a).key} /\ t.stage \in Funs
  <2>1. Head(a) \in Range(a) /\ Range(a) = {Head(a)} \cup Range(Tail(a))
    BY <1>3, RangeTail
  <2>2. \A m \in Range(Tail(a)) : <<Head(a), m>> \in OneOf("result")
    BY <1>3, PairwiseTail DEF Spoken
  <2>3. \A m \in Range(Tail(a)) : m.type # "result"
    BY <1>3, <2>2 DEF OneOf
  <2> QED
    BY <1>3, <2>1, <2>3 DEF Spoken, Quiet
<1> QED
  BY <1>2, <1>3

\* Calls of the master and their answers are none of its business.
LEMMA SpokenOthers ==
  ASSUME NEW t, NEW W, NEW a \in Seq(ToWorker), NEW b \in Seq(ToMaster), NEW alive,
         Spoken(t, W, a, b, alive)
  PROVE  /\ \A m \in Asked : Spoken(t, W, Append(a, m), b, alive)
         /\ \A n \in Counts : Spoken(t, W, a, Append(b, n), alive)
         /\ a # <<>> => Spoken(t, W, Tail(a), b, alive)
         /\ b # <<>> => Spoken(t, W, a, Tail(b), alive)
<1>a. a \in Seq(Messages) /\ b \in Seq(Messages)
  BY ChannelMessages
<1>1. ASSUME NEW m \in Asked PROVE Spoken(t, W, Append(a, m), b, alive)
  <2>1. m \in Messages /\ m \in ToWorker /\ m.type = "call"
    BY DEF Messages, ToWorker, Asked
  <2>2. Range(Append(a, m)) = Range(a) \cup {m}
    BY <2>1, RangeAppend
  <2>3. Pairwise(Append(a, m), OneOf("result"))
    BY <1>a, <2>1, FirstOf DEF Spoken
  <2> QED
    BY <2>1, <2>2, <2>3 DEF Spoken
<1>2. ASSUME NEW n \in Counts PROVE Spoken(t, W, a, Append(b, n), alive)
  <2>1. n \in Messages /\ n \in ToMaster /\ n.type = "result"
    BY DEF Messages, ToMaster, Counts
  <2>2. Range(Append(b, n)) = Range(b) \cup {n}
    BY <2>1, RangeAppend
  <2>3. Pairwise(Append(b, n), OneOf("call"))
    BY <1>a, <2>1, FirstOf DEF Spoken
  <2> QED
    BY <2>1, <2>2, <2>3 DEF Spoken
<1>3. ASSUME a # <<>> PROVE Spoken(t, W, Tail(a), b, alive)
  <2>1. Range(a) = {Head(a)} \cup Range(Tail(a)) /\ Pairwise(Tail(a), OneOf("result"))
    BY <1>3, RangeTail, PairwiseTail DEF Spoken
  <2> QED
    BY <2>1 DEF Spoken
<1>4. ASSUME b # <<>> PROVE Spoken(t, W, a, Tail(b), alive)
  <2>1. Range(b) = {Head(b)} \cup Range(Tail(b)) /\ Pairwise(Tail(b), OneOf("call"))
    BY <1>4, RangeTail, PairwiseTail DEF Spoken
  <2> QED
    BY <2>1 DEF Spoken
<1> QED
  BY <1>1, <1>2, <1>3, <1>4

\* The master answers.
LEMMA SpokenServe ==
  ASSUME NEW t, NEW W, NEW a \in Seq(ToWorker), NEW b \in Seq(ToMaster), b # <<>>,
         Spoken(t, W, a, b, TRUE), Head(b).type = "call", NEW e \in Replies,
         e.key = <<Head(b).fn, Head(b).id>>
  PROVE  Spoken(t, W, Append(a, e), Tail(b), TRUE)
<1>1. a \in Seq(Messages) /\ e \in Messages /\ e \in ToWorker
  BY ChannelMessages DEF Messages, ToWorker
<1>2. /\ Range(b) = {Head(b)} \cup Range(Tail(b)) /\ Range(Append(a, e)) = Range(a) \cup {e}
      /\ Head(b) \in ToMaster /\ Pairwise(Tail(b), OneOf("call"))
      /\ \A m \in Range(Tail(b)) : <<Head(b), m>> \in OneOf("call")
  <2>1. Range(Append(a, e)) = Range(a) \cup {e}
    BY <1>1, RangeAppend
  <2>2. Range(b) = {Head(b)} \cup Range(Tail(b)) /\ Head(b) \in ToMaster
    BY RangeTail
  <2>3. Pairwise(b, OneOf("call"))
    BY DEF Spoken
  <2> QED
    BY <2>1, <2>2, <2>3, PairwiseTail
<1>3. \A m \in Range(Tail(b)) : m.type # "call"
  BY <1>2 DEF OneOf
<1>4. \A m \in Range(a) : m.type # "result"
  BY <1>2 DEF Spoken
<1>5. Pairwise(Append(a, e), OneOf("result"))
  BY <1>1, <1>4, FirstOf DEF Spoken
<1>6. Head(b).fn = t.stage /\ Head(b).id = t.id /\ t.stage \in Funs
  BY <1>2, MessageShape DEF Spoken
<1>7. e.key \in W
  BY <1>6 DEF Spoken
<1> QED
  BY <1>2, <1>3, <1>4, <1>5, <1>7 DEF Spoken

\* A worker and the master keep to their dialogue: one call, then its answer.
LEMMA DialogueStep ==
  ASSUME TypeInv, GoneForGood, Dialogue, [Next]_vars
  PROVE  Dialogue'
<1>a. /\ toW \in [Workers -> Seq(ToWorker)] /\ pend \in [Workers -> Seq(Asked)]
      /\ toM \in [Workers -> Seq(ToMaster)] /\ ChannelsTyped
      /\ waitW \in [Workers -> SUBSET (Funs \X Requests)]
      /\ task \in [Workers -> [stage: Stages, id: 0..MaxRequests, url: Urls \cup {None}]]
      /\ status \in [Workers -> {"unborn", "booting", "ready", "dying", "dead"}]
  BY DEF TypeInv, ChannelsTyped, WaitsTyped, TasksTyped, ProcsTyped
<1>b. \A w \in Workers : Spoken(task[w], waitW[w], toW[w], toM[w], Alive(w))
  BY DEF Dialogue
<1>c. \A w \in Workers : toW[w] \in Seq(ToWorker) /\ toM[w] \in Seq(ToMaster)
  BY <1>a
<1>d. ASSUME NEW w \in Workers, Alive(w)', NEW answered,
             NEW t \in [stage: Funs, id: Requests, url: Urls], NEW size,
             IF t.stage = "set" THEN size \in Sizes ELSE size = 0,
             CallMaster(w, t, size, answered), waitW[w] \subseteq answered,
             toW'[w] \in Seq(ToWorker), Quiet(toW'[w], toM[w])
      PROVE  Spoken(task[w], waitW[w], toW[w], toM[w], Alive(w))'
  <2> DEFINE m == [type |-> "call", fn |-> t.stage, id |-> t.id, url |-> t.url, size |-> size]
  <2>1. m \in ToMaster /\ m.type = "call" /\ m.fn = t.stage /\ m.id = t.id
    BY <1>d DEF ToMaster, Looks, Stores, Funs
  <2>2. toM'[w] = Append(toM[w], m) /\ task'[w] = t /\ waitW'[w] = {<<t.stage, t.id>>}
    BY <1>a, <1>d DEF CallMaster
  <2> HIDE DEF m
  <2>3. Spoken(t, {<<t.stage, t.id>>}, toW'[w], Append(toM[w], m), Alive(w)')
    BY <1>c, <1>d, <2>1, QuietCall
  <2> QED
    BY <2>2, <2>3
<1>e. ASSUME NEW w \in Workers, NEW t, t.stage \notin Funs, task'[w] = t, waitW'[w] = {},
             toM'[w] = toM[w], toW'[w] \in Seq(ToWorker), Quiet(toW'[w], toM[w])
      PROVE  Spoken(task[w], waitW[w], toW[w], toM[w], Alive(w))'
  BY <1>c, <1>e, QuietIdle
<1>1. ASSUME NEW w \in Workers, NEW u \in Urls, StartRequest(w, u) PROVE Dialogue'
  <2>1. /\ toW' = toW /\ status' = status /\ Alive(w) /\ Alive(w)' /\ task[w].stage \notin Funs
        /\ waitW[w] = {}
    <3>1. toW' = toW /\ status' = status /\ Alive(w) /\ Alive(w)'
      BY <1>1 DEF StartRequest, procs, Alive
    <3>2. task[w].stage \notin Funs
      BY <1>1 DEF StartRequest, Idle, Funs
    <3>3. Spoken(task[w], waitW[w], toW[w], toM[w], Alive(w))
      BY <1>b
    <3> QED
      BY <3>1, <3>2, <3>3 DEF Spoken
  <2>2. Quiet(toW'[w], toM[w]) /\ toW'[w] \in Seq(ToWorker)
    BY <1>b, <1>c, <2>1, SpokenQuiet
  <2>3. Spoken(task[w], waitW[w], toW[w], toM[w], Alive(w))'
    <3>1. CASE CallMaster(w, [stage |-> "has", id |-> issued + 1, url |-> u], 0, {})
      <4>1. [stage |-> "has", id |-> issued + 1, url |-> u]
              \in [stage: Funs, id: Requests, url: Urls]
        BY <1>1, StartTask DEF Funs
      <4> QED
        BY <1>d, <2>1, <2>2, <3>1, <4>1
    <3>2. CASE /\ task' = [task EXCEPT ![w] =
                    [stage |-> "fetch", id |-> issued + 1, url |-> None]]
               /\ UNCHANGED <<waitW, toM>>
      <4>1. task'[w] = [stage |-> "fetch", id |-> issued + 1, url |-> None]
        BY <1>a, <3>2
      <4>2. task'[w].stage \notin Funs /\ waitW'[w] = {} /\ toM'[w] = toM[w]
        BY <2>1, <3>2, <4>1 DEF Funs
      <4> QED
        BY <1>e, <2>2, <4>2
    <3> QED
      BY <1>1, <3>1, <3>2, StartTask
  <2>4. ASSUME NEW v \in Workers, v # w
        PROVE  Spoken(task[v], waitW[v], toW[v], toM[v], Alive(v))'
    <3>1. UNCHANGED <<task[v], waitW[v], toM[v]>>
      BY <1>1, <1>a, <2>4 DEF StartRequest, CallMaster
    <3> QED
      BY <1>b, <2>1, <3>1 DEF Alive
  <2> QED
    BY <2>3, <2>4 DEF Dialogue
<1>2. ASSUME NEW w \in Workers, Fetched(w) PROVE Dialogue'
  <2>1. /\ toW' = toW /\ status' = status /\ Alive(w) /\ Alive(w)' /\ task[w].stage \notin Funs
        /\ waitW[w] = {}
    <3>1. toW' = toW /\ status' = status /\ Alive(w) /\ Alive(w)'
      BY <1>2 DEF Fetched, procs, Alive
    <3>2. task[w].stage \notin Funs
      BY <1>2 DEF Fetched, Funs
    <3>3. Spoken(task[w], waitW[w], toW[w], toM[w], Alive(w))
      BY <1>b
    <3> QED
      BY <3>1, <3>2, <3>3 DEF Spoken
  <2>2. Quiet(toW'[w], toM[w]) /\ toW'[w] \in Seq(ToWorker)
    BY <1>b, <1>c, <2>1, SpokenQuiet
  <2> DEFINE t == [stage |-> "set", id |-> task[w].id, url |-> task[w].url]
  <2>3. Spoken(task[w], waitW[w], toW[w], toM[w], Alive(w))'
    <3>1. ASSUME NEW size \in Sizes, task[w].url \in Urls, CallMaster(w, t, size, {})
          PROVE  Spoken(task[w], waitW[w], toW[w], toM[w], Alive(w))'
      <4>1. t \in [stage: Funs, id: Requests, url: Urls]
        BY <1>2, <3>1, FetchedTask DEF Funs
      <4> QED
        BY <1>d, <2>1, <2>2, <3>1, <4>1
    <3>2. CASE task' = [task EXCEPT ![w] = Idle] /\ UNCHANGED <<waitW, toM>>
      <4>1. task'[w] = Idle
        BY <1>a, <3>2
      <4>2. task'[w].stage \notin Funs /\ waitW'[w] = {} /\ toM'[w] = toM[w]
        BY <2>1, <3>2, <4>1 DEF Funs, Idle
      <4> QED
        BY <1>e, <2>2, <4>2
    <3> QED
      BY <1>2, <3>1, <3>2, FetchedTask
  <2>4. ASSUME NEW v \in Workers, v # w
        PROVE  Spoken(task[v], waitW[v], toW[v], toM[v], Alive(v))'
    <3>1. UNCHANGED <<task[v], waitW[v], toM[v]>>
      BY <1>2, <1>a, <2>4 DEF Fetched, CallMaster, EndRequest
    <3> QED
      BY <1>b, <2>1, <3>1 DEF Alive
  <2> QED
    BY <2>3, <2>4 DEF Dialogue
<1>3. ASSUME NEW w \in Workers, WorkerReceives(w) PROVE Dialogue'
  <2> DEFINE m == Head(toW[w])
  <2>1. /\ toW[w] # <<>> /\ toW' = [toW EXCEPT ![w] = Tail(@)]
        /\ status' = status /\ Alive(w) /\ Alive(w)' /\ m \in ToWorker
    BY <1>3, <1>a, HeadTyped DEF WorkerReceives, procs, Alive
  <2>2. toW'[w] = Tail(toW[w]) /\ Tail(toW[w]) \in Seq(ToWorker)
    BY <1>a, <2>1, HeadTyped
  <2>3. Spoken(task[w], waitW[w], toW[w], toM[w], TRUE)
    BY <1>b, <2>1
  <2>4. Spoken(task[w], waitW[w], Tail(toW[w]), toM[w], TRUE)
    BY <1>c, <2>1, <2>3, SpokenOthers
  <2>5. Spoken(task[w], waitW[w], toW[w], toM[w], Alive(w))'
    <3>1. CASE m.type = "call" /\ OnCall(w, m) /\ UNCHANGED <<waitW, task>>
      <4>1. CASE toM' = toM
        BY <2>1, <2>2, <2>4, <3>1, <4>1
      <4>2. CASE toM' # toM
        <5> DEFINE n == [type |-> "result", key |-> m.key, val |-> data[w]]
        <5>1. toM' = [toM EXCEPT ![w] = Append(@, n)]
          BY <3>1, <4>2 DEF OnCall
        <5>2. n \in Counts
          BY <2>1, <3>1, ReplyShape DEF Counts, TypeInv, StatsTyped
        <5>3. toM'[w] = Append(toM[w], n)
          BY <1>a, <5>1
        <5>4. Spoken(task[w], waitW[w], Tail(toW[w]), Append(toM[w], n), TRUE)
          BY <1>c, <2>2, <2>4, <5>2, SpokenOthers
        <5> QED
          BY <2>1, <2>2, <3>1, <5>3, <5>4
      <4> QED
        BY <4>1, <4>2
    <3>2. CASE m.type = "result" /\ OnResult(w, m)
      <4>1. Quiet(toW'[w], toM[w]) /\ waitW[w] = {m.key}
        <5>1. Quiet(Tail(toW[w]), toM[w]) /\ waitW[w] = {Head(toW[w]).key}
          BY <1>c, <2>1, <2>3, <3>2, SpokenQuiet
        <5> QED
          BY <2>2, <5>1
      <4> DEFINE t == [stage |-> "get", id |-> task[w].id, url |-> task[w].url]
      <4>2. CASE CallMaster(w, t, 0, {m.key})
        <5>1. t \in [stage: Funs, id: Requests, url: Urls] /\ t.stage # "set"
          BY <3>2, AnsweredTask DEF Funs
        <5> HIDE DEF t
        <5> QED
          BY <1>d, <2>1, <2>2, <4>1, <4>2, <5>1
      <4>3. CASE /\ toM' = toM /\ waitW' = [waitW EXCEPT ![w] = @ \ {m.key}]
                 /\ \/ task' = [task EXCEPT ![w] = Idle]
                    \/ task' = [task EXCEPT ![w] =
                         [stage |-> "fetch", id |-> task[w].id, url |-> task[w].url]]
        <5>1. waitW'[w] = {} /\ toM'[w] = toM[w]
          BY <1>a, <4>1, <4>3
        <5>2. \/ task'[w] = Idle
              \/ task'[w] = [stage |-> "fetch", id |-> task[w].id, url |-> task[w].url]
          BY <1>a, <4>3
        <5>3. task'[w].stage \notin Funs
          BY <5>2 DEF Funs, Idle
        <5> QED
          BY <1>e, <2>2, <4>1, <5>1, <5>3
      <4> QED
        BY <3>2, <4>2, <4>3, AnsweredTask
    <3> QED
      BY <1>3, <3>1, <3>2 DEF WorkerReceives
  <2>6. ASSUME NEW v \in Workers, v # w
        PROVE  Spoken(task[v], waitW[v], toW[v], toM[v], Alive(v))'
    <3>1. UNCHANGED <<task[v], waitW[v], toM[v], toW[v]>>
      BY <1>3, <1>a, <2>6 DEF WorkerReceives, OnCall, OnResult, CallMaster, EndRequest
    <3> QED
      BY <1>b, <2>1, <3>1 DEF Alive
  <2> QED
    BY <2>5, <2>6 DEF Dialogue
<1>4. ASSUME NEW w \in Workers, Boot(w) PROVE Dialogue'
  <2>1. UNCHANGED <<toW, waitW, task>> /\ toM' = [toM EXCEPT ![w] = @ \o LateAnswers(w)]
        /\ \A v \in Workers : Alive(v)' = Alive(v)
    BY <1>4, <1>a DEF Boot, LateAnswers, Alive, requests
  <2>2. toM[w] \in Seq(Messages) /\ LateAnswers(w) \in Seq(Messages)
        /\ LateAnswers(w) \in Seq(ToMaster)
    BY <1>a, <1>c, BootAnswers, ChannelMessages
  <2>3. Range(toM[w] \o LateAnswers(w)) = Range(toM[w]) \cup Range(LateAnswers(w))
        /\ Range(toM[w]) \subseteq Messages /\ Range(LateAnswers(w)) \subseteq Messages
    BY <2>2, RangeConcatenation, RangeType
  <2>4. \A m \in Range(LateAnswers(w)) : m.type = "result"
    BY <1>a, BootAnswers
  <2>5. Pairwise(toM[w], OneOf("call")) /\ Pairwise(LateAnswers(w), OneOf("call"))
    BY <1>b, <2>2, <2>4, NoneOf DEF Spoken
  <2>6. \A m \in Range(toM[w]), n \in Range(LateAnswers(w)) :
          <<m, n>> \in OneOf("call") /\ <<n, m>> \in OneOf("call")
    BY <2>3, <2>4 DEF OneOf
  <2>7. Pairwise(toM[w] \o LateAnswers(w), OneOf("call"))
    BY <2>2, <2>5, <2>6, PairwiseConcat
  <2>8. Spoken(task[w], waitW[w], toW[w], toM[w] \o LateAnswers(w), Alive(w))
    <3>1. Spoken(task[w], waitW[w], toW[w], toM[w], Alive(w))
      BY <1>b
    <3> QED
      BY <2>3, <2>4, <2>7, <3>1 DEF Spoken
  <2> QED
    BY <1>a, <1>b, <2>1, <2>8 DEF Dialogue
<1>5. ASSUME NEW w \in Workers, MasterReceives(w) PROVE Dialogue'
  <2> DEFINE m == Head(toM[w])
  <2>1. /\ toM[w] # <<>> /\ toM' = [toM EXCEPT ![w] = Tail(@)] /\ UNCHANGED <<waitW, task, status>>
        /\ m \in ToMaster
    BY <1>5, <1>a, HeadTyped DEF MasterReceives, procs, requests
  <2>2. Spoken(task[w], waitW[w], toW[w], Tail(toM[w]), Alive(w))
    BY <1>b, <1>c, <2>1, SpokenOthers
  <2>3. CASE toW' = toW
    BY <1>a, <1>b, <2>1, <2>2, <2>3 DEF Dialogue, Alive
  <2>4. CASE m.type = "call" /\ Serve(w, m) /\ toW' # toW
    <3>1. PICK e \in Replies :
            /\ e = [type |-> "result", key |-> <<m.fn, m.id>>, val |-> e.val]
            /\ toW' = IF Alive(w) THEN [toW EXCEPT ![w] = Append(@, e)] ELSE toW
      BY <2>1, <2>4, ServeAnswers
    <3>2. e.key = <<m.fn, m.id>> /\ Alive(w) /\ toW' = [toW EXCEPT ![w] = Append(@, e)]
      BY <2>4, <3>1
    <3>3. Spoken(task[w], waitW[w], toW[w], toM[w], TRUE)
      BY <1>b, <3>2
    <3>4. Spoken(task[w], waitW[w], Append(toW[w], e), Tail(toM[w]), TRUE)
      BY <1>c, <2>1, <2>4, <3>2, <3>3, SpokenServe
    <3>5. ASSUME NEW v \in Workers PROVE Spoken(task[v], waitW[v], toW[v], toM[v], Alive(v))'
      <4>1. CASE v = w
        <5>1. toW'[w] = Append(toW[w], e) /\ toM'[w] = Tail(toM[w]) /\ Alive(w)'
          BY <1>a, <2>1, <3>2 DEF Alive
        <5> QED
          BY <2>1, <3>4, <4>1, <5>1
      <4>2. CASE v # w
        <5>1. toW'[v] = toW[v] /\ toM'[v] = toM[v] /\ Alive(v)' = Alive(v)
          BY <1>a, <2>1, <3>2, <4>2 DEF Alive
        <5> QED
          BY <1>b, <2>1, <5>1
      <4> QED
        BY <4>1, <4>2
    <3> QED
      BY <3>5 DEF Dialogue
  <2> QED
    BY <1>5, <2>3, <2>4 DEF MasterReceives
<1>6. ASSUME NEW W, WorkerGone(W), toM' = toM,
             \A v \in Workers : v \in W => ~Alive(v)',
             \A v \in Workers : v \notin W => Alive(v)' = Alive(v) \/ toM[v] = <<>>
      PROVE  Dialogue'
  <2>1. ASSUME NEW v \in Workers PROVE Spoken(task[v], waitW[v], toW[v], toM[v], Alive(v))'
    <3>1. CASE v \in W
      <4>1. toW'[v] = <<>> /\ waitW'[v] = {} /\ task'[v] = Idle
        BY <1>6, <3>1 DEF WorkerGone
      <4>2. Alive(v)' = FALSE
        BY <1>6, <3>1 DEF Alive
      <4>3. Pairwise(toM[v], OneOf("call"))
        BY <1>b DEF Spoken
      <4>4. Spoken(Idle, {}, <<>>, toM[v], FALSE)
        BY <4>3, RangeEmpty, PairwiseEmpty DEF Spoken, Idle, Funs
      <4> QED
        BY <1>6, <4>1, <4>2, <4>4
    <3>2. CASE v \notin W
      <4>1. toW'[v] = toW[v] /\ waitW'[v] = waitW[v] /\ task'[v] = task[v]
        BY <1>6, <3>2 DEF WorkerGone
      <4>2. Spoken(task[v], waitW[v], toW[v], toM[v], Alive(v)')
        BY <1>6, <1>b, <3>2, RangeEmpty DEF Spoken
      <4> QED
        BY <1>6, <4>1, <4>2
    <3> QED
      BY <3>1, <3>2
  <2> QED
    BY <2>1 DEF Dialogue
<1>7. ASSUME NEW w \in Workers, WorkerDies(w) PROVE Dialogue'
  <2>1. /\ WorkerGone({w}) /\ toM' = toM /\ ~Alive(w)'
        /\ \A v \in Workers : v # w => Alive(v)' = Alive(v)
    BY <1>7, <1>a DEF WorkerDies, Alive
  <2> QED
    BY <1>6, <2>1
<1>8. ASSUME NEW w \in Workers, ExitSeen(w) PROVE Dialogue'
  <2>1. UNCHANGED <<toW, waitW, task>> /\ toM' = [toM EXCEPT ![w] = <<>>]
        /\ ~Alive(w) /\ ~Alive(w)'
        /\ \A v \in Workers : v # w => Alive(v)' = Alive(v) \/ status[v] = "unborn"
    BY <1>8, <1>a DEF ExitSeen, Forked, Fresh, Alive, requests
  <2>2. ASSUME NEW v \in Workers PROVE Spoken(task[v], waitW[v], toW[v], toM[v], Alive(v))'
    <3>1. CASE v = w \/ status[v] = "unborn"
      <4>1. toW[v] = <<>> /\ waitW[v] = {} /\ task[v] = Idle
        BY <2>1, <3>1 DEF GoneForGood, Lifeless, Alive
      <4>2. toM'[v] = <<>>
        BY <1>a, <2>1, <3>1 DEF GoneForGood, Lifeless
      <4>3. Spoken(Idle, {}, <<>>, <<>>, Alive(v)')
        BY RangeEmpty, PairwiseEmpty DEF Spoken, Idle, Funs
      <4> QED
        BY <2>1, <4>1, <4>2, <4>3
    <3>2. CASE v # w /\ status[v] # "unborn"
      <4>1. toM'[v] = toM[v] /\ Alive(v)' = Alive(v)
        BY <1>a, <2>1, <3>2
      <4> QED
        BY <1>b, <2>1, <4>1
    <3> QED
      BY <3>1, <3>2
  <2> QED
    BY <2>2 DEF Dialogue
<1>9. ASSUME NEW f \in Mgrs, FlushStarts(f) PROVE Dialogue'
  <2>1. UNCHANGED <<toM, waitW, task, status>>
        /\ toW' = [w \in Workers |-> IF w \in Listed /\ status[w] # "dying"
                     THEN Append(toW[w], [type |-> "call", key |-> Key(w, f)]) ELSE toW[w]]
    BY <1>9 DEF FlushStarts, procs, requests
  <2>2. ASSUME NEW v \in Workers
        PROVE  Spoken(task[v], waitW[v], Append(toW[v], [type |-> "call", key |-> Key(v, f)]),
                      toM[v], Alive(v))
    <3>1. [type |-> "call", key |-> Key(v, f)] \in Asked
      BY DEF Asked, Key, Keys, TypeInv, ProcsTyped
    <3> QED
      BY <1>b, <1>c, <3>1, SpokenOthers
  <2> QED
    BY <1>b, <2>1, <2>2 DEF Dialogue, Alive
<1>10. CASE Restart
  <2>1. /\ WorkerGone(Listed) /\ toM' = toM
        /\ \A v \in Workers : v \in Listed => ~Alive(v)'
        /\ \A v \in Workers : v \notin Listed => Alive(v)' = Alive(v) \/ status[v] = "unborn"
    BY <1>10, <1>a DEF Restart, Listed, Forked, Fresh, Alive
  <2>2. \A v \in Workers : v \notin Listed => Alive(v)' = Alive(v) \/ toM[v] = <<>>
    BY <2>1 DEF GoneForGood, Lifeless
  <2> QED
    BY <1>6, <2>1, <2>2
<1>11. CASE \/ \E f \in Mgrs : FlushCollected(f) \/ SendStat(f)
            \/ Expire \/ Tick \/ Reconf
            \/ UNCHANGED vars
  <2>1. UNCHANGED <<toW, toM, waitW, task, status>>
    BY <1>11 DEF FlushCollected, SendStat, Expire, Tick, Reconf, vars, ipc, procs, requests
  <2> QED
    BY <1>b, <2>1 DEF Dialogue, Alive
<1> QED
  BY <1>1, <1>2, <1>3, <1>4, <1>5, <1>7, <1>8, <1>9, <1>10, <1>11 DEF Next

-----------------------------------------------------------------------------
(***************************************************************************)
(* The numbers of the requests.  No two workers handle, or speak of, the   *)
(* same request; what a request stores is stored once.                     *)
(***************************************************************************)

Told(w) == {m \in Range(toM[w]) : m.type = "call"}

OwnNumbers ==
  /\ \A v, w \in Workers : v # w /\ Busy(v) => task[v].id # task[w].id
  /\ \A v \in Workers : \A m \in Told(v) : m.id <= issued
  /\ \A v, w \in Workers : \A m \in Told(v) :
       v # w => task[w].id # m.id /\ \A n \in Told(w) : m.id # n.id
StoredOnce ==
  \A t \in timers :
    /\ t.id <= issued
    /\ \A w \in Workers : task[w].id = t.id => task[w].stage = "set"
    /\ \A w \in Workers : \A m \in Told(w) : m.fn = "set" => m.id # t.id
Numbers == OwnNumbers /\ StoredOnce

\* Numbers of requests, wherever they are, are numbers.
LEMMA NumberTypes ==
  ASSUME TypeInv
  PROVE  /\ issued \in Nat
         /\ \A w \in Workers : /\ task[w].id \in Nat /\ task[w].id <= issued
                               /\ task[w].id = 0 <=> ~Busy(w)
                               /\ \A m \in Told(w) : /\ m \in ToMaster /\ m.id \in Nat /\ m.id # 0
                                                     /\ m.fn \in Funs
         /\ \A t \in timers : t.id \in Nat /\ t.id # 0
<1>1. issued \in Nat
  BY BoundsAssumption DEF TypeInv, TasksTyped
<1>2. ASSUME NEW w \in Workers
      PROVE  task[w].id \in Nat /\ task[w].id <= issued /\ (task[w].id = 0 <=> ~Busy(w))
  <2>1. TaskTyped(w)
    BY DEF TypeInv, TasksTyped
  <2> QED
    BY <1>1, <2>1 DEF TaskTyped
<1>3. ASSUME NEW w \in Workers, NEW m \in Told(w)
      PROVE  m \in ToMaster /\ m.id \in Nat /\ m.id # 0 /\ m.fn \in Funs
  <2>1. m \in ToMaster /\ m.type = "call"
    BY HeadTyped, RangeType DEF Told, TypeInv
  <2>2. m.id \in Requests /\ m.fn \in Funs
    BY <2>1, MessageShape
  <2> QED
    BY <2>1, <2>2, BoundsAssumption DEF Requests
<1>4. \A t \in timers : t.id \in Nat /\ t.id # 0
  BY BoundsAssumption DEF TypeInv, EntriesTyped, Requests
<1> QED
  BY <1>1, <1>2, <1>3, <1>4

\* One worker goes on: with the request it has, without one, or with a new one.
LEMMA AdvanceNumbers ==
  ASSUME TypeInv, TypeInv', Numbers, NEW w \in Workers, timers' = timers, issued <= issued',
         \A v \in Workers : v # w => task'[v] = task[v] /\ Told(v)' = Told(v),
         \/ task'[w].id = 0
         \/ /\ task'[w].id = task[w].id
            /\ task[w].stage = "set" => task'[w].stage = "set"
         \/ task'[w].id = issued + 1,
         \A m \in Told(w)' :
           \/ m \in Told(w)
           \/ /\ task'[w].id # 0 /\ m.id = task'[w].id
              /\ m.fn = "set" => task'[w].id = task[w].id /\ task[w].stage = "fetch"
  PROVE  Numbers'
<1>1. /\ issued \in Nat
      /\ \A v \in Workers : /\ task[v].id \in Nat /\ task[v].id <= issued
                            /\ task[v].id = 0 <=> ~Busy(v)
                            /\ \A m \in Told(v) : m.id \in Nat /\ m.id # 0
      /\ \A t \in timers : t.id \in Nat /\ t.id # 0
  BY NumberTypes
<1>2. /\ task'[w].id \in Nat /\ task'[w].id <= issued' /\ (task'[w].id = 0 <=> ~Busy(w)')
      /\ issued' \in Nat
  <2>1. issued' \in Nat /\ TaskTyped(w)'
    BY BoundsAssumption DEF TypeInv, TasksTyped
  <2> QED
    BY <2>1 DEF TaskTyped
<1>3. \A v \in Workers : v # w => (Busy(v)' <=> Busy(v))
  BY DEF Busy
<1>4. \A v \in Workers : v # w => task'[w].id # task[v].id \/ task'[w].id = 0
  BY <1>1 DEF Numbers, OwnNumbers
<1>5. \A v \in Workers : \A m \in Told(v) : v # w => task'[w].id # m.id
  BY <1>1 DEF Numbers, OwnNumbers
<1>6. \A m \in Told(w)' : m.id \in Nat /\ m.id # 0 /\ m.id <= issued'
  BY <1>1, <1>2 DEF Numbers, OwnNumbers
<1>7. \A v \in Workers : \A m \in Told(w)' : v # w => m.id # task[v].id
  BY <1>1, <1>4 DEF Numbers, OwnNumbers
<1>8. \A v \in Workers : \A m \in Told(w)' : v # w => \A n \in Told(v) : m.id # n.id
  BY <1>5 DEF Numbers, OwnNumbers
<1>9. OwnNumbers'
  <2>1. \A u, v \in Workers : u # v /\ Busy(u)' => task'[u].id # task'[v].id
    BY <1>1, <1>2, <1>3, <1>4 DEF Numbers, OwnNumbers
  <2>2. \A v \in Workers : \A m \in Told(v)' : m.id <= issued'
    <3> SUFFICES ASSUME NEW v \in Workers, NEW m \in Told(v)', v # w PROVE m.id <= issued'
      BY <1>6
    <3>1. m.id <= issued /\ m.id \in Nat
      BY <1>1 DEF Numbers, OwnNumbers
    <3> QED
      BY <1>1, <1>2, <3>1
  <2>3. ASSUME NEW u \in Workers, NEW v \in Workers, NEW m \in Told(u)', u # v
        PROVE  task'[v].id # m.id /\ \A n \in Told(v)' : m.id # n.id
    <3>1. CASE u = w
      BY <1>7, <1>8, <2>3, <3>1
    <3>2. CASE v = w
      BY <1>5, <1>8, <2>3, <3>2
    <3>3. CASE u # w /\ v # w
      BY <2>3, <3>3 DEF Numbers, OwnNumbers
    <3> QED
      BY <3>1, <3>2, <3>3
  <2> QED
    BY <2>1, <2>2, <2>3 DEF OwnNumbers
<1>10. StoredOnce'
  <2> SUFFICES ASSUME NEW t \in timers
               PROVE  /\ t.id <= issued'
                      /\ \A v \in Workers : task'[v].id = t.id => task'[v].stage = "set"
                      /\ \A v \in Workers : \A m \in Told(v)' : m.fn = "set" => m.id # t.id
    BY DEF StoredOnce
  <2>1. t.id <= issued /\ t.id <= issued' /\ t.id # issued + 1
    <3>1. t.id <= issued /\ t.id \in Nat
      BY <1>1 DEF Numbers, StoredOnce
    <3> QED
      BY <1>1, <1>2, <3>1
  <2>2. task'[w].id = t.id => task'[w].stage = "set"
    BY <1>1, <2>1 DEF Numbers, StoredOnce
  <2>3. \A m \in Told(w)' : m.fn = "set" => m.id # t.id
    BY <1>1, <2>1 DEF Numbers, StoredOnce
  <2> QED
    BY <2>1, <2>2, <2>3 DEF Numbers, StoredOnce
<1> QED
  BY <1>9, <1>10 DEF Numbers

\* Tasks that end, calls that are read and timers that fire take nothing away.
LEMMA FewerNumbers ==
  ASSUME TypeInv, Numbers, issued' = issued,
         \A v \in Workers : task'[v] = task[v] \/ task'[v] = Idle,
         \A v \in Workers : Told(v)' \subseteq Told(v),
         \A t \in timers' : \E s \in timers : t.id = s.id
  PROVE  Numbers'
<1>1. \A t \in timers : t.id # 0
  BY NumberTypes
<1>2. \A v \in Workers : /\ task'[v].id # 0 => task'[v] = task[v]
                         /\ Busy(v)' => task'[v] = task[v] /\ Busy(v)
                         /\ \A m \in Told(v) : m.id # 0
  BY NumberTypes DEF Idle, Busy
<1>3. \A v \in Workers : Busy(v) => task[v].id # 0
  BY NumberTypes
<1>4. OwnNumbers'
  BY <1>2, <1>3 DEF Numbers, OwnNumbers
<1>5. StoredOnce'
  BY <1>1, <1>2 DEF Numbers, StoredOnce
<1> QED
  BY <1>4, <1>5 DEF Numbers

\* The calls in a channel, when something is appended, read, or cleared.
LEMMA ToldAppend ==
  ASSUME ChannelsTyped, NEW w \in Workers, NEW m \in ToMaster,
         toM' = [toM EXCEPT ![w] = Append(@, m)]
  PROVE  /\ Told(w)' = Told(w) \cup (IF m.type = "call" THEN {m} ELSE {})
         /\ \A v \in Workers : v # w => Told(v)' = Told(v)
<1>1. toM[w] \in Seq(ToMaster) /\ toM \in [Workers -> Seq(ToMaster)]
  BY DEF ChannelsTyped
<1>2. toM'[w] = Append(toM[w], m) /\ \A v \in Workers : v # w => toM'[v] = toM[v]
  BY <1>1
<1>3. Range(toM'[w]) = Range(toM[w]) \cup {m}
  BY <1>1, <1>2, RangeAppend
<1> QED
  BY <1>2, <1>3 DEF Told

\* Reading a channel takes what it begins with.
LEMMA ToldRead ==
  ASSUME ChannelsTyped, NEW w \in Workers, toM[w] # <<>>, toM' = [toM EXCEPT ![w] = Tail(@)]
  PROVE  /\ Told(w)' \subseteq Told(w)
         /\ Head(toM[w]).type = "call" => Head(toM[w]) \in Told(w)
         /\ \A v \in Workers : v # w => Told(v)' = Told(v)
<1>1. toM[w] \in Seq(ToMaster) /\ toM \in [Workers -> Seq(ToMaster)]
  BY DEF ChannelsTyped
<1>2. toM'[w] = Tail(toM[w]) /\ \A v \in Workers : v # w => toM'[v] = toM[v]
  BY <1>1
<1>3. Range(toM[w]) = {Head(toM[w])} \cup Range(toM'[w])
  BY <1>1, <1>2, RangeTail
<1> QED
  BY <1>2, <1>3 DEF Told

\* The call of a worker for its request.
LEMMA CallTold ==
  ASSUME TypeInv, NEW w \in Workers, NEW size, NEW answered,
         NEW t \in [stage: Funs, id: Requests, url: Urls],
         IF t.stage = "set" THEN size \in Sizes ELSE size = 0,
         CallMaster(w, t, size, answered)
  PROVE  /\ task'[w] = t
         /\ \A v \in Workers : v # w => task'[v] = task[v] /\ Told(v)' = Told(v)
         /\ \A m \in Told(w)' : m \in Told(w) \/ (m.id = t.id /\ m.fn = t.stage)
<1> DEFINE m == [type |-> "call", fn |-> t.stage, id |-> t.id, url |-> t.url, size |-> size]
<1>1. m \in ToMaster /\ m.id = t.id /\ m.fn = t.stage
  BY DEF ToMaster, Looks, Stores, Funs
<1>2. toM' = [toM EXCEPT ![w] = Append(@, m)] /\ task' = [task EXCEPT ![w] = t]
  BY DEF CallMaster
<1> HIDE DEF m
<1>3. /\ Told(w)' = Told(w) \cup (IF m.type = "call" THEN {m} ELSE {})
      /\ \A v \in Workers : v # w => Told(v)' = Told(v)
  BY <1>1, <1>2, ToldAppend DEF TypeInv
<1> QED
  BY <1>1, <1>2, <1>3 DEF TypeInv, TasksTyped

\* The requests keep their numbers to themselves.
LEMMA NumbersStep ==
  ASSUME TypeInv, TypeInv', GoneForGood, Dialogue, Numbers, [Next]_vars
  PROVE  Numbers'
<1>a. /\ toM \in [Workers -> Seq(ToMaster)] /\ ChannelsTyped
      /\ task \in [Workers -> [stage: Stages, id: 0..MaxRequests, url: Urls \cup {None}]]
  BY DEF TypeInv, ChannelsTyped, TasksTyped
<1>b. issued \in Nat /\ issued <= issued /\ \A i \in Requests : i # 0
  BY BoundsAssumption DEF TypeInv, TasksTyped, Requests
<1>1. ASSUME NEW w \in Workers, NEW u \in Urls, StartRequest(w, u) PROVE Numbers'
  <2>1. /\ issued + 1 \in Requests /\ issued <= issued' /\ timers' = timers
    <3>1. issued' = issued + 1 /\ issued + 1 \in Requests /\ timers' = timers
      BY <1>1, StartTask
    <3>2. issued <= issued + 1
      BY <1>b
    <3> QED
      BY <3>1, <3>2
  <2>2. CASE CallMaster(w, [stage |-> "has", id |-> issued + 1, url |-> u], 0, {})
    <3> DEFINE t == [stage |-> "has", id |-> issued + 1, url |-> u]
    <3>1. t \in [stage: Funs, id: Requests, url: Urls] /\ t.stage = "has" /\ t.id = issued + 1
      BY <2>1 DEF Funs
    <3> HIDE DEF t
    <3>2. CallMaster(w, t, 0, {})
      BY <2>2 DEF t
    <3>3. /\ task'[w] = t
          /\ \A v \in Workers : v # w => task'[v] = task[v] /\ Told(v)' = Told(v)
          /\ \A m \in Told(w)' : m \in Told(w) \/ (m.id = t.id /\ m.fn = t.stage)
      BY <3>1, <3>2, CallTold
    <3> QED
      BY <1>b, <2>1, <3>1, <3>3, AdvanceNumbers
  <2>3. CASE /\ task' = [task EXCEPT ![w] =
                  [stage |-> "fetch", id |-> issued + 1, url |-> None]]
             /\ UNCHANGED <<waitW, toM>>
    <3>1. task'[w].id = issued + 1 /\ \A v \in Workers : v # w => task'[v] = task[v]
      BY <1>a, <2>3
    <3>2. \A v \in Workers : Told(v)' = Told(v)
      BY <2>3 DEF Told
    <3> QED
      BY <2>1, <3>1, <3>2, AdvanceNumbers
  <2> QED
    BY <1>1, <2>2, <2>3, StartTask
<1>2. ASSUME NEW w \in Workers, Fetched(w) PROVE Numbers'
  <2>1. /\ timers' = timers /\ issued' = issued /\ issued <= issued'
        /\ task[w].stage = "fetch" /\ task[w].id \in Requests
    BY <1>2, <1>b, FetchedTask
  <2>2. ASSUME NEW size \in Sizes, task[w].url \in Urls,
               CallMaster(w, [stage |-> "set", id |-> task[w].id, url |-> task[w].url], size, {})
        PROVE  Numbers'
    <3> DEFINE t == [stage |-> "set", id |-> task[w].id, url |-> task[w].url]
    <3>1. t \in [stage: Funs, id: Requests, url: Urls] /\ t.stage = "set" /\ t.id = task[w].id
      BY <2>1, <2>2 DEF Funs
    <3> HIDE DEF t
    <3>2. CallMaster(w, t, size, {})
      BY <2>2 DEF t
    <3>3. /\ task'[w] = t
          /\ \A v \in Workers : v # w => task'[v] = task[v] /\ Told(v)' = Told(v)
          /\ \A m \in Told(w)' : m \in Told(w) \/ (m.id = t.id /\ m.fn = t.stage)
      BY <3>1, <3>2, CallTold
    <3> QED
      BY <1>b, <2>1, <3>1, <3>3, AdvanceNumbers
  <2>3. CASE task' = [task EXCEPT ![w] = Idle] /\ UNCHANGED <<waitW, toM>>
    <3>1. \A v \in Workers : task'[v] = task[v] \/ task'[v] = Idle
      BY <1>a, <2>3
    <3> QED
      BY <2>1, <2>3, <3>1, FewerNumbers DEF Told
  <2> QED
    BY <1>2, <2>2, <2>3, FetchedTask
<1>3. ASSUME NEW w \in Workers, WorkerReceives(w) PROVE Numbers'
  <2>1. timers' = timers /\ issued' = issued /\ issued <= issued'
    BY <1>3, <1>b DEF WorkerReceives, store
  <2>2. ASSUME NEW m \in ToWorker, m.type = "call", OnCall(w, m), task' = task PROVE Numbers'
    <3>1. CASE toM' = toM
      BY <2>1, <2>2, <3>1, FewerNumbers DEF Told
    <3>2. CASE toM' # toM
      <4> DEFINE n == [type |-> "result", key |-> m.key, val |-> data[w]]
      <4>1. toM' = [toM EXCEPT ![w] = Append(@, n)] /\ n.type = "result"
        BY <2>2, <3>2 DEF OnCall
      <4>2. n \in ToMaster
        BY <2>2, ReplyShape DEF ToMaster, Counts, TypeInv, StatsTyped
      <4> HIDE DEF n
      <4>3. \A v \in Workers : Told(v)' = Told(v)
        BY <1>a, <4>1, <4>2, ToldAppend
      <4> QED
        BY <2>1, <2>2, <4>3, FewerNumbers
    <3> QED
      BY <3>1, <3>2
  <2>3. ASSUME NEW m, OnResult(w, m) PROVE Numbers'
    <3> DEFINE t(s) == [stage |-> s, id |-> task[w].id, url |-> task[w].url]
    <3>1. \A s \in {"get", "fetch"} : t(s).stage = s /\ t(s).id = task[w].id /\ task[w].id # 0
      BY <1>b, <2>3, AnsweredTask
    <3>2. t("get") \in [stage: Funs, id: Requests, url: Urls] /\ t("get").stage # "set"
      BY <2>3, AnsweredTask DEF Funs
    <3>3. CASE task[w].stage = "has" /\ CallMaster(w, t("get"), 0, {m.key})
      <4>1. /\ task'[w] = t("get")
            /\ \A v \in Workers : v # w => task'[v] = task[v] /\ Told(v)' = Told(v)
            /\ \A n \in Told(w)' : n \in Told(w) \/ (n.id = t("get").id /\ n.fn = t("get").stage)
        BY <3>2, <3>3, CallTold
      <4> QED
        BY <2>1, <3>1, <3>3, <4>1, AdvanceNumbers
    <3>4. CASE task[w].stage = "has" /\ toM' = toM /\ task' = [task EXCEPT ![w] = t("fetch")]
      <4>1. task'[w] = t("fetch") /\ \A v \in Workers : v # w => task'[v] = task[v]
        BY <1>a, <3>4
      <4>2. \A v \in Workers : Told(v)' = Told(v)
        BY <3>4 DEF Told
      <4> QED
        BY <2>1, <3>1, <3>4, <4>1, <4>2, AdvanceNumbers
    <3>5. CASE toM' = toM /\ task' = [task EXCEPT ![w] = Idle]
      <4>1. \A v \in Workers : task'[v] = task[v] \/ task'[v] = Idle
        BY <1>a, <3>5
      <4> QED
        BY <2>1, <3>5, <4>1, FewerNumbers DEF Told
    <3> QED
      BY <2>3, <3>3, <3>4, <3>5, AnsweredTask
  <2> QED
    BY <1>3, <1>a, <2>2, <2>3, HeadTyped DEF WorkerReceives
<1>4. ASSUME NEW w \in Workers, Boot(w) PROVE Numbers'
  <2>1. UNCHANGED <<timers, issued, task>> /\ toM' = [toM EXCEPT ![w] = @ \o LateAnswers(w)]
    BY <1>4 DEF Boot, LateAnswers, requests, store
  <2>2. Range(toM[w] \o LateAnswers(w)) = Range(toM[w]) \cup Range(LateAnswers(w))
        /\ \A m \in Range(LateAnswers(w)) : m.type = "result"
    BY <1>a, BootAnswers, HeadTyped, RangeConcatenation
  <2>3. \A v \in Workers : Told(v)' \subseteq Told(v)
    BY <1>a, <2>1, <2>2 DEF Told
  <2> QED
    BY <2>1, <2>3, FewerNumbers
<1>5. ASSUME NEW w \in Workers, MasterReceives(w) PROVE Numbers'
  <2> DEFINE m == Head(toM[w])
  <2>1. /\ toM[w] # <<>> /\ toM' = [toM EXCEPT ![w] = Tail(@)] /\ UNCHANGED <<issued, task>>
        /\ m \in ToMaster
    BY <1>5, <1>a, HeadTyped DEF MasterReceives, requests
  <2>2. /\ \A v \in Workers : Told(v)' \subseteq Told(v)
        /\ m.type = "call" => m \in Told(w)
    BY <1>a, <2>1, ToldRead
  <2>3. CASE timers' = timers
    BY <2>1, <2>2, <2>3, FewerNumbers
  <2>4. CASE m.type = "call" /\ Serve(w, m) /\ timers' # timers
    <3> DEFINE t == [id |-> m.id, url |-> m.url, space |-> m.size, left |-> Hour]
    <3>1. m.fn = "set" /\ timers' = timers \cup {t} /\ t.id = m.id
      BY <2>1, <2>4, ServeAnswers DEF store, cache_set
    <3> HIDE DEF t
    <3>2. m \in Told(w) /\ m.id <= issued /\ m.id # 0
      BY <2>2, <2>4, NumberTypes DEF Numbers, OwnNumbers
    <3>3. OwnNumbers'
      BY <2>1, <2>2 DEF Numbers, OwnNumbers, Busy
    <3>4. \A v \in Workers : task[v].id = m.id => task[v].stage = "set"
      <4> SUFFICES ASSUME task[w].id = m.id PROVE task[w].stage = "set"
        BY <3>2 DEF Numbers, OwnNumbers
      <4>1. Alive(w)
        BY <3>2 DEF GoneForGood, Lifeless, Idle
      <4> QED
        BY <3>1, <3>2, <4>1 DEF Dialogue, Spoken, Told
    <3>5. ASSUME NEW v \in Workers, NEW n \in Told(v)', n.fn = "set"
          PROVE  n.id # m.id
      <4>1. CASE v # w
        BY <2>2, <3>2, <4>1 DEF Numbers, OwnNumbers
      <4>2. CASE v = w
        <5>1. Pairwise(toM[w], OneOf("call")) /\ toM[w] \in Seq(ToMaster)
          BY <1>a DEF Dialogue, Spoken
        <5>2. \A o \in Range(Tail(toM[w])) : <<m, o>> \in OneOf("call")
          BY <2>1, <5>1, PairwiseTail
        <5>3. n \in Range(Tail(toM[w])) /\ n.type = "call"
          BY <1>a, <2>1, <4>2 DEF Told
        <5> QED
          BY <2>4, <5>2, <5>3 DEF OneOf
      <4> QED
        BY <4>1, <4>2
    <3>6. StoredOnce'
      BY <2>1, <2>2, <3>1, <3>2, <3>4, <3>5 DEF Numbers, StoredOnce
    <3> QED
      BY <3>3, <3>6 DEF Numbers
  <2> QED
    BY <1>5, <2>3, <2>4 DEF MasterReceives, store
<1>6. ASSUME NEW W, WorkerGone(W), UNCHANGED <<toM, timers, issued>> PROVE Numbers'
  <2>1. \A v \in Workers : task'[v] = task[v] \/ task'[v] = Idle
    BY <1>6 DEF WorkerGone
  <2> QED
    BY <1>6, <2>1, FewerNumbers DEF Told
<1>7. ASSUME NEW w \in Workers, WorkerDies(w) PROVE Numbers'
  BY <1>6, <1>7 DEF WorkerDies, store
<1>8. ASSUME NEW w \in Workers, ExitSeen(w) PROVE Numbers'
  <2>1. UNCHANGED <<timers, issued, task>> /\ toM' = [toM EXCEPT ![w] = <<>>]
    BY <1>8 DEF ExitSeen, requests, store
  <2>2. \A v \in Workers : Told(v)' \subseteq Told(v)
    BY <1>a, <2>1, RangeEmpty DEF Told
  <2> QED
    BY <2>1, <2>2, FewerNumbers
<1>9. CASE Restart
  BY <1>6, <1>9 DEF Restart, store
<1>10. CASE Expire
  BY <1>10, FewerNumbers DEF Expire, ipc, requests, Told
<1>11. CASE Tick
  <2>1. UNCHANGED <<toM, issued, task>> /\ timers' = {[t EXCEPT !.left = @ - 1] : t \in timers}
    BY <1>11 DEF Tick, ipc, requests
  <2>2. \A t \in timers' : \E s \in timers : t.id = s.id
    <3> SUFFICES ASSUME NEW s \in timers PROVE [s EXCEPT !.left = @ - 1].id = s.id
      BY <2>1
    <3> QED
      BY DEF TypeInv, EntriesTyped
  <2> QED
    BY <2>1, <2>2, FewerNumbers DEF Told
<1>12. CASE \/ \E f \in Mgrs : FlushStarts(f) \/ FlushCollected(f) \/ SendStat(f)
            \/ Reconf
            \/ UNCHANGED vars
  <2>1. UNCHANGED <<toM, timers, issued, task>>
    BY <1>12 DEF FlushStarts, FlushCollected, SendStat, Reconf, vars, ipc, requests, store
  <2> QED
    BY <2>1, FewerNumbers DEF Told
<1> QED
  BY <1>1, <1>2, <1>3, <1>4, <1>5, <1>7, <1>8, <1>9, <1>10, <1>11, <1>12 DEF Next

-----------------------------------------------------------------------------
(***************************************************************************)
(* The statistics.  What is counted of a request is in one spot: in its    *)
(* worker, in an answer on its way, in what a manager collects, or in the  *)
(* cloud.                                                                  *)
(***************************************************************************)

ValsApart ==
  {p \in Messages \X Messages :
     p[1].type = "result" /\ p[2].type = "result" => p[1].val \cap p[2].val = {}}
SentIn(s) == {r \in Requests : \E m \in Range(s) : m.type = "result" /\ r \in m.val}
Sent(w) == SentIn(toM[w])

Cloud == <<"cloud", 1>>
Spots == ({"data", "sent"} \X Workers) \cup ({"got"} \X Mgrs) \cup {Cloud}
Hold(p) == IF p[1] = "data" THEN data[p[2]]
           ELSE IF p[1] = "sent" THEN Sent(p[2])
           ELSE IF p[1] = "got" THEN flush[p[2]].got
           ELSE uploaded

\* A request that is over.
Over(r) == r <= issued /\ \A w \in Workers : task[w].id # r

Apart ==
  /\ \A p, q \in Spots : p # q => Hold(p) \cap Hold(q) = {}
  /\ \A p \in Spots : \A r \in Hold(p) : Over(r)
  /\ \A w \in Workers : Pairwise(toM[w], ValsApart)

\* The spots hold requests.
LEMMA HoldRequests ==
  ASSUME TypeInv, NEW p \in Spots
  PROVE  Hold(p) \subseteq Requests
BY DEF Spots, Cloud, Hold, Sent, SentIn, TypeInv, StatsTyped

\* The task of a worker goes on, ends, or is a new one.
LEMMA TaskMoves ==
  ASSUME TypeInv, [Next]_vars
  PROVE  /\ issued' = issued \/ issued' = issued + 1
         /\ \A v \in Workers : task'[v].id \in {task[v].id, 0, issued + 1}
<1>a. task \in [Workers -> [stage: Stages, id: 0..MaxRequests, url: Urls \cup {None}]]
  BY DEF TypeInv, TasksTyped
<1>1. ASSUME NEW w \in Workers, NEW u \in Urls, StartRequest(w, u)
      PROVE  /\ issued' = issued + 1
             /\ \A v \in Workers : task'[v].id \in {task[v].id, issued + 1}
  <2>1. \A v \in Workers : v # w => task'[v] = task[v]
    BY <1>1, <1>a DEF StartRequest, CallMaster
  <2>2. /\ issued' = issued + 1
        /\ \/ task' = [task EXCEPT ![w] = [stage |-> "has", id |-> issued + 1, url |-> u]]
           \/ task' = [task EXCEPT ![w] = [stage |-> "fetch", id |-> issued + 1, url |-> None]]
    BY <1>1, StartTask DEF CallMaster
  <2>3. task'[w].id = issued + 1
    BY <1>a, <2>2
  <2> QED
    BY <2>1, <2>2, <2>3
<1>2. ASSUME NEW w \in Workers, Fetched(w)
      PROVE  issued' = issued /\ \A v \in Workers : task'[v].id \in {task[v].id, 0}
  <2>1. \A v \in Workers : v # w => task'[v] = task[v]
    BY <1>2, <1>a DEF Fetched, CallMaster, EndRequest
  <2>2. /\ issued' = issued
        /\ \/ task' = [task EXCEPT ![w] = [stage |-> "set", id |-> task[w].id, url |-> task[w].url]]
           \/ task' = [task EXCEPT ![w] = Idle]
    BY <1>2, FetchedTask DEF CallMaster
  <2>3. task'[w].id \in {task[w].id, 0}
    BY <1>a, <2>2 DEF Idle
  <2> QED
    BY <2>1, <2>2, <2>3
<1>3. ASSUME NEW w \in Workers, WorkerReceives(w)
      PROVE  issued' = issued /\ \A v \in Workers : task'[v].id \in {task[v].id, 0}
  <2>1. issued' = issued
    BY <1>3 DEF WorkerReceives
  <2>2. CASE task' = task
    BY <2>1, <2>2
  <2>3. ASSUME NEW m, OnResult(w, m)
        PROVE  \A v \in Workers : task'[v].id \in {task[v].id, 0}
    <3>1. \A v \in Workers : v # w => task'[v] = task[v]
      BY <2>3, <1>a DEF OnResult, CallMaster, EndRequest
    <3>2. \/ task' = [task EXCEPT ![w] = [stage |-> "get", id |-> task[w].id, url |-> task[w].url]]
          \/ task' = [task EXCEPT ![w] = [stage |-> "fetch", id |-> task[w].id, url |-> task[w].url]]
          \/ task' = [task EXCEPT ![w] = Idle]
      BY <2>3, AnsweredTask DEF CallMaster
    <3>3. task'[w].id \in {task[w].id, 0}
      BY <1>a, <3>2 DEF Idle
    <3> QED
      BY <3>1, <3>3
  <2> QED
    BY <1>3, <2>1, <2>2, <2>3 DEF WorkerReceives
<1>4. ASSUME NEW W, WorkerGone(W)
      PROVE  \A v \in Workers : task'[v].id \in {task[v].id, 0}
  BY <1>4 DEF WorkerGone, Idle
<1>5. CASE (\E w \in Workers : WorkerDies(w)) \/ Restart
  BY <1>4, <1>5 DEF WorkerDies, Restart
<1>6. CASE \/ \E w \in Workers : Boot(w) \/ MasterReceives(w) \/ ExitSeen(w)
           \/ \E f \in Mgrs : FlushStarts(f) \/ FlushCollected(f) \/ SendStat(f)
           \/ Expire \/ Tick \/ Reconf
           \/ UNCHANGED vars
  BY <1>6 DEF Boot, MasterReceives, ExitSeen, FlushStarts, FlushCollected, SendStat, Expire,
              Tick, Reconf, vars, requests
<1> QED
  BY <1>1, <1>2, <1>3, <1>5, <1>6 DEF Next

\* What is over stays over.
LEMMA OverStays ==
  ASSUME TypeInv, [Next]_vars, NEW r \in Requests, Over(r)
  PROVE  Over(r)'
<1>1. r \in Nat /\ r # 0 /\ issued \in Nat /\ r <= issued
  BY BoundsAssumption DEF Requests, TypeInv, TasksTyped, Over
<1>2. r <= issued' /\ r # issued + 1
  BY <1>1, TaskMoves
<1>3. \A v \in Workers : task'[v].id # r
  BY <1>1, <1>2, TaskMoves DEF Over
<1> QED
  BY <1>2, <1>3 DEF Over

\* Something moves from one spot to another one.
LEMMA MovedApart ==
  ASSUME TypeInv, Apart, [Next]_vars, NEW a \in Spots, NEW b \in Spots,
         \A p \in Spots : p # a /\ p # b => Hold(p)' \subseteq Hold(p),
         Hold(a)' \subseteq Hold(a), Hold(b)' \subseteq Hold(a) \cup Hold(b),
         Hold(a)' \cap Hold(b)' = {} \/ a = b
  PROVE  /\ \A p, q \in Spots : p # q => Hold(p)' \cap Hold(q)' = {}
         /\ \A p \in Spots : \A r \in Hold(p)' : Over(r)'
<1>1. ASSUME NEW p \in Spots, NEW r \in Hold(p)' PROVE Over(r)'
  <2>1. r \in Hold(p) \/ r \in Hold(a)
    OBVIOUS
  <2>2. r \in Requests /\ Over(r)
    BY <2>1, HoldRequests DEF Apart
  <2> QED
    BY <2>2, OverStays
<1>2. \A p, q \in Spots : p # q => Hold(p) \cap Hold(q) = {}
  BY DEF Apart
<1>3. ASSUME NEW p \in Spots, NEW q \in Spots, p # q, NEW r \in Hold(p)', r \in Hold(q)'
      PROVE  FALSE
  <2>1. r \in Hold(p) \/ (p = b /\ r \in Hold(a))
    BY <1>3
  <2>2. r \in Hold(q) \/ (q = b /\ r \in Hold(a))
    BY <1>3
  <2>3. CASE r \in Hold(p) /\ r \in Hold(q)
    BY <1>2, <1>3, <2>3
  <2>4. CASE p = b /\ r \in Hold(a) /\ r \in Hold(q)
    BY <1>2, <1>3, <2>4
  <2>5. CASE q = b /\ r \in Hold(a) /\ r \in Hold(p)
    BY <1>2, <1>3, <2>5
  <2> QED
    BY <1>3, <2>1, <2>2, <2>3, <2>4, <2>5
<1> QED
  BY <1>1, <1>3

\* A request ends, and is counted.
LEMMA CountedApart ==
  ASSUME TypeInv, Apart, OwnNumbers, [Next]_vars, NEW w \in Workers, Busy(w),
         task'[w] = Idle, \A v \in Workers : v # w => task'[v] = task[v],
         issued' = issued,
         Hold(<<"data", w>>)' = Hold(<<"data", w>>) \cup {task[w].id},
         \A p \in Spots : p # <<"data", w>> => Hold(p)' = Hold(p)
  PROVE  /\ \A p, q \in Spots : p # q => Hold(p)' \cap Hold(q)' = {}
         /\ \A p \in Spots : \A r \in Hold(p)' : Over(r)'
<1> DEFINE d == <<"data", w>>
<1>1. task[w].id # 0 /\ task[w].id <= issued
  BY NumberTypes
<1>2. ASSUME NEW r, r = task[w].id PROVE Over(r)'
  <2>1. task'[w].id # r
    BY <1>1, <1>2 DEF Idle
  <2>2. \A v \in Workers : v # w => task'[v].id # r
    BY <1>2 DEF OwnNumbers
  <2>3. r <= issued' /\ \A v \in Workers : task'[v].id # r
    BY <1>1, <1>2, <2>1, <2>2
  <2> QED
    BY <2>3 DEF Over
<1>3. \A p \in Spots : task[w].id \notin Hold(p)
  BY DEF Apart, Over
<1>4. \A p \in Spots : \A r \in Hold(p) : Over(r)'
  BY HoldRequests, OverStays DEF Apart
<1>5. \A p, q \in Spots : p # q => Hold(p) \cap Hold(q) = {}
  BY DEF Apart
<1>6. d \in Spots
  BY DEF Spots
<1> HIDE DEF d
<1>7. Hold(d)' = Hold(d) \cup {task[w].id} /\ \A p \in Spots : p # d => Hold(p)' = Hold(p)
  BY DEF d
<1>8. \A p \in Spots : \A r \in Hold(p)' : Over(r)'
  <2>1. \A p \in Spots : p # d => \A r \in Hold(p)' : Over(r)'
    BY <1>4, <1>7
  <2>2. \A r \in Hold(d)' : Over(r)'
    BY <1>2, <1>4, <1>6, <1>7
  <2> QED
    BY <2>1, <2>2
<1>9. \A p, q \in Spots : p # q => Hold(p)' \cap Hold(q)' = {}
  BY <1>3, <1>5, <1>7
<1> QED
  BY <1>8, <1>9

\* What the answers in a channel hold, when a message is appended ...
LEMMA SentAppend ==
  ASSUME NEW s \in Seq(ToMaster), NEW m \in ToMaster
  PROVE  SentIn(Append(s, m)) = SentIn(s) \cup (IF m.type = "result" THEN m.val ELSE {})
<1>1. Range(Append(s, m)) = Range(s) \cup {m}
  BY RangeAppend
<1>2. m.type = "result" => m.val \subseteq Requests
  BY MessageShape
<1> QED
  BY <1>1, <1>2 DEF SentIn

\* ... and when the first is taken.
LEMMA SentTail ==
  ASSUME NEW s \in Seq(ToMaster), s # <<>>, Pairwise(s, ValsApart)
  PROVE  /\ SentIn(Tail(s)) \subseteq SentIn(s)
         /\ Head(s).type = "result" =>
              Head(s).val \subseteq SentIn(s) /\ Head(s).val \cap SentIn(Tail(s)) = {}
<1>1. Range(s) = {Head(s)} \cup Range(Tail(s)) /\ Head(s) \in ToMaster
  BY RangeTail
<1>2. Head(s).type = "result" => Head(s).val \subseteq Requests
  BY <1>1, MessageShape
<1>3. \A m \in Range(Tail(s)) : <<Head(s), m>> \in ValsApart
  BY PairwiseTail
<1> QED
  BY <1>1, <1>2, <1>3 DEF SentIn, ValsApart

\* Where the spots are, and what they hold.
LEMMA SpotsAre ==
  /\ \A w \in Workers : /\ <<"data", w>> \in Spots /\ Hold(<<"data", w>>) = data[w]
                        /\ <<"sent", w>> \in Spots /\ Hold(<<"sent", w>>) = Sent(w)
  /\ \A f \in Mgrs : <<"got", f>> \in Spots /\ Hold(<<"got", f>>) = flush[f].got
  /\ Cloud \in Spots /\ Hold(Cloud) = uploaded
  /\ \A p \in Spots : \/ \E w \in Workers : p = <<"data", w>> \/ p = <<"sent", w>>
                      \/ \E f \in Mgrs : p = <<"got", f>>
                      \/ p = Cloud
BY DEF Spots, Hold, Cloud

\* They do so after a step.
LEMMA SpotsWillBe ==
  /\ \A w \in Workers : /\ Hold(<<"data", w>>)' = data'[w]
                        /\ Hold(<<"sent", w>>)' = SentIn(toM'[w])
  /\ \A f \in Mgrs : Hold(<<"got", f>>)' = flush'[f].got
  /\ Hold(Cloud)' = uploaded'
BY DEF Hold, Cloud, Sent

\* Nothing is counted anew.
LEMMA ShrunkApart ==
  ASSUME TypeInv, Apart, [Next]_vars,
         \A w \in Workers : data'[w] \subseteq data[w] /\ SentIn(toM'[w]) \subseteq Sent(w),
         \A f \in Mgrs : flush'[f].got \subseteq flush[f].got,
         uploaded' \subseteq uploaded
  PROVE  /\ \A p, q \in Spots : p # q => Hold(p)' \cap Hold(q)' = {}
         /\ \A p \in Spots : \A r \in Hold(p)' : Over(r)'
<1>1. \A p \in Spots : Hold(p)' \subseteq Hold(p)
  BY DEF Spots, Hold, Cloud, Sent
<1>2. Cloud \in Spots
  BY SpotsAre
<1> QED
  BY <1>1, <1>2, MovedApart

\* The answers in the channels stay apart.
LEMMA ValsStep ==
  ASSUME TypeInv, Apart, [Next]_vars, NEW v \in Workers
  PROVE  Pairwise(toM'[v], ValsApart)
<1>a. toM \in [Workers -> Seq(ToMaster)] /\ toM[v] \in Seq(ToMaster) /\ ChannelsTyped
  BY DEF TypeInv, ChannelsTyped
<1>b. Pairwise(toM[v], ValsApart)
  BY DEF Apart
<1>c. \A m \in Range(toM[v]) : m \in ToMaster
  BY <1>a, RangeType
<1>d. \A m, n \in ToMaster :
        (m.type = "result" /\ n.type = "result" => m.val \cap n.val = {})
          => <<m, n>> \in ValsApart /\ <<n, m>> \in ValsApart
  BY DEF ValsApart, Messages
<1>1. CASE toM'[v] = toM[v]
  BY <1>b, <1>1
<1>2. ASSUME NEW t \in [stage: Funs, id: Requests, url: Urls], NEW size, NEW answered,
             IF t.stage = "set" THEN size \in Sizes ELSE size = 0,
             CallMaster(v, t, size, answered)
      PROVE  Pairwise(toM'[v], ValsApart)
  <2> DEFINE m == [type |-> "call", fn |-> t.stage, id |-> t.id, url |-> t.url, size |-> size]
  <2>1. m \in ToMaster /\ m.type # "result"
    BY <1>2 DEF ToMaster, Looks, Stores, Funs
  <2>2. toM' = [toM EXCEPT ![v] = Append(@, m)]
    BY <1>2 DEF CallMaster
  <2> HIDE DEF m
  <2>3. toM'[v] = Append(toM[v], m)
    BY <1>a, <2>2
  <2>4. \A n \in Range(toM[v]) : <<n, m>> \in ValsApart /\ <<m, n>> \in ValsApart
    BY <1>c, <1>d, <2>1
  <2> QED
    BY <1>a, <1>b, <2>1, <2>3, <2>4, PairwiseAppend
<1>3. ASSUME NEW u \in Urls, StartRequest(v, u) PROVE Pairwise(toM'[v], ValsApart)
  <2>1. [stage |-> "has", id |-> issued + 1, url |-> u] \in [stage: Funs, id: Requests, url: Urls]
    BY <1>3, StartTask DEF Funs
  <2> QED
    BY <1>1, <1>2, <1>3, <2>1, StartTask
<1>4. ASSUME Fetched(v) PROVE Pairwise(toM'[v], ValsApart)
  <2>1. CASE toM' = toM
    BY <1>1, <2>1
  <2>2. ASSUME NEW size \in Sizes, task[v].url \in Urls,
               CallMaster(v, [stage |-> "set", id |-> task[v].id, url |-> task[v].url], size, {})
        PROVE  Pairwise(toM'[v], ValsApart)
    <3>1. [stage |-> "set", id |-> task[v].id, url |-> task[v].url]
            \in [stage: Funs, id: Requests, url: Urls]
      BY <1>4, <2>2, FetchedTask DEF Funs
    <3> QED
      BY <1>2, <2>2, <3>1
  <2> QED
    BY <1>4, <2>1, <2>2, FetchedTask
<1>5. ASSUME WorkerReceives(v) PROVE Pairwise(toM'[v], ValsApart)
  <2>1. ASSUME NEW m \in ToWorker, m.type = "call", OnCall(v, m), toM' # toM
        PROVE  Pairwise(toM'[v], ValsApart)
    <3> DEFINE n == [type |-> "result", key |-> m.key, val |-> data[v]]
    <3>1. toM' = [toM EXCEPT ![v] = Append(@, n)]
      BY <2>1 DEF OnCall
    <3>2. n \in ToMaster /\ n.val = data[v]
      BY <2>1, ReplyShape DEF ToMaster, Counts, TypeInv, StatsTyped
    <3> HIDE DEF n
    <3>3. toM'[v] = Append(toM[v], n)
      BY <1>a, <3>1
    <3>4. data[v] \cap Sent(v) = {}
      <4>1. <<"data", v>> # <<"sent", v>>
        OBVIOUS
      <4> QED
        BY <4>1, SpotsAre DEF Apart
    <3>5. \A o \in Range(toM[v]) : <<o, n>> \in ValsApart /\ <<n, o>> \in ValsApart
      <4> SUFFICES ASSUME NEW o \in Range(toM[v]), o.type = "result"
                   PROVE  o.val \cap n.val = {}
        BY <1>c, <1>d, <3>2
      <4>1. o.val \subseteq Sent(v)
        BY <1>c, MessageShape DEF Sent, SentIn
      <4> QED
        BY <3>2, <3>4, <4>1
    <3> QED
      BY <1>a, <1>b, <3>2, <3>3, <3>5, PairwiseAppend
  <2>2. ASSUME NEW m, OnResult(v, m) PROVE Pairwise(toM'[v], ValsApart)
    <3>1. [stage |-> "get", id |-> task[v].id, url |-> task[v].url]
            \in [stage: Funs, id: Requests, url: Urls]
      BY <2>2, AnsweredTask DEF Funs
    <3> QED
      BY <1>1, <1>2, <2>2, <3>1, AnsweredTask
  <2> QED
    BY <1>1, <1>5, <1>a, <2>1, <2>2, HeadTyped DEF WorkerReceives
<1>6. ASSUME Boot(v) PROVE Pairwise(toM'[v], ValsApart)
  <2> DEFINE t == LateAnswers(v)
  <2>1. toM'[v] = toM[v] \o t
    BY <1>6, <1>a DEF Boot, LateAnswers
  <2>2. t \in Seq(ToMaster) /\ \A m \in Range(t) : m \in ToMaster /\ m.val = {}
    BY <1>a, BootAnswers, RangeType
  <2> HIDE DEF t
  <2>3. Pairwise(t, ValsApart)
    <3>1. \A i \in DOMAIN t : t[i] \in Range(t)
      BY DEF Range
    <3> QED
      BY <1>d, <2>2, <3>1 DEF Pairwise
  <2>4. ASSUME NEW m \in Range(toM[v]), NEW n \in Range(t)
        PROVE  <<m, n>> \in ValsApart /\ <<n, m>> \in ValsApart
    <3>1. m \in ToMaster /\ n \in ToMaster /\ m.val \cap n.val = {}
      BY <1>c, <2>2
    <3> QED
      BY <1>d, <3>1
  <2> QED
    BY <1>a, <1>b, <2>1, <2>2, <2>3, <2>4, PairwiseConcat
<1>7. CASE toM[v] # <<>> /\ toM' = [toM EXCEPT ![v] = Tail(@)]
  BY <1>a, <1>b, <1>7, PairwiseTail
<1>8. CASE toM' = [toM EXCEPT ![v] = <<>>]
  BY <1>a, <1>8, PairwiseEmpty
<1>9. ASSUME NEW w \in Workers, w # v,
             \/ \E u \in Urls : StartRequest(w, u)
             \/ Fetched(w) \/ WorkerReceives(w) \/ Boot(w) \/ MasterReceives(w) \/ ExitSeen(w)
      PROVE  toM'[v] = toM[v]
  <2>1. ASSUME NEW u \in Urls, StartRequest(w, u) PROVE toM'[v] = toM[v]
    <3>1. ASSUME NEW t, CallMaster(w, t, 0, {}) PROVE toM'[v] = toM[v]
      BY <1>9, <1>a, <3>1 DEF CallMaster
    <3> QED
      BY <2>1, <3>1, StartTask
  <2>2. CASE Fetched(w)
    BY <1>9, <1>a, <2>2 DEF Fetched, CallMaster
  <2>3. CASE WorkerReceives(w)
    BY <1>9, <1>a, <2>3 DEF WorkerReceives, OnCall, OnResult, CallMaster
  <2>4. CASE Boot(w) \/ MasterReceives(w) \/ ExitSeen(w)
    BY <1>9, <1>a, <2>4 DEF Boot, MasterReceives, ExitSeen
  <2> QED
    BY <1>9, <2>1, <2>2, <2>3, <2>4
<1>10. CASE \/ \E w \in Workers : WorkerDies(w)
            \/ \E f \in Mgrs : FlushStarts(f) \/ FlushCollected(f) \/ SendStat(f)
            \/ Expire \/ Tick \/ Reconf \/ Restart
            \/ UNCHANGED vars
  BY <1>1, <1>10 DEF WorkerDies, FlushStarts, FlushCollected, SendStat, Expire, Tick, Reconf,
                     Restart, vars, ipc
<1>11. MasterReceives(v) => toM[v] # <<>> /\ toM' = [toM EXCEPT ![v] = Tail(@)]
  BY DEF MasterReceives
<1>12. ExitSeen(v) => toM' = [toM EXCEPT ![v] = <<>>]
  BY DEF ExitSeen
<1> QED
  BY <1>1, <1>3, <1>4, <1>5, <1>6, <1>7, <1>8, <1>9, <1>10, <1>11, <1>12 DEF Next

\* What an answer brings to the manager that asked for it.
LEMMA CollectMoves ==
  ASSUME StatsTyped, NEW w, NEW m, NEW f \in Mgrs, f = m.key[2], Collect(w, m)
  PROVE  \/ flush' = flush
         \/ /\ flush'[f].got = flush[f].got \cup m.val
            /\ \A g \in Mgrs : g # f => flush'[g] = flush[g]
<1> DEFINE h == [flush EXCEPT ![f].asked = @ \ {w}, ![f].got = @ \cup m.val]
<1>1. flush \in [Mgrs -> [stage: {"idle", "collect", "send"}, asked: SUBSET Workers,
                         got: SUBSET Requests]]
  BY DEF StatsTyped
<1>2. h[f].got = flush[f].got \cup m.val /\ \A g \in Mgrs : g # f => h[g] = flush[g]
  BY <1>1
<1>3. flush' = flush \/ flush' = h
  BY DEF Collect
<1> HIDE DEF h
<1> QED
  BY <1>2, <1>3

\* Where the statistics of a request are, at most one spot has them.
LEMMA ApartStep ==
  ASSUME TypeInv, Numbers, Apart, [Next]_vars
  PROVE  Apart'
<1> DEFINE Goal == /\ \A p, q \in Spots : p # q => Hold(p)' \cap Hold(q)' = {}
                   /\ \A p \in Spots : \A r \in Hold(p)' : Over(r)'
<1>a. /\ toM \in [Workers -> Seq(ToMaster)] /\ ChannelsTyped
      /\ data \in [Workers -> SUBSET Requests] /\ uploaded \subseteq Requests
      /\ flush \in [Mgrs -> [stage: {"idle", "collect", "send"}, asked: SUBSET Workers,
                             got: SUBSET Requests]]
      /\ task \in [Workers -> [stage: Stages, id: 0..MaxRequests, url: Urls \cup {None}]]
  BY DEF TypeInv, ChannelsTyped, StatsTyped, TasksTyped
<1>b. \A w \in Workers : toM[w] \in Seq(ToMaster) /\ Pairwise(toM[w], ValsApart)
  BY <1>a DEF Apart
\* what is sent is what it was, or a call more
<1>c. ASSUME toM' = toM PROVE \A w \in Workers : SentIn(toM'[w]) = Sent(w)
  BY <1>c DEF Sent
<1>d. ASSUME NEW w \in Workers, NEW t \in [stage: Funs, id: Requests, url: Urls], NEW size,
             NEW answered, IF t.stage = "set" THEN size \in Sizes ELSE size = 0,
             CallMaster(w, t, size, answered)
      PROVE  \A v \in Workers : SentIn(toM'[v]) = Sent(v)
  <2> DEFINE m == [type |-> "call", fn |-> t.stage, id |-> t.id, url |-> t.url, size |-> size]
  <2>1. m \in ToMaster /\ m.type # "result"
    BY <1>d DEF ToMaster, Looks, Stores, Funs
  <2>2. toM' = [toM EXCEPT ![w] = Append(@, m)]
    BY <1>d DEF CallMaster
  <2> HIDE DEF m
  <2>3. toM'[w] = Append(toM[w], m) /\ \A v \in Workers : v # w => toM'[v] = toM[v]
    BY <1>a, <2>2
  <2>4. SentIn(Append(toM[w], m)) = SentIn(toM[w])
    BY <1>b, <2>1, SentAppend
  <2> QED
    BY <2>3, <2>4 DEF Sent
\* a request that ends
<1>e. ASSUME NEW w \in Workers, Busy(w), task' = [task EXCEPT ![w] = Idle],
             data' = [data EXCEPT ![w] = @ \cup {task[w].id}],
             UNCHANGED <<issued, toM, flush, uploaded>>
      PROVE  Goal
  <2>1. task'[w] = Idle /\ \A v \in Workers : v # w => task'[v] = task[v]
    BY <1>a, <1>e
  <2>2. Hold(<<"data", w>>)' = Hold(<<"data", w>>) \cup {task[w].id}
    BY <1>a, <1>e DEF Hold
  <2>3. \A p \in Spots : p # <<"data", w>> => Hold(p)' = Hold(p)
    BY <1>a, <1>e DEF Spots, Hold, Cloud, Sent
  <2>4. OwnNumbers
    BY DEF Numbers
  <2>5. UNCHANGED issued
    BY <1>e
  <2> QED
    BY <1>e, <2>1, <2>2, <2>3, <2>4, <2>5, CountedApart
<1>1. ASSUME NEW w \in Workers, NEW u \in Urls, StartRequest(w, u) PROVE Goal
  <2>1. UNCHANGED <<data, flush, uploaded>>
    BY <1>1 DEF StartRequest, stat
  <2>2. [stage |-> "has", id |-> issued + 1, url |-> u] \in [stage: Funs, id: Requests, url: Urls]
    BY <1>1, StartTask DEF Funs
  <2>3. \A v \in Workers : SentIn(toM'[v]) = Sent(v)
    <3>1. CASE toM' = toM
      BY <1>c, <3>1
    <3>2. CASE CallMaster(w, [stage |-> "has", id |-> issued + 1, url |-> u], 0, {})
      <4> DEFINE t == [stage |-> "has", id |-> issued + 1, url |-> u]
      <4>1. t \in [stage: Funs, id: Requests, url: Urls] /\ t.stage # "set"
        BY <2>2
      <4>2. CallMaster(w, t, 0, {})
        BY <3>2
      <4> HIDE DEF t
      <4> QED
        BY <1>d, <4>1, <4>2
    <3> QED
      BY <1>1, <3>1, <3>2, StartTask
  <2> QED
    BY <2>1, <2>3, ShrunkApart
<1>2. ASSUME NEW w \in Workers, Fetched(w) PROVE Goal
  <2>1. UNCHANGED <<issued, flush, uploaded>> /\ Busy(w)
    BY <1>2 DEF Fetched, stat, Busy
  <2>2. ASSUME NEW size \in Sizes, task[w].url \in Urls, data' = data,
               CallMaster(w, [stage |-> "set", id |-> task[w].id, url |-> task[w].url], size, {})
        PROVE  Goal
    <3>1. [stage |-> "set", id |-> task[w].id, url |-> task[w].url]
            \in [stage: Funs, id: Requests, url: Urls]
      BY <1>2, <2>2, FetchedTask DEF Funs
    <3>2. \A v \in Workers : SentIn(toM'[v]) = Sent(v)
      BY <1>d, <2>2, <3>1
    <3> QED
      BY <2>1, <2>2, <3>2, ShrunkApart
  <2> QED
    BY <1>2, <1>e, <2>1, <2>2, FetchedTask
<1>3. ASSUME NEW w \in Workers, WorkerReceives(w) PROVE Goal
  <2>1. UNCHANGED <<issued, flush, uploaded>>
    BY <1>3 DEF WorkerReceives, stat
  <2>2. ASSUME NEW m \in ToWorker, m.type = "call", OnCall(w, m) PROVE Goal
    <3>1. CASE UNCHANGED <<toM, data>>
      BY <1>c, <2>1, <3>1, ShrunkApart
    <3>2. CASE /\ toM' = [toM EXCEPT ![w] = Append(@,
                    [type |-> "result", key |-> m.key, val |-> data[w]])]
               /\ data' = [data EXCEPT ![w] = {}]
      <4> DEFINE n == [type |-> "result", key |-> m.key, val |-> data[w]]
                 a == <<"data", w>>
                 b == <<"sent", w>>
      <4>1. n \in ToMaster /\ n.val = data[w] /\ n.type = "result"
        BY <1>a, <2>2, ReplyShape DEF ToMaster, Counts
      <4>2. toM' = [toM EXCEPT ![w] = Append(@, n)]
        BY <3>2
      <4> HIDE DEF n
      <4>3. toM'[w] = Append(toM[w], n) /\ \A v \in Workers : v # w => toM'[v] = toM[v]
        BY <1>a, <4>2
      <4>4. SentIn(toM'[w]) = Sent(w) \cup data[w]
        BY <1>b, <4>1, <4>3, SentAppend DEF Sent
      <4>5. data'[w] = {} /\ \A v \in Workers : v # w => data'[v] = data[v]
        BY <1>a, <3>2
      <4>6. a \in Spots /\ b \in Spots
        BY SpotsAre
      <4>7. Hold(a)' = {} /\ Hold(b)' = Hold(a) \cup Hold(b)
        BY <4>4, <4>5 DEF Hold, Sent
      <4>8. \A p \in Spots : p # a /\ p # b => Hold(p)' = Hold(p)
        BY <2>1, <4>3, <4>5 DEF Spots, Hold, Cloud, Sent
      <4> HIDE DEF a, b
      <4> QED
        BY <4>6, <4>7, <4>8, MovedApart
    <3> QED
      BY <2>2, <3>1, <3>2 DEF OnCall, HandOver
  <2>3. ASSUME NEW m, OnResult(w, m) PROVE Goal
    <3>1. [stage |-> "get", id |-> task[w].id, url |-> task[w].url]
            \in [stage: Funs, id: Requests, url: Urls] /\ Busy(w)
      BY <2>3, AnsweredTask DEF Funs, Busy
    <3>2. CASE data' = data /\ \A v \in Workers : SentIn(toM'[v]) = Sent(v)
      BY <2>1, <3>2, ShrunkApart
    <3>3. CASE /\ task' = [task EXCEPT ![w] = Idle] /\ toM' = toM
               /\ data' = [data EXCEPT ![w] = @ \cup {task[w].id}]
      BY <1>e, <2>1, <3>1, <3>3
    <3> QED
      BY <1>c, <1>d, <2>3, <3>1, <3>2, <3>3, AnsweredTask
  <2> QED
    BY <1>3, <1>a, <2>2, <2>3, HeadTyped DEF WorkerReceives
<1>4. ASSUME NEW w \in Workers, Boot(w) PROVE Goal
  <2> DEFINE t == LateAnswers(w)
  <2>1. UNCHANGED <<data, flush, uploaded>> /\ toM' = [toM EXCEPT ![w] = @ \o t]
    BY <1>4 DEF Boot, LateAnswers, stat
  <2>2. t \in Seq(ToMaster) /\ \A m \in Range(t) : m.val = {}
    BY <1>a, BootAnswers
  <2> HIDE DEF t
  <2>3. toM'[w] = toM[w] \o t /\ \A v \in Workers : v # w => toM'[v] = toM[v]
    BY <1>a, <2>1
  <2>4. Range(toM[w] \o t) = Range(toM[w]) \cup Range(t)
    BY <1>b, <2>2, RangeConcatenation
  <2>5. SentIn(toM[w] \o t) = SentIn(toM[w])
    BY <2>2, <2>4 DEF SentIn
  <2>6. \A v \in Workers : SentIn(toM'[v]) = Sent(v)
    BY <2>3, <2>5 DEF Sent
  <2> QED
    BY <2>1, <2>6, ShrunkApart
<1>5. ASSUME NEW w \in Workers, MasterReceives(w) PROVE Goal
  <2> DEFINE m == Head(toM[w])
  <2>1. /\ toM[w] # <<>> /\ toM' = [toM EXCEPT ![w] = Tail(@)] /\ UNCHANGED <<data, uploaded>>
        /\ m \in ToMaster
    BY <1>5, <1>a, HeadTyped DEF MasterReceives
  <2>2. toM'[w] = Tail(toM[w]) /\ \A v \in Workers : v # w => toM'[v] = toM[v]
    BY <1>a, <2>1
  <2>3. /\ SentIn(toM'[w]) \subseteq Sent(w)
        /\ m.type = "result" => m.val \subseteq Sent(w) /\ m.val \cap SentIn(toM'[w]) = {}
    BY <1>b, <2>1, <2>2, SentTail DEF Sent
  <2>4. CASE flush' = flush
    <3>1. \A v \in Workers : SentIn(toM'[v]) \subseteq Sent(v)
      BY <2>2, <2>3 DEF Sent
    <3> QED
      BY <2>1, <2>4, <3>1, ShrunkApart
  <2>5. CASE m.type = "result" /\ Collect(w, m) /\ flush' # flush
    <3>1. PICK f \in Mgrs : f = m.key[2]
      BY <2>1, <2>5, MessageShape DEF Keys
    <3> DEFINE a == <<"sent", w>>
               b == <<"got", f>>
    <3>3. flush'[f].got = flush[f].got \cup m.val /\ \A g \in Mgrs : g # f => flush'[g] = flush[g]
      BY <2>5, <3>1, CollectMoves DEF TypeInv
    <3>4. a \in Spots /\ b \in Spots /\ a # b
      BY <3>1, SpotsAre
    <3>5. Hold(b)' = Hold(b) \cup m.val
      BY <3>3 DEF Hold
    <3>6. Hold(a)' \subseteq Hold(a) /\ m.val \subseteq Hold(a) /\ m.val \cap Hold(a)' = {}
      BY <2>3, <2>5 DEF Hold, Sent
    <3>7. \A p \in Spots : p # a /\ p # b => Hold(p)' = Hold(p)
      BY <2>1, <2>2, <3>3 DEF Spots, Hold, Cloud, Sent
    <3>8. Hold(a) \cap Hold(b) = {}
      BY <3>4 DEF Apart
    <3> HIDE DEF a, b, m
    <3> QED
      BY <3>4, <3>5, <3>6, <3>7, <3>8, MovedApart
  <2> QED
    BY <1>5, <2>4, <2>5 DEF MasterReceives
<1>6. ASSUME NEW W, WorkerGone(W), UNCHANGED <<toM, flush, uploaded>> PROVE Goal
  <2>1. \A v \in Workers : data'[v] \subseteq data[v]
    BY <1>6 DEF WorkerGone
  <2> QED
    BY <1>6, <1>c, <2>1, ShrunkApart
<1>7. ASSUME NEW w \in Workers, WorkerDies(w) PROVE Goal
  BY <1>6, <1>7 DEF WorkerDies, stat
<1>8. ASSUME Restart PROVE Goal
  <2>1. WorkerGone(Listed) /\ UNCHANGED <<toM, flush, uploaded>>
    BY <1>8 DEF Restart
  <2> QED
    BY <1>6, <2>1
<1>9. ASSUME NEW w \in Workers, ExitSeen(w) PROVE Goal
  <2>1. UNCHANGED <<data, uploaded>> /\ toM' = [toM EXCEPT ![w] = <<>>]
        /\ \A f \in Mgrs : flush'[f].got = flush[f].got
    BY <1>9, <1>a DEF ExitSeen, FailCalls
  <2>2. \A v \in Workers : SentIn(toM'[v]) \subseteq Sent(v)
    BY <1>a, <2>1, RangeEmpty DEF SentIn, Sent
  <2> QED
    BY <2>1, <2>2, ShrunkApart
<1>10. ASSUME NEW f \in Mgrs, FlushStarts(f) \/ FlushCollected(f) PROVE Goal
  <2>1. UNCHANGED <<toM, data, uploaded>>
    BY <1>10 DEF FlushStarts, FlushCollected, ipc
  <2>2. \A g \in Mgrs : flush'[g].got \subseteq flush[g].got
    <3>1. CASE FlushStarts(f)
      <4>1. flush' = [flush EXCEPT ![f] = [stage |-> "collect", asked |-> Listed, got |-> {}]]
        BY <3>1 DEF FlushStarts
      <4> QED
        BY <1>a, <4>1
    <3>2. CASE FlushCollected(f)
      <4> DEFINE e == IF flush[f].got = {} THEN NoFlush ELSE [flush[f] EXCEPT !.stage = "send"]
      <4>1. flush' = [flush EXCEPT ![f] = e]
        BY <3>2 DEF FlushCollected
      <4>2. e.got = flush[f].got
        BY <1>a DEF NoFlush
      <4> HIDE DEF e
      <4> QED
        BY <1>a, <4>1, <4>2
    <3> QED
      BY <1>10, <3>1, <3>2
  <2> QED
    BY <1>c, <2>1, <2>2, ShrunkApart
<1>11. ASSUME NEW f \in Mgrs, SendStat(f) PROVE Goal
  <2> DEFINE a == <<"got", f>>
  <2>1. UNCHANGED <<toM, data>> /\ uploaded' \subseteq uploaded \cup flush[f].got
        /\ flush' = [flush EXCEPT ![f] = NoFlush]
    BY <1>11 DEF SendStat, ipc
  <2>2. flush'[f].got = {} /\ \A g \in Mgrs : g # f => flush'[g] = flush[g]
    BY <1>a, <2>1 DEF NoFlush
  <2>3. a \in Spots /\ Cloud \in Spots
    BY SpotsAre
  <2>4. Hold(a)' = {} /\ Hold(Cloud)' \subseteq Hold(a) \cup Hold(Cloud)
    BY <2>1, <2>2 DEF Hold, Cloud
  <2>5. \A p \in Spots : p # a /\ p # Cloud => Hold(p)' = Hold(p)
    BY <2>1, <2>2 DEF Spots, Hold, Cloud, Sent
  <2> HIDE DEF a
  <2> QED
    BY <2>3, <2>4, <2>5, MovedApart
<1>12. ASSUME Reconf PROVE Goal
  <2>1. UNCHANGED <<toM, data, uploaded>> /\ \A g \in Mgrs : flush'[g].got \subseteq flush[g].got
    BY <1>12, <1>a DEF Reconf, NoFlush, ipc
  <2> QED
    BY <1>c, <2>1, ShrunkApart
<1>13. ASSUME Expire \/ Tick \/ UNCHANGED vars PROVE Goal
  <2>1. UNCHANGED <<toM, data, flush, uploaded>>
    BY <1>13 DEF Expire, Tick, vars, ipc, stat
  <2> QED
    BY <1>c, <2>1, ShrunkApart
<1>14. Goal
  BY <1>1, <1>2, <1>3, <1>4, <1>5, <1>7, <1>8, <1>9, <1>10, <1>11, <1>12, <1>13 DEF Next
<1>15. \A w \in Workers : Pairwise(toM'[w], ValsApart)
  BY ValsStep
<1> QED
  BY <1>14, <1>15 DEF Apart

-----------------------------------------------------------------------------
(***************************************************************************)
(* The space of the cache.  Each unit that is taken is one of a timer that *)
(* will give it back; what is stored under a URL has its own timer.        *)
(***************************************************************************)

Stored ==
  /\ IsFiniteSet(TimerCells) /\ Cardinality(TimerCells) = space_taken
  /\ space_taken < CACHE_LIMIT
  /\ \A u \in Urls : cache[u] # None =>
       \E t \in timers : t.id = cache[u].id /\ t.url = u /\ t.space = cache[u].size

\* Two sets of the same size.
LEMMA OneToOne ==
  ASSUME NEW S, NEW T, NEW f \in [S -> T], IsFiniteSet(S),
         \A x, y \in S : f[x] = f[y] => x = y, \A y \in T : \E x \in S : f[x] = y
  PROVE  IsFiniteSet(T) /\ Cardinality(T) = Cardinality(S)
<1>1. f \in Bijection(S, T)
  BY DEF Bijection, Injection, Surjection, IsInjective
<1> QED
  BY <1>1, FS_Bijection DEF ExistsBijection

\* A timer has as many cells as it gives space back.
LEMMA CellsOfOne ==
  ASSUME NEW t, NEW n \in Nat
  PROVE  IsFiniteSet({t} \X (1..n)) /\ Cardinality({t} \X (1..n)) = n
<1>1. IsFiniteSet(1..n) /\ Cardinality(1..n) = n
  <2>1. Cardinality(1..n) = IF 1 > n THEN 0 ELSE n - 1 + 1
    BY FS_Interval
  <2> QED
    BY <2>1, FS_Interval
<1>2. IsFiniteSet({t}) /\ Cardinality({t}) = 1
  BY FS_Singleton
<1>3. IsFiniteSet({t} \X (1..n)) /\ Cardinality({t} \X (1..n)) = Cardinality({t}) * Cardinality(1..n)
  BY <1>1, <1>2, FS_Product
<1> QED
  BY <1>1, <1>2, <1>3

\* A timer more takes its space, ...
LEMMA CellsMore ==
  ASSUME NEW S, NEW t, t \notin S, t.space \in Nat, IsFiniteSet(Cells(S))
  PROVE  /\ IsFiniteSet(Cells(S \cup {t}))
         /\ Cardinality(Cells(S \cup {t})) = Cardinality(Cells(S)) + t.space
<1> DEFINE C == {t} \X (1..t.space)
<1>1. IsFiniteSet(C) /\ Cardinality(C) = t.space
  BY CellsOfOne
<1>2. Cells(S \cup {t}) = Cells(S) \cup C /\ Cells(S) \cap C = {}
  BY DEF Cells
<1> HIDE DEF C
<1>3. Cardinality(Cells(S) \cup C) = Cardinality(Cells(S)) + Cardinality(C) - Cardinality({})
  BY <1>1, <1>2, FS_Union
<1>4. Cardinality(Cells(S)) \in Nat /\ Cardinality({}) = 0
  BY FS_CardinalityType, FS_EmptySet
<1>5. IsFiniteSet(Cells(S) \cup C)
  BY <1>1, FS_Union
<1>6. Cardinality(Cells(S) \cup C) = Cardinality(Cells(S)) + t.space
  BY <1>1, <1>3, <1>4
<1> QED
  BY <1>2, <1>5, <1>6

\* ... and one that fires gives it back.
LEMMA CellsLess ==
  ASSUME NEW S, NEW t \in S, t.space \in Nat, IsFiniteSet(Cells(S))
  PROVE  /\ IsFiniteSet(Cells(S \ {t})) /\ Cardinality(Cells(S \ {t})) \in Nat
         /\ Cardinality(Cells(S)) = Cardinality(Cells(S \ {t})) + t.space
<1>1. Cells(S \ {t}) \subseteq Cells(S)
  BY DEF Cells
<1>2. IsFiniteSet(Cells(S \ {t}))
  BY <1>1, FS_Subset
<1>3. (S \ {t}) \cup {t} = S
  OBVIOUS
<1>4. Cardinality(Cells((S \ {t}) \cup {t})) = Cardinality(Cells(S \ {t})) + t.space
  BY <1>2, CellsMore
<1> QED
  BY <1>2, <1>3, <1>4, FS_CardinalityType

\* Time changes nothing.
LEMMA CellsAge ==
  ASSUME NEW S \in SUBSET [id: Requests, url: Urls, space: Sizes, left: 0..Hour],
         IsFiniteSet(Cells(S))
  PROVE  LET A == {[t EXCEPT !.left = @ - 1] : t \in S}
         IN  IsFiniteSet(Cells(A)) /\ Cardinality(Cells(A)) = Cardinality(Cells(S))
<1> DEFINE older(t) == [t EXCEPT !.left = @ - 1]
           A == {older(t) : t \in S}
           f == [c \in Cells(S) |-> <<older(c[1]), c[2]>>]
<1>a. \A t \in S : older(t) = [id |-> t.id, url |-> t.url, space |-> t.space, left |-> t.left - 1]
  OBVIOUS
<1>b. \A t \in S : t.left \in Int
  BY BoundsAssumption
<1>1. \A t \in S : older(t).space = t.space
  BY <1>a
<1>2. ASSUME NEW s \in S, NEW t \in S, older(s) = older(t) PROVE s = t
  <2>1. s.id = t.id /\ s.url = t.url /\ s.space = t.space /\ s.left - 1 = t.left - 1
    BY <1>2, <1>a
  <2>2. s.left = t.left
    BY <1>b, <2>1
  <2> QED
    BY <2>1, <2>2
<1> HIDE DEF older
<1>3. \A c \in Cells(S) : c = <<c[1], c[2]>> /\ c[1] \in S /\ c[2] \in 1..c[1].space
  BY DEF Cells
<1>4. f \in [Cells(S) -> Cells(A)]
  <2>1. ASSUME NEW c \in Cells(S) PROVE <<older(c[1]), c[2]>> \in Cells(A)
    <3>1. older(c[1]) \in A /\ c[2] \in 1..older(c[1]).space
      BY <1>1, <1>3
    <3> QED
      BY <3>1 DEF Cells
  <2> QED
    BY <2>1
<1>5. ASSUME NEW c \in Cells(S), NEW d \in Cells(S), f[c] = f[d] PROVE c = d
  <2>1. older(c[1]) = older(d[1]) /\ c[2] = d[2]
    BY <1>5
  <2> QED
    BY <1>2, <1>3, <2>1
<1>6. ASSUME NEW d \in Cells(A) PROVE \E c \in Cells(S) : f[c] = d
  <2>1. PICK a \in A : \E i \in 1..a.space : d = <<a, i>>
    BY DEF Cells
  <2>2. PICK i \in 1..a.space : d = <<a, i>>
    BY <2>1
  <2>3. PICK t \in S : a = older(t)
    OBVIOUS
  <2>4. i \in 1..t.space
    BY <1>1, <2>2, <2>3
  <2>5. <<t, i>> \in Cells(S)
    BY <2>4 DEF Cells
  <2>6. f[<<t, i>>] = d
    BY <2>2, <2>3, <2>5
  <2> QED
    BY <2>5, <2>6
<1> HIDE DEF f
<1>7. IsFiniteSet(Cells(A)) /\ Cardinality(Cells(A)) = Cardinality(Cells(S))
  BY <1>4, <1>5, <1>6, OneToOne
<1> QED
  BY <1>7 DEF older

\* Nothing happens to the cache.
LEMMA StoredFrame ==
  ASSUME SpaceTyped, Stored, UNCHANGED store
  PROVE  SpaceTyped' /\ Stored'
BY DEF SpaceTyped, Stored, TimerCells, store

\* The accounts of the cache stay those of its timers.
LEMMA StoredStep ==
  ASSUME TypeInv, Numbers, Stored, [Next]_vars
  PROVE  SpaceTyped' /\ Stored'
<1>a. /\ cache \in [Urls -> [id: Requests, size: Sizes] \cup {None}]
      /\ timers \in SUBSET [id: Requests, url: Urls, space: Sizes, left: 0..Hour]
      /\ SpaceTyped
  BY DEF TypeInv, EntriesTyped
<1>b. /\ IsFiniteSet(Cells(timers)) /\ Cardinality(Cells(timers)) = space_taken
      /\ space_taken < CACHE_LIMIT /\ space_taken \in Nat /\ CACHE_LIMIT \in Nat
  BY BoundsAssumption DEF Stored, TimerCells, TypeInv, SpaceTyped
<1>c. \A u \in Urls : cache[u] # None =>
        \E t \in timers : t.id = cache[u].id /\ t.url = u /\ t.space = cache[u].size
  BY DEF Stored
<1>d. \A t \in timers : t.space \in Nat /\ t.url \in Urls
  BY <1>a, SizesAssumption
<1>1. ASSUME NEW w \in Workers, MasterReceives(w) PROVE SpaceTyped' /\ Stored'
  <2> DEFINE m == Head(toM[w])
  <2>1. CASE UNCHANGED store
    BY <1>a, <2>1, StoredFrame
  <2>2. CASE m.type = "call" /\ Serve(w, m) /\ ~UNCHANGED store
    <3>1. toM[w] # <<>> /\ toM' = [toM EXCEPT ![w] = Tail(@)] /\ m \in ToMaster
      BY <1>1, HeadTyped DEF MasterReceives, TypeInv
    <3>2. m \in Told(w)
      BY <2>2, <3>1, ToldRead DEF TypeInv
    <3>3. m.fn = "set" /\ m.size \in Sizes /\ cache_set(m.id, m.url, m.size)
          /\ m.id \in Requests /\ m.url \in Urls
      BY <2>2, <3>1, ServeAnswers, MessageShape
    <3>4. PICK i \in Requests, u \in Urls, n \in Nat : i = m.id /\ u = m.url /\ n = m.size
      BY <3>3, SizesAssumption
    <3> DEFINE t == [id |-> i, url |-> u, space |-> n, left |-> Hour]
    <3>5. /\ timers' = timers \cup {t} /\ cache' = [cache EXCEPT ![u] = [id |-> i, size |-> n]]
          /\ space_taken' = space_taken + n /\ space_taken + n < CACHE_LIMIT
      BY <2>2, <3>3, <3>4 DEF cache_set, Room
    <3>6. t.id = i /\ t.url = u /\ t.space = n
      OBVIOUS
    <3> HIDE DEF t, m
    <3>7. t \notin timers
      BY <3>2, <3>3, <3>4, <3>6 DEF Numbers, StoredOnce
    <3>8. /\ IsFiniteSet(Cells(timers'))
          /\ Cardinality(Cells(timers')) = space_taken'
      BY <1>b, <3>5, <3>6, <3>7, CellsMore
    <3>9. ASSUME NEW v \in Urls, cache'[v] # None
          PROVE  \E s \in timers' : s.id = cache'[v].id /\ s.url = v /\ s.space = cache'[v].size
      <4>1. CASE v = u
        <5>1. cache'[v] = [id |-> i, size |-> n]
          BY <1>a, <3>5, <4>1
        <5> QED
          BY <3>5, <3>6, <4>1, <5>1
      <4>2. CASE v # u
        <5>1. cache'[v] = cache[v]
          BY <1>a, <3>5, <4>2
        <5> QED
          BY <1>c, <3>5, <3>9, <5>1
      <4> QED
        BY <4>1, <4>2
    <3>10. space_taken' \in 0..CACHE_LIMIT /\ space_taken' < CACHE_LIMIT
      BY <1>b, <3>5
    <3> QED
      BY <3>8, <3>9, <3>10 DEF Stored, TimerCells, SpaceTyped
  <2> QED
    BY <1>1, <2>1, <2>2 DEF MasterReceives
<1>2. CASE Expire
  <2>1. PICK t \in timers : /\ timers' = timers \ {t} /\ space_taken' = space_taken - t.space
                            /\ cache' = [cache EXCEPT ![t.url] = None]
    BY <1>2 DEF Expire
  <2>2. /\ IsFiniteSet(Cells(timers')) /\ Cardinality(Cells(timers')) \in Nat
        /\ space_taken = Cardinality(Cells(timers')) + t.space /\ t.space \in Nat
    BY <1>b, <1>d, <2>1, CellsLess
  <2>3. /\ Cardinality(Cells(timers')) = space_taken' /\ space_taken' \in 0..CACHE_LIMIT
        /\ space_taken' < CACHE_LIMIT
    BY <1>b, <2>1, <2>2
  <2>4. ASSUME NEW v \in Urls, cache'[v] # None
        PROVE  \E s \in timers' : s.id = cache'[v].id /\ s.url = v /\ s.space = cache'[v].size
    <3>1. v # t.url /\ cache'[v] = cache[v]
      BY <1>a, <1>d, <2>1, <2>4
    <3> QED
      BY <1>c, <2>1, <2>4, <3>1
  <2> QED
    BY <2>2, <2>3, <2>4 DEF Stored, TimerCells, SpaceTyped
<1>3. CASE Tick
  <2>1. timers' = {[t EXCEPT !.left = @ - 1] : t \in timers} /\ UNCHANGED <<cache, space_taken>>
    BY <1>3 DEF Tick
  <2>2. IsFiniteSet(Cells(timers')) /\ Cardinality(Cells(timers')) = Cardinality(Cells(timers))
    BY <1>a, <1>b, <2>1, CellsAge
  <2>3. \A t \in timers : \E s \in timers' : s.id = t.id /\ s.url = t.url /\ s.space = t.space
    <3> SUFFICES ASSUME NEW t \in timers
                 PROVE  \E s \in timers' : s.id = t.id /\ s.url = t.url /\ s.space = t.space
      OBVIOUS
    <3>1. [t EXCEPT !.left = @ - 1] \in timers'
      BY <2>1
    <3>2. /\ [t EXCEPT !.left = @ - 1].id = t.id /\ [t EXCEPT !.left = @ - 1].url = t.url
          /\ [t EXCEPT !.left = @ - 1].space = t.space
      BY <1>a
    <3> QED
      BY <3>1, <3>2
  <2>4. \A u \in Urls : cache'[u] # None =>
          \E t \in timers' : t.id = cache'[u].id /\ t.url = u /\ t.space = cache'[u].size
    <3> SUFFICES ASSUME NEW u \in Urls, cache[u] # None
                 PROVE  \E t \in timers' : t.id = cache[u].id /\ t.url = u /\ t.space = cache[u].size
      BY <2>1
    <3>1. PICK t \in timers : t.id = cache[u].id /\ t.url = u /\ t.space = cache[u].size
      BY <1>c
    <3> QED
      BY <2>3, <3>1
  <2> QED
    BY <1>a, <1>b, <2>1, <2>2, <2>4 DEF Stored, TimerCells, SpaceTyped
<1>4. CASE UNCHANGED store
  BY <1>a, <1>4, StoredFrame
<1>5. CASE \/ \E w \in Workers, u \in Urls : StartRequest(w, u)
           \/ \E w \in Workers : \/ Fetched(w) \/ WorkerReceives(w) \/ Boot(w)
                                 \/ WorkerDies(w) \/ ExitSeen(w)
           \/ \E f \in Mgrs : FlushStarts(f) \/ FlushCollected(f) \/ SendStat(f)
           \/ Reconf \/ Restart
           \/ UNCHANGED vars
  <2>1. UNCHANGED store
    <3>1. ASSUME NEW w \in Workers, NEW u \in Urls, StartRequest(w, u) PROVE UNCHANGED store
      BY <3>1 DEF StartRequest
    <3>2. ASSUME NEW w \in Workers,
                 Fetched(w) \/ WorkerReceives(w) \/ Boot(w) \/ WorkerDies(w) \/ ExitSeen(w)
          PROVE  UNCHANGED store
      BY <3>2 DEF Fetched, WorkerReceives, Boot, WorkerDies, ExitSeen
    <3>3. ASSUME NEW f \in Mgrs, FlushStarts(f) \/ FlushCollected(f) \/ SendStat(f)
          PROVE  UNCHANGED store
      BY <3>3 DEF FlushStarts, FlushCollected, SendStat
    <3>4. Reconf \/ Restart \/ UNCHANGED vars => UNCHANGED store
      BY DEF Reconf, Restart, vars
    <3> QED
      BY <1>5, <3>1, <3>2, <3>3, <3>4
  <2> QED
    BY <1>4, <2>1
<1> QED
  BY <1>1, <1>2, <1>3, <1>5 DEF Next

\* What the cache holds fits into its limit.
LEMMA StoredIsBounded == ASSUME TypeInv, Stored PROVE CacheBounded
<1>a. /\ cache \in [Urls -> [id: Requests, size: Sizes] \cup {None}]
      /\ IsFiniteSet(TimerCells) /\ space_taken \in Nat /\ CACHE_LIMIT \in Nat
  BY BoundsAssumption DEF TypeInv, EntriesTyped, Stored, SpaceTyped
<1> DEFINE own(u) == CHOOSE t \in timers : t.url = u /\ t.space = cache[u].size
           f == [c \in EntryCells |-> <<own(c[1]), c[2]>>]
<1>1. \A u \in Urls : cache[u] # None =>
        own(u) \in timers /\ own(u).url = u /\ own(u).space = cache[u].size
  BY DEF Stored
<1> HIDE DEF own
<1>2. \A c \in EntryCells : /\ c = <<c[1], c[2]>> /\ c[1] \in Urls /\ cache[c[1]] # None
                            /\ c[2] \in 1..cache[c[1]].size
  BY DEF EntryCells
<1>3. f \in [EntryCells -> TimerCells]
  <2>1. ASSUME NEW c \in EntryCells PROVE <<own(c[1]), c[2]>> \in TimerCells
    <3>1. own(c[1]) \in timers /\ c[2] \in 1..own(c[1]).space
      BY <1>1, <1>2
    <3> QED
      BY <3>1 DEF TimerCells, Cells
  <2> QED
    BY <2>1
<1>4. ASSUME NEW c \in EntryCells, NEW d \in EntryCells, f[c] = f[d] PROVE c = d
  <2>1. own(c[1]) = own(d[1]) /\ c[2] = d[2]
    BY <1>4
  <2>2. c[1] = d[1]
    BY <1>1, <1>2, <2>1
  <2> QED
    BY <1>2, <2>1, <2>2
<1> HIDE DEF f
<1>5. f \in Injection(EntryCells, TimerCells)
  BY <1>3, <1>4 DEF Injection, IsInjective
<1>6. IsFiniteSet(EntryCells) /\ Cardinality(EntryCells) <= Cardinality(TimerCells)
  BY <1>a, <1>5, FS_Injection
<1>7. Cardinality(EntryCells) \in Nat
  BY <1>6, FS_CardinalityType
<1>8. Cardinality(EntryCells) < CACHE_LIMIT
  BY <1>a, <1>6, <1>7 DEF Stored
<1> QED
  BY <1>8 DEF Stored, CacheBounded

-----------------------------------------------------------------------------
(***************************************************************************)
(* The inductive invariant, and what it says of the properties.            *)
(***************************************************************************)

IInv == /\ TypeInv /\ GoneForGood /\ Current /\ Asking /\ Dialogue
        /\ Numbers /\ Apart /\ Stored

\* It holds when the master has forked its workers.
LEMMA InitIInv == Init => IInv
<1> SUFFICES ASSUME Init PROVE IInv
  OBVIOUS
<1>a. /\ toW = [w \in Workers |-> <<>>] /\ toM = [w \in Workers |-> <<>>]
      /\ pend = [w \in Workers |-> <<>>] /\ waitM = {} /\ waitW = [w \in Workers |-> {}]
      /\ data = [w \in Workers |-> {}] /\ uploaded = {} /\ flush = [f \in Mgrs |-> NoFlush]
      /\ task = [w \in Workers |-> Idle] /\ issued = 0
      /\ cache = [u \in Urls |-> None] /\ space_taken = 0 /\ timers = {}
  BY DEF Init
<1>b. Range(<<>>) = {} /\ \A S : <<>> \in Seq(S)
  BY RangeEmpty
<1>1. TypeInv
  <2>1. ProcsTyped
    <3>1. 1 \in Mgrs /\ 0 \in 0..MaxTroubles
      BY BoundsAssumption DEF Mgrs
    <3> QED
      BY <3>1, BoundsAssumption DEF Init, ProcsTyped
  <2>2. WaitsTyped /\ StatsTyped
    BY <1>a DEF WaitsTyped, StatsTyped, NoFlush
  <2>3. TasksTyped
    <3>1. issued \in 0..MaxRequests
      BY <1>a, BoundsAssumption
    <3>2. \A w \in Workers : TaskTyped(w)
      BY <1>a DEF TaskTyped, Busy, Idle
    <3> QED
      BY <1>a, <3>1, <3>2, IdleTyped DEF TasksTyped
  <2>4. EntriesTyped /\ SpaceTyped
    BY <1>a, BoundsAssumption DEF EntriesTyped, SpaceTyped
  <2>5. ChannelsTyped
    BY <1>a, <1>b DEF ChannelsTyped
  <2> QED
    BY <2>1, <2>2, <2>3, <2>4, <2>5 DEF TypeInv
<1>2. GoneForGood
  BY <1>a DEF GoneForGood, Lifeless
<1>3. Current
  BY <1>a DEF Current
<1>4. Asking
  BY <1>a, KeyedNone DEF Asking
<1>5. Dialogue
  <2>1. ASSUME NEW alive PROVE Spoken(Idle, {}, <<>>, <<>>, alive)
    BY <1>b, PairwiseEmpty DEF Spoken, Idle, Funs
  <2> QED
    BY <1>a, <2>1 DEF Dialogue
<1>6. Numbers
  BY <1>a, <1>b DEF Numbers, OwnNumbers, StoredOnce, Told, Busy, Idle
<1>7. Apart
  <2>1. \A p \in Spots : Hold(p) = {}
    BY <1>a, <1>b DEF Spots, Hold, Cloud, Sent, SentIn, NoFlush
  <2>2. \A w \in Workers : Pairwise(toM[w], ValsApart)
    BY <1>a, PairwiseEmpty
  <2> QED
    BY <2>1, <2>2 DEF Apart
<1>8. Stored
  <2>1. TimerCells = {}
    BY <1>a DEF TimerCells, Cells
  <2> QED
    BY <1>a, <2>1, FS_EmptySet, BoundsAssumption DEF Stored
<1> QED
  BY <1>1, <1>2, <1>3, <1>4, <1>5, <1>6, <1>7, <1>8 DEF IInv

\* Every step keeps it.
LEMMA StepIInv == IInv /\ [Next]_vars => IInv'
<1> SUFFICES ASSUME IInv, [Next]_vars PROVE IInv'
  OBVIOUS
<1>a. TypeInv /\ GoneForGood /\ Current /\ Asking /\ Dialogue /\ Numbers /\ Apart /\ Stored
  BY DEF IInv
<1>1. SpaceTyped' /\ Stored'
  BY <1>a, StoredStep
<1>2. TypeInv'
  BY <1>a, <1>1, ProcsStep, WaitsStep, StatsStep, TasksStep, EntriesStep, ChannelsStep DEF TypeInv
<1>3. GoneForGood'
  BY <1>a, LifelessStep
<1>4. Current'
  BY <1>a, CurrentStep
<1>5. Asking'
  BY <1>a, AskingStep
<1>6. Dialogue'
  BY <1>a, DialogueStep
<1>7. Numbers'
  BY <1>a, <1>2, NumbersStep
<1>8. Apart'
  BY <1>a, ApartStep
<1> QED
  BY <1>1, <1>2, <1>3, <1>4, <1>5, <1>6, <1>7, <1>8 DEF IInv

\* A set without two elements.
LEMMA AtMostOne ==
  ASSUME NEW S, \A x, y \in S : x = y
  PROVE  Cardinality(S) = IF S = {} THEN 0 ELSE 1
<1>1. CASE S = {}
  BY <1>1, FS_EmptySet
<1>2. CASE S # {}
  <2>1. PICK x : x \in S
    BY <1>2
  <2>2. S = {x}
    BY <2>1
  <2> QED
    BY <1>2, <2>2, FS_Singleton
<1> QED
  BY <1>1, <1>2

\* What is in one spot only is counted once.
LEMMA ApartIsOnce == ASSUME TypeInv, Apart PROVE CountedOnce
<1> SUFFICES ASSUME NEW r \in Requests PROVE Places(r) <= 1
  BY DEF CountedOnce
<1> DEFINE A == {w \in Workers : r \in data[w]}
           B == UNION {{<<w, i>> : i \in {j \in DOMAIN toM[w] :
                    toM[w][j].type = "result" /\ r \in toM[w][j].val}} : w \in Workers}
           C == {f \in Mgrs : r \in flush[f].got}
           d == IF r \in uploaded THEN 1 ELSE 0
<1>a. \A p, q \in Spots : r \in Hold(p) /\ r \in Hold(q) => p = q
  BY DEF Apart
<1>b. \A w \in Workers : r \in data[w] => <<"data", w>> \in Spots /\ r \in Hold(<<"data", w>>)
  BY SpotsAre
<1>c. \A f \in Mgrs : r \in flush[f].got => <<"got", f>> \in Spots /\ r \in Hold(<<"got", f>>)
  BY SpotsAre
<1>d. ASSUME NEW b \in B
      PROVE  \E w \in Workers : \E i \in DOMAIN toM[w] :
               /\ b = <<w, i>> /\ <<"sent", w>> \in Spots /\ r \in Hold(<<"sent", w>>)
               /\ toM[w][i].type = "result" /\ r \in toM[w][i].val /\ toM[w][i] \in Messages
  <2>0. PICK w \in Workers : \E i \in DOMAIN toM[w] :
          b = <<w, i>> /\ toM[w][i].type = "result" /\ r \in toM[w][i].val
    OBVIOUS
  <2>1. PICK i \in DOMAIN toM[w] :
          b = <<w, i>> /\ toM[w][i].type = "result" /\ r \in toM[w][i].val
    BY <2>0
  <2>2. toM[w] \in Seq(ToMaster)
    BY HeadTyped DEF TypeInv
  <2>3. toM[w][i] \in Range(toM[w]) /\ toM[w][i] \in Messages
    BY <2>1, <2>2, RangeType DEF Messages
  <2>4. r \in Sent(w)
    BY <2>1, <2>3 DEF Sent, SentIn
  <2> QED
    BY <2>1, <2>3, <2>4, SpotsAre
<1>e. r \in uploaded => Cloud \in Spots /\ r \in Hold(Cloud)
  BY SpotsAre
<1>1. \A v, w \in A : v = w
  <2> SUFFICES ASSUME NEW v \in A, NEW w \in A PROVE <<"data", v>> = <<"data", w>>
    OBVIOUS
  <2> QED
    BY <1>a, <1>b
<1>2. ASSUME NEW b \in B, NEW c \in B PROVE b = c
  <2>1. PICK w \in Workers : \E i \in DOMAIN toM[w] :
               /\ b = <<w, i>> /\ <<"sent", w>> \in Spots /\ r \in Hold(<<"sent", w>>)
               /\ toM[w][i].type = "result" /\ r \in toM[w][i].val /\ toM[w][i] \in Messages
    BY <1>d
  <2>2. PICK v \in Workers : \E j \in DOMAIN toM[v] :
               /\ c = <<v, j>> /\ <<"sent", v>> \in Spots /\ r \in Hold(<<"sent", v>>)
               /\ toM[v][j].type = "result" /\ r \in toM[v][j].val /\ toM[v][j] \in Messages
    BY <1>d
  <2>3. PICK i \in DOMAIN toM[w] :
          b = <<w, i>> /\ toM[w][i].type = "result" /\ r \in toM[w][i].val
    BY <2>1
  <2>4. PICK j \in DOMAIN toM[v] :
          c = <<v, j>> /\ toM[v][j].type = "result" /\ r \in toM[v][j].val
    BY <2>2
  <2>5. <<"sent", w>> = <<"sent", v>>
    BY <1>a, <2>1, <2>2
  <2>6. w = v
    BY <2>5
  <2>7. i = j
    <3> SUFFICES ASSUME i # j PROVE FALSE
      OBVIOUS
    <3>1. <<toM[w][i], toM[w][j]>> \in ValsApart
      BY <2>6 DEF Apart, Pairwise
    <3> QED
      BY <2>3, <2>4, <2>6, <3>1 DEF ValsApart
  <2> QED
    BY <2>3, <2>4, <2>6, <2>7
<1>3. \A f, g \in C : f = g
  <2> SUFFICES ASSUME NEW f \in C, NEW g \in C PROVE <<"got", f>> = <<"got", g>>
    OBVIOUS
  <2> QED
    BY <1>a, <1>c
<1>4. /\ A # {} => B = {} /\ C = {} /\ d = 0
      /\ B # {} => C = {} /\ d = 0
      /\ C # {} => d = 0
  <2>1. \A v, w, f : /\ <<"data", w>> # <<"sent", v>> /\ <<"data", w>> # <<"got", f>>
                     /\ <<"data", w>> # Cloud /\ <<"sent", v>> # <<"got", f>>
                     /\ <<"sent", v>> # Cloud /\ <<"got", f>> # Cloud
    BY DEF Cloud
  <2>2. A # {} => \E w : <<"data", w>> \in Spots /\ r \in Hold(<<"data", w>>)
    BY <1>b
  <2>3. B # {} => \E v : <<"sent", v>> \in Spots /\ r \in Hold(<<"sent", v>>)
    <3> SUFFICES ASSUME NEW b \in B PROVE \E v : <<"sent", v>> \in Spots /\ r \in Hold(<<"sent", v>>)
      OBVIOUS
    <3> QED
      BY <1>d
  <2>4. C # {} => \E f : <<"got", f>> \in Spots /\ r \in Hold(<<"got", f>>)
    BY <1>c
  <2>5. d # 0 => Cloud \in Spots /\ r \in Hold(Cloud)
    BY <1>e
  <2> HIDE DEF A, B, C, d
  <2>6. A # {} => B = {} /\ C = {} /\ d = 0
    BY <1>a, <2>1, <2>2, <2>3, <2>4, <2>5
  <2>7. (B # {} => C = {} /\ d = 0) /\ (C # {} => d = 0)
    BY <1>a, <2>1, <2>3, <2>4, <2>5
  <2> QED
    BY <2>6, <2>7
<1>5. d \in {0, 1}
  OBVIOUS
<1>6. Places(r) = Cardinality(A) + Cardinality(B) + Cardinality(C) + d
  BY DEF Places
<1> HIDE DEF A, B, C, d
<1>7. /\ Cardinality(A) = IF A = {} THEN 0 ELSE 1
      /\ Cardinality(B) = IF B = {} THEN 0 ELSE 1
      /\ Cardinality(C) = IF C = {} THEN 0 ELSE 1
  BY <1>1, <1>2, <1>3, AtMostOne
<1> QED
  BY <1>4, <1>5, <1>6, <1>7

\* The answers in the channels, and who waits for them.
LEMMA AnswersAreAwaited == ASSUME TypeInv, Asking, Dialogue PROVE NoOrphanAnswer
<1> SUFFICES ASSUME NEW w \in Workers
             PROVE  /\ \A i \in DOMAIN toM[w] :
                         toM[w][i].type = "result" => toM[w][i].key \in waitM
                    /\ \A i \in DOMAIN toW[w] :
                         toW[w][i].type = "result" => toW[w][i].key \in waitW[w]
  BY DEF NoOrphanAnswer
<1>1. \A i \in DOMAIN toM[w] : toM[w][i] \in Range(toM[w])
  BY DEF Range
<1>2. \A i \in DOMAIN toW[w] : toW[w][i] \in Range(toW[w])
  BY DEF Range
<1>3. \A m \in Range(toM[w]) : m.type = "result" => m.key \in waitM
  BY DEF Asking, Keyed
<1>4. \A m \in Range(toW[w]) : m.type = "result" => m.key \in waitW[w]
  BY DEF Dialogue, Spoken
<1> QED
  BY <1>1, <1>2, <1>3, <1>4

-----------------------------------------------------------------------------
(* The theorems *)

\* The state of the channels, the caches and the statistics has its types,
\* whatever the workers, the master and the cloud do.
THEOREM TypeCorrect == Spec => []TypeOK
<1>1. IInv => TypeOK
  BY TypeInvIsTyped DEF IInv
<1> QED
  BY <1>1, InitIInv, StepIInv, PTL DEF Spec

\* on_response of util/cluster_ipc.js never gets an answer to a call that is
\* not waiting: not of a worker that died, not from a handler that came late, not
\* of a flush that was cancelled or of a manager that was stopped meanwhile.
THEOREM AnswersFindTheirCalls == Spec => []NoOrphanAnswer
<1>1. IInv => NoOrphanAnswer
  BY AnswersAreAwaited DEF IInv
<1> QED
  BY <1>1, InitIInv, StepIInv, PTL DEF Spec

\* The statistics of a request (lib/stat.js) are in one place at most on their
\* way from the worker to the cloud, so that the cloud gets them at most once,
\* whatever is restarted, cancelled or lost.
THEOREM StatisticsAreExact == Spec => []CountedOnce
<1>1. IInv => CountedOnce
  BY ApartIsOnce DEF IInv
<1> QED
  BY <1>1, InitIInv, StepIInv, PTL DEF Spec

\* lib/cache.js: the space that is taken is what the timers will give back, the
\* entries fit into the limit, and each has its own timer before it.
THEOREM CacheKeepsItsLimit == Spec => []CacheBounded
<1>1. IInv => CacheBounded
  BY StoredIsBounded DEF IInv
<1> QED
  BY <1>1, InitIInv, StepIInv, PTL DEF Spec
=============================================================================
