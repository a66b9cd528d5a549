----------------------------- MODULE PortCluster -----------------------------
(***************************************************************************)
(* The life of proxy ports in a master with a cluster of workers: a port   *)
(* is created, and deleted, in every worker (lib/mixins/mgr_proxy.js,      *)
(* lib/proxy_port.js, lib/worker.js), workers die and are forked again     *)
(* (lib/cluster_mgr.js), and a configuration from the cloud kills all      *)
(* workers and replaces all ports (apply_cloud_config of                   *)
(* lib/mixins/mgr_config.js).                                              *)
(*                                                                         *)
(* A port of Masters is persistent; it may have duplicates (multiply),     *)
(* Proxy_ports of their own that live and die with it.                     *)
(***************************************************************************)
EXTENDS Integers, Sequences, FiniteSets, SequencesExt, FiniteSetsExt

CONSTANTS
    Workers,     \* slots of cluster.workers
    Masters,     \* ports of the configuration
    Dup,         \* the duplicates of each
    Clients,     \* API requests
    Worlds       \* what may happen, see World

Ports(m) == {m} \union Dup[m]
AllPorts == UNION {Ports(m) : m \in Masters}

\* What a behaviour may contain, chosen when it starts.
World == [ports : SUBSET Masters,  \* the ports that are configured or asked for
          operations : SUBSET {"create", "delete", "replace"},  \* what the clients ask for
          patient : BOOLEAN,  \* a client asks only when nothing else goes on
          max_ops : Nat,      \* bounds on the requests, ...
          max_crashes : Nat,  \* ... on the worker crashes and ...
          max_syncs : Nat]    \* ... on the configurations from the cloud

ASSUME PortsAssumption ==
    /\ IsFiniteSet(Masters) /\ \A m \in Masters : IsFiniteSet(Dup[m])
    /\ \A m \in Masters : Dup[m] \intersect Masters = {}
    /\ \A m, n \in Masters : m # n => Dup[m] \intersect Dup[n] = {}
ASSUME ClusterAssumption ==
    /\ IsFiniteSet(Workers) /\ Workers # {} /\ IsFiniteSet(Clients)
    /\ Worlds \subseteq World

VARIABLES
    world,        \* does not change
    proxy_ports,  \* the keys of Manager.proxy_ports
    deleting,     \* the masters whose Proxy_port.deleting is set
    dups,         \* Proxy_port.dups of each master
    ready,        \* Proxy_port.ready and ...
    stopped,      \* ... Proxy_port.stopped: messages counted
    got_ready,    \* the ports that emitted 'ready'
    got_stopped,  \* the ports that emitted 'stopped'
    proxies,      \* Manager.proxies: how many entries each master has
    task,         \* what each client's request waits for
    apply,        \* where apply_cloud_config is
    pending,      \* pending_cloud_config is set
    wstate,       \* "up", "dead" (not noticed yet) or "killed"
    servers,      \* Worker.servers: the ports each worker has a Server for
    binding,      \* the ports whose Server asked the master's cluster module
                  \* for its socket and has not got it yet
    bound,        \* the ports each worker listens on
    down, up,     \* messages to and from each worker
    ops, crashes, syncs,
    overtaken     \* read by the properties only: the ports that lost their
                  \* entry of Manager.proxies to a configuration from the cloud

portvars == <<proxy_ports, deleting, dups, ready, stopped, got_ready, got_stopped>>
workervars == <<wstate, servers, binding, bound, down, up>>
bounds == <<world, ops, crashes, syncs, overtaken>>
vars == <<portvars, proxies, task, apply, pending, workervars, bounds>>

Idle == [pc |-> "idle"]
Lost == [pc |-> "lost"]

\* cluster.workers: a worker that died stays there until its exit is handled.
Cluster == {w \in Workers : wstate[w] # "killed"}
Count == Cardinality(Cluster)

\* A message to every worker; one that is dead does not get it.
Send(msgs) == [w \in Workers |-> IF wstate[w] = "up" THEN down[w] \o msgs ELSE down[w]]

Msgs(code, P) == [i \in 1 .. Cardinality(P) |-> [code |-> code, port |-> SetToSeq(P)[i]]]

\* Every port of the configuration runs before the behaviour starts.
Init ==
    /\ world \in Worlds
    /\ \E M \in SUBSET world.ports :
        /\ proxy_ports = UNION {Ports(m) : m \in M}
        /\ deleting = {}
        /\ dups = [m \in Masters |-> IF m \in M THEN Dup[m] ELSE {}]
        /\ ready = [p \in AllPorts |-> IF p \in proxy_ports THEN Cardinality(Workers) ELSE 0]
        /\ stopped = [p \in AllPorts |-> 0]
        /\ got_ready = proxy_ports
        /\ got_stopped = {}
        /\ proxies = [m \in Masters |-> IF m \in M THEN 1 ELSE 0]
        /\ task = [c \in Clients |-> Idle]
        /\ apply = "idle"
        /\ pending = FALSE
        /\ wstate = [w \in Workers |-> "up"]
        /\ servers = [w \in Workers |-> proxy_ports]
        /\ binding = [w \in Workers |-> {}]
        /\ bound = servers
        /\ down = [w \in Workers |-> <<>>]
        /\ up = [w \in Workers |-> <<>>]
        /\ ops = 0 /\ crashes = 0 /\ syncs = 0
        /\ overtaken = {}

-----------------------------------------------------------------------------
(***************************************************************************)
(* Requests of the API.                                                    *)
(***************************************************************************)
Nobody == /\ apply = "idle"
          /\ \A c \in Clients : task[c] = Idle

Request(op, c, m) ==
    /\ op \in world.operations
    /\ m \in world.ports
    /\ task[c] = Idle
    /\ world.patient => Nobody
    /\ ops < world.max_ops
    /\ ops' = ops + 1
    /\ UNCHANGED <<proxies, apply, pending, wstate, servers, binding, bound, up,
                   world, crashes, syncs, overtaken>>

\* A Proxy_port of P is constructed and started: its counters are new, and
\* without workers it is ready at once.
Constructed(P) ==
    /\ ready' = [p \in AllPorts |-> IF p \in P THEN 0 ELSE ready[p]]
    /\ stopped' = [p \in AllPorts |-> IF p \in P THEN 0 ELSE stopped[p]]
    /\ got_ready' = IF Cluster = {} THEN got_ready \union P ELSE got_ready \ P
    /\ got_stopped' = got_stopped \ P

\* POST /proxies: proxy_check tries to listen on the ports itself; meanwhile
\* another client may create one of them.
proxy_create(c, m) ==
    /\ Request("create", c, m)
    /\ proxy_ports \intersect Ports(m) = {}
    /\ \A w \in Workers : bound[w] \intersect Ports(m) = {}
    /\ task' = [task EXCEPT ![c] = [pc |-> "checked", port |-> m]]
    /\ UNCHANGED <<portvars, down>>

Creating(c, m) == task[c] = [pc |-> "creating", port |-> m]
Deleting(c, m) == task[c].pc = "deleting" /\ task[c].port = m

\* create_new_proxy once every port is ready
CanFinish(m) == Ports(m) \subseteq got_ready
proxy_created(c, m) ==
    /\ Creating(c, m)
    /\ CanFinish(m)
    /\ dups' = IF m \in proxy_ports THEN [dups EXCEPT ![m] = Dup[m]] ELSE dups
    /\ proxies' = [proxies EXCEPT ![m] = @ + 1]
    /\ task' = [task EXCEPT ![c] = Idle]
    /\ UNCHANGED <<proxy_ports, deleting, ready, stopped, got_ready, got_stopped,
                   apply, pending, workervars, bounds>>

\* proxy_delete up to the wait for 'stopped'.  The duplicates that stop with
\* the port are those it has now.
StoppedWith(m) == {m} \union dups[m]
Stop(c, m, op) ==
    /\ m \in proxy_ports
    /\ m \notin deleting
    /\ deleting' = deleting \union {m}
    /\ got_stopped' = IF Cluster = {} THEN got_stopped \union StoppedWith(m) ELSE got_stopped
    /\ down' = Send(Msgs("STOP", StoppedWith(m)))
    /\ task' = [task EXCEPT ![c] = [pc |-> "deleting", port |-> m, op |-> op,
                                    stops |-> StoppedWith(m)]]
    /\ UNCHANGED <<proxy_ports, dups, ready, stopped, got_ready>>

\* DELETE /proxies/:port, and PUT /proxies/:port with a change that needs a new
\* port: proxy_remove_and_create.
proxy_delete(c, m) ==
    \E op \in {"delete", "replace"} :
        /\ op = "replace" => proxies[m] > 0
        /\ Request(op, c, m) /\ Stop(c, m, op)

\* The ports that go with those of M: the duplicates they have by now.
Leaving(M) == UNION {{m} \union dups[m] : m \in M}

\* They leave proxy_ports and their listeners go.
Without(M) ==
    /\ proxy_ports' = proxy_ports \ Leaving(M)
    /\ dups' = [m \in Masters |-> IF m \in M THEN {} ELSE dups[m]]

\* proxy_delete once they stopped: the duplicates that go are those it has by
\* then.  A task that waits for 'ready' continues before a later event; one
\* that waits for a port that is gone waits for good.
MutSpliced(m) == [proxies EXCEPT ![m] = @ - 1]
Forgotten(m) == [proxies EXCEPT ![m] = IF @ = 0 THEN 0 ELSE @ - 1]
proxy_deleted(c, m) ==
    /\ Deleting(c, m)
    /\ task[c].stops \subseteq got_stopped
    /\ ~ \E d \in Clients : Creating(d, m) /\ CanFinish(m)
    /\ Without({m})
    /\ deleting' = deleting \ {m}
    /\ proxies' = Forgotten(m)
    /\ task' = [d \in Clients |->
                   IF d = c THEN IF task[c].op = "delete" THEN Idle
                                 ELSE [pc |-> "checked", port |-> m]
                   ELSE IF Creating(d, m) /\ m \notin got_ready THEN Lost
                   ELSE task[d]]
    /\ UNCHANGED <<ready, stopped, got_ready, got_stopped, apply, pending, workervars, bounds>>

\* init_proxy up to the wait for 'ready', after proxy_check or, in
\* proxy_remove_and_create, after the delete: a port that somebody else created
\* meanwhile is deleted first, unless that goes on already.
Checked(c, m) == task[c] = [pc |-> "checked", port |-> m]
init_proxy(c, m) ==
    /\ Checked(c, m)
    /\ \/ /\ m \notin proxy_ports
          /\ proxy_ports' = proxy_ports \union Ports(m)
          /\ dups' = [dups EXCEPT ![m] = {}]
          /\ Constructed(Ports(m))
          /\ down' = Send(Msgs("CREATE", Ports(m)))
          /\ task' = [task EXCEPT ![c] = [pc |-> "creating", port |-> m]]
          /\ UNCHANGED deleting
       \/ Stop(c, m, "replace")
       \/ /\ m \in deleting
          /\ task' = [task EXCEPT ![c] = Idle]
          /\ UNCHANGED <<portvars, down>>
    /\ UNCHANGED <<proxies, apply, pending, wstate, servers, binding, bound, up, bounds>>

-----------------------------------------------------------------------------
(***************************************************************************)
(* Workers and their messages.                                             *)
(***************************************************************************)

Event(w, code, p) == up' = [up EXCEPT ![w] = Append(@, [code |-> code, port |-> p])]

\* Worker.handle_message with CREATE, and with STOP for a port that the worker
\* has (any other is logged): Server.stop closes a server that listens, and
\* finds one that does not listen yet not running (Node lets go of the socket
\* when it comes after the close).
Opens(w, p) ==
    /\ servers' = [servers EXCEPT ![w] = @ \union {p}]
    /\ binding' = [binding EXCEPT ![w] = @ \union {p}]
    /\ UNCHANGED <<bound, up>>

Closed(w, p) == [bound EXCEPT ![w] = @ \ {p}]
Closes(w, p) ==
    /\ servers' = [servers EXCEPT ![w] = @ \ {p}]
    /\ binding' = [binding EXCEPT ![w] = @ \ {p}]
    /\ bound' = Closed(w, p)
    /\ Event(w, "STOPPED", p)

WorkerHandles(w) ==
    /\ wstate[w] = "up"
    /\ down[w] # <<>>
    /\ down' = [down EXCEPT ![w] = Tail(@)]
    /\ LET m == Head(down[w]) IN
          \/ m.code = "CREATE" /\ Opens(w, m.port)
          \/ m.code = "STOP" /\ m.port \in servers[w] /\ Closes(w, m.port)
          \/ m.code = "STOP" /\ m.port \notin servers[w] /\ UNCHANGED <<servers, binding, bound, up>>
    /\ UNCHANGED <<portvars, proxies, task, apply, pending, wstate, bounds>>

\* Server.listen: the socket comes, the server listens and says so.
Listening(w, p) ==
    /\ p \in binding[w]
    /\ binding' = [binding EXCEPT ![w] = @ \ {p}]
    /\ bound' = [bound EXCEPT ![w] = @ \union {p}]
    /\ Event(w, "READY", p)
    /\ UNCHANGED <<portvars, proxies, task, apply, pending, wstate, servers, down, bounds>>

\* handle_ready and handle_stopped: the event is emitted when the count
\* reaches the number of workers there are now.
MutReached(n) == n > Count
Reached(n) == n = Count
MasterHandles(w) ==
    /\ up[w] # <<>>
    /\ up' = [up EXCEPT ![w] = Tail(@)]
    /\ LET m == Head(up[w])
           p == m.port
       IN  \/ /\ p \in proxy_ports /\ m.code = "READY"
              /\ ready' = [ready EXCEPT ![p] = @ + 1]
              /\ got_ready' = IF Reached(ready[p] + 1) THEN got_ready \union {p} ELSE got_ready
              /\ UNCHANGED <<stopped, got_stopped>>
           \/ /\ p \in proxy_ports /\ m.code = "STOPPED"
              /\ stopped' = [stopped EXCEPT ![p] = @ + 1]
              /\ got_stopped' = IF Reached(stopped[p] + 1) THEN got_stopped \union {p} ELSE got_stopped
              /\ UNCHANGED <<ready, got_ready>>
           \/ /\ p \notin proxy_ports
              /\ UNCHANGED <<ready, stopped, got_ready, got_stopped>>
    /\ UNCHANGED <<proxy_ports, deleting, dups, proxies, task, apply, pending, wstate,
                   servers, binding, bound, down, bounds>>

\* The processes of W are gone with their sockets and what was sent to them.
Gone(W) == /\ servers' = [w \in Workers |-> IF w \in W THEN {} ELSE servers[w]]
           /\ binding' = [w \in Workers |-> IF w \in W THEN {} ELSE binding[w]]
           /\ bound' = [w \in Workers |-> IF w \in W THEN {} ELSE bound[w]]
           /\ down' = [w \in Workers |-> IF w \in W THEN <<>> ELSE down[w]]

\* A worker process dies; what it sent may be lost in part.
Crash(w) ==
    /\ wstate[w] = "up"
    /\ crashes < world.max_crashes
    /\ crashes' = crashes + 1
    /\ wstate' = [wstate EXCEPT ![w] = "dead"]
    /\ Gone({w})
    /\ \E n \in 0 .. Len(up[w]) : up' = [up EXCEPT ![w] = SubSeq(@, 1, n)]
    /\ UNCHANGED <<portvars, proxies, task, apply, pending, world, ops, syncs, overtaken>>

\* on_worker_exit and recreate_worker: a new worker in its place is sent a
\* CREATE for every port, one that is being deleted included.
MutRecreated == {}
Recreated == proxy_ports
WorkerExit(w) ==
    /\ wstate[w] = "dead"
    /\ wstate' = [wstate EXCEPT ![w] = "up"]
    /\ up' = [up EXCEPT ![w] = <<>>]
    /\ down' = [down EXCEPT ![w] = Msgs("CREATE", Recreated)]
    /\ UNCHANGED <<portvars, proxies, task, apply, pending, servers, binding, bound, bounds>>

-----------------------------------------------------------------------------
(***************************************************************************)
(* apply_cloud_config.                                                     *)
(***************************************************************************)

\* kill_workers: they leave cluster.workers at once, nothing they sent is
\* heard any more.
Kill == /\ wstate' = [w \in Workers |-> "killed"]
        /\ Gone(Workers)
        /\ up' = [w \in Workers |-> <<>>]

\* A configuration from the cloud; one that comes while another is applied
\* waits, in the place of one that waited already.
new_conf ==
    /\ syncs < world.max_syncs
    /\ syncs' = syncs + 1
    /\ world.patient => Nobody
    /\ \/ apply = "idle" /\ apply' = "killed" /\ Kill /\ UNCHANGED pending
       \/ apply # "idle" /\ pending' = TRUE /\ UNCHANGED <<apply, workervars>>
    /\ UNCHANGED <<portvars, proxies, task, world, ops, crashes, overtaken>>

\* The task ends, well or not; the configuration that waited comes next.
Finally ==
    /\ pending' = FALSE
    /\ apply' = IF pending THEN "killed" ELSE "idle"
    /\ IF pending THEN Kill ELSE UNCHANGED workervars

\* proxy_delete_wrapper on every port of the configuration (no worker has to
\* stop anything), then the new configuration takes over.  Requests (F) whose
\* other ports become ready between the two enter them into the old one.
Deletable == {m \in Masters : m \in proxy_ports \ deleting}
Configured == {m \in Masters : proxies[m] > 0}
Finishing(m) == {c \in Clients : Creating(c, m) /\ CanFinish(m)}
Made(F) == {m \in Masters : F \intersect Finishing(m) # {}}
delete_all(new) ==
    /\ apply = "killed"
    /\ Configured \subseteq Deletable
    /\ \E F \in SUBSET UNION {Finishing(m) : m \in Masters \ Configured} :
          /\ Configured = {} => F = {}
          /\ proxy_ports' = proxy_ports \ Leaving(Configured)
          /\ dups' = [m \in Masters |-> IF m \in Configured THEN {}
                                        ELSE IF m \in Made(F) \intersect proxy_ports THEN Dup[m]
                                        ELSE dups[m]]
          /\ task' = [c \in Clients |-> IF c \in F THEN Idle ELSE task[c]]
          /\ overtaken' = overtaken \union Made(F)
    /\ deleting' = deleting \ Configured
    /\ proxies' = [m \in Masters |-> IF m \in new THEN 1 ELSE 0]
    /\ apply' = "deleted"
    /\ UNCHANGED <<ready, stopped, got_ready, got_stopped, pending, workervars,
                   world, ops, crashes, syncs>>

\* One of them does not exist or is being deleted: the exception ends the
\* task.  Of the others some (D) were gone by then, the rest is left deleting.
delete_fails(D) ==
    /\ apply = "killed"
    /\ ~(Configured \subseteq Deletable)
    /\ D \subseteq Configured \intersect Deletable
    /\ Without(D)
    /\ deleting' = (deleting \union (Configured \intersect Deletable)) \ D
    /\ proxies' = [m \in Masters |-> IF m \in D THEN proxies[m] - 1 ELSE proxies[m]]
    /\ Finally
    /\ UNCHANGED <<ready, stopped, got_ready, got_stopped, task, bounds>>

\* init_proxies: a port that exists (a client created it) is deleted first, and
\* that takes the entry of the new configuration away.  A client whose port is
\* ready by then adds one of its own; one that still waits waits for good.
MutEntries(m) == Cardinality(Finishing(m)) + proxies[m]
Entries(m) == Cardinality(Finishing(m)) + IF m \in proxy_ports THEN 0 ELSE proxies[m]

\* A port that is being deleted drops out of the configuration.  Where the
\* delete ended meanwhile its entry is not found, and splice(-1, 1) takes the
\* last one of the list, of another port, instead.
Late == {m \in Configured \intersect deleting :
            \E c \in Clients : Deleting(c, m) /\ task[c].stops \subseteq got_stopped}
init_proxies ==
    LET started == Configured \ deleting
        P == UNION {Ports(m) : m \in started}
        kept == {c \in Clients : \A m \in started : ~Creating(c, m)}
    IN  /\ apply = "deleted"
        /\ proxy_ports' = proxy_ports \union P
        /\ dups' = [m \in Masters |-> IF m \in started THEN Dup[m] ELSE dups[m]]
        /\ Constructed(P)
        /\ \E L \in SUBSET started :
              /\ Cardinality(L) <= Cardinality(Late)
              /\ proxies' = [m \in Masters |-> IF m \in started \ L THEN Entries(m) ELSE 0]
        /\ overtaken' = overtaken \union {m \in started : proxies'[m] = 0}
        /\ task' = [c \in Clients |-> IF c \in kept THEN task[c]
                                      ELSE IF \E m \in started : c \in Finishing(m) THEN Idle
                                      ELSE Lost]
        /\ apply' = "started"
        /\ UNCHANGED <<deleting, pending, workervars, world, ops, crashes, syncs>>

\* run_workers: as many workers as before, each with a CREATE for every port
MutForked == [wstate EXCEPT ![CHOOSE w \in Workers : TRUE] = "up"]
Forked == [w \in Workers |-> "up"]
run_workers ==
    /\ apply = "started"
    /\ apply' = "running"
    /\ wstate' = Forked
    /\ down' = [w \in Workers |-> Msgs("CREATE", proxy_ports)]
    /\ UNCHANGED <<portvars, proxies, task, pending, servers, binding, bound, up, bounds>>

\* get_server_conf and get_lb_ips returned or threw.
apply_ends ==
    /\ apply = "running"
    /\ Finally
    /\ UNCHANGED <<portvars, proxies, task, bounds>>

-----------------------------------------------------------------------------
Cloud == \/ new_conf \/ init_proxies \/ run_workers \/ apply_ends
         \/ \E M \in SUBSET world.ports : delete_all(M) \/ delete_fails(M)

Next == \/ \E c \in Clients, m \in Masters :
               \/ proxy_create(c, m) \/ proxy_created(c, m)
               \/ proxy_delete(c, m) \/ proxy_deleted(c, m) \/ init_proxy(c, m)
        \/ \E w \in Workers :
               WorkerHandles(w) \/ MasterHandles(w) \/ Crash(w) \/ WorkerExit(w)
        \/ \E w \in Workers, p \in AllPorts : Listening(w, p)
        \/ Cloud

Spec == Init /\ [][Next]_vars

\* Messages of a live channel arrive, exits are noticed, and the tasks of the
\* master go on when what they wait for has happened.
Fairness ==
    /\ \A w \in Workers : /\ WF_vars(WorkerHandles(w)) /\ WF_vars(MasterHandles(w))
                          /\ WF_vars(WorkerExit(w))
    /\ \A w \in Workers, p \in AllPorts : WF_vars(Listening(w, p))
    /\ \A c \in Clients, m \in Masters : /\ WF_vars(proxy_created(c, m)) /\ WF_vars(proxy_deleted(c, m))
                                        /\ WF_vars(init_proxy(c, m))
    /\ WF_vars(init_proxies) /\ WF_vars(run_workers) /\ WF_vars(apply_ends)
    /\ WF_vars(\E M \in SUBSET world.ports : delete_all(M) \/ delete_fails(M))

FairSpec == Spec /\ Fairness

-----------------------------------------------------------------------------
(***************************************************************************)
(* Properties.                                                             *)
(***************************************************************************)

\* Types: only masters are deleted by themselves, and no worker is told or
\* tells anything but the four messages of this protocol.
Orders == [code : {"CREATE", "STOP"}, port : AllPorts]
Reports == [code : {"READY", "STOPPED"}, port : AllPorts]
TypeOK ==
    /\ world \in Worlds
    /\ proxy_ports \subseteq AllPorts
    /\ deleting \subseteq Masters
    /\ dups \in [Masters -> SUBSET AllPorts]
    /\ ready \in [AllPorts -> Nat] /\ stopped \in [AllPorts -> Nat]
    /\ got_ready \subseteq AllPorts /\ got_stopped \subseteq AllPorts
    /\ proxies \in [Masters -> Nat]
    /\ overtaken \subseteq Masters
    /\ apply \in {"idle", "killed", "deleted", "started", "running"}
    /\ pending \in BOOLEAN
    /\ wstate \in [Workers -> {"up", "dead", "killed"}]
    /\ servers \in [Workers -> SUBSET AllPorts]
    /\ binding \in [Workers -> SUBSET AllPorts]
    /\ bound \in [Workers -> SUBSET AllPorts]
    /\ down \in [Workers -> Seq(Orders)] /\ up \in [Workers -> Seq(Reports)]

Waiting(m) == \E c \in Clients : Creating(c, m) \/ Deleting(c, m) \/ Checked(c, m)

\* While a port with duplicates starts, its Proxy_port.dups is empty: who deletes
\* it then leaves the duplicates running.  Where requests come one by one nobody
\* does, and a port without duplicates has none to leave.
Sound(m) == world.patient \/ Dup[m] = {} \/ m \notin world.ports

\* When nobody works on a port, the configuration that is saved and the ports
\* that run agree: one entry per port, all of its duplicates or none.  Only a
\* port that a configuration from the cloud met while a client created it may
\* run, whole, without an entry.
ConfigMatchesPorts ==
    apply = "idle" =>
        \A m \in Masters : ~Waiting(m) /\ Sound(m) =>
            \/ proxies[m] = 1 /\ Ports(m) \subseteq proxy_ports
            \/ proxies[m] = 0 /\ Ports(m) \intersect proxy_ports = {}
            \/ m \in overtaken /\ proxies[m] = 0 /\ Ports(m) \subseteq proxy_ports

Quiet == /\ Nobody
         /\ \A w \in Workers : wstate[w] = "up" /\ down[w] = <<>> /\ up[w] = <<>> /\ binding[w] = {}

\* No worker is forked while a request waits for a port to stop.
Orderly == /\ \A m \in Masters : Sound(m)
           /\ world.patient \/ world.max_syncs = 0
           /\ world.operations # {"create"} => world.max_crashes = 0

\* When no message is under way every worker listens on exactly the ports of
\* the master: none is missing after a crash, none goes on that was deleted.
\* (A worker forked during a delete opens the port again.)
WorkersServePorts == Orderly /\ Quiet => \A w \in Workers : bound[w] = proxy_ports

\* A request to create or to delete a port is answered.
RequestsEnd == \A c \in Clients : task[c] # Idle ~> task[c] = Idle

\* After a configuration from the cloud there are workers again.
WorkersReturn == \A w \in Workers : wstate[w] = "killed" ~> wstate[w] = "up"
=============================================================================
