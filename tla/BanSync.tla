------------------------------- MODULE BanSync -------------------------------
(***************************************************************************)
(* How the ban list of a proxy port is kept the same in the master and in  *)
(* every worker.  The master holds one list per Proxy_port                 *)
(* (lib/proxy_port.js), every worker one per Server (lib/server.js), and   *)
(* they tell each other what changed over the worker's IPC channel         *)
(* (lib/worker.js handle_message).  In the cloud several masters serve the *)
(* same port and keep their lists the same through redis (Cloud_ip_cache   *)
(* of lib/ip_cache.js): they publish every change and store the list,      *)
(* which a master that starts loads.  Bans are for ever here; IpCache has  *)
(* the timers.                                                             *)
(***************************************************************************)
EXTENDS Integers, Sequences, SequencesExt, FiniteSets

CONSTANTS
    Masters,      \* managers
    Workers,      \* slots of cluster workers
    Ports,        \* proxy ports
    Ips,
    Domains,      \* domains that bans may be restricted to
    NoDomain,     \* a ban of the IP for every domain
    Worlds,       \* what may happen, see World
    MaxQueue      \* bound on the messages in a channel

AllOperations == {"ban", "unban", "unbans", "global", "update", "rule", "rule_global",
                  "reboot"}

Entries == [ip : Ips, dom : Domains \union {NoDomain}]

\* What a behaviour may contain, chosen when it starts.
World == [ports : SUBSET Ports,
          entries : SUBSET Entries,           \* the bans that occur
          master : [Workers -> Masters],      \* who forks the worker
          cloud : BOOLEAN,                    \* the lists are Cloud_ip_caches
          operations : SUBSET AllOperations,  \* what users and rules do
          patient : BOOLEAN,   \* users act only when no message is under way
          max_ops : Nat,       \* bounds on the operations and ...
          max_restarts : Nat]  \* ... on the crashes

ASSUME SyncAssumption == /\ NoDomain \notin Domains
                         /\ Worlds \subseteq World
                         /\ MaxQueue \in Nat
ASSUME PortsAssumption == IsFiniteSet(Ports)

VARIABLES
    world,     \* does not change
    mban,      \* Proxy_port.banlist of each master and port
    wban,      \* Server.banlist of each worker and port
    created,   \* the ports whose CREATE the worker has handled
    down,      \* messages from the master to a worker
    up,        \* messages from a worker to the master
    news,      \* published commands that have not reached the master yet
    sets,      \* lists that the master has sent to be stored
    stored,    \* the list of each port in redis
    loading,   \* the masters that wait for the stored lists
    lifted,    \* history: bans a user lifted and nobody asked for since
    ops,
    restarts

redis == <<news, sets, stored, loading>>
vars == <<world, mban, wban, created, down, up, redis, lifted, ops, restarts>>

\* Ip_cache.has: banned for every domain or for this one
Has(B, e) == [e EXCEPT !.dom = NoDomain] \in B \/ e \in B

Msg(code, p, e) == [code |-> code, port |-> p, entry |-> e]
Config(m, code, p) == [code |-> code, port |-> p, bans |-> mban[m][p]]

\* The masters that run, and the workers of one of them
Running == Range(world.master)
WorkersOf(m) == {w \in Workers : world.master[w] = m}

Send(m, msgs) == [w \in Workers |-> IF w \in WorkersOf(m) THEN down[w] \o msgs ELSE down[w]]
Room == \A w \in Workers : Len(down[w]) + Cardinality(world.ports) <= MaxQueue

Quiet == /\ \A w \in Workers : down[w] = <<>> /\ up[w] = <<>>
         /\ \A m \in Masters : news[m] = {} /\ sets[m] = <<>>
         /\ loading = {}

\* Every worker was forked and every port created before the behaviour starts.
Init == /\ world \in Worlds
        /\ mban = [m \in Masters |-> [p \in Ports |-> {}]]
        /\ wban = [w \in Workers |-> [p \in Ports |-> {}]]
        /\ created = [w \in Workers |-> world.ports]
        /\ down = [w \in Workers |-> <<>>]
        /\ up = [w \in Workers |-> <<>>]
        /\ news = [m \in Masters |-> {}]
        /\ sets = [m \in Masters |-> <<>>]
        /\ stored = [p \in Ports |-> {}]
        /\ loading = {}
        /\ lifted = [p \in Ports |-> {}]
        /\ ops = 0
        /\ restarts = 0

-----------------------------------------------------------------------------
(***************************************************************************)
(* Cloud_ip_cache.  Redis, external: a published command reaches every     *)
(* master, the one it is from included, at any time and in any order; the  *)
(* lists of one master are stored in the order in which they were sent.    *)
(***************************************************************************)

\* Cloud_ip_cache._cmd for msgs, with the lists as they are now
MutCmd(m, msgs) ==
    /\ news' = [n \in Masters |-> IF n \in Running THEN news[n] \union Range(msgs) ELSE {}]
    /\ UNCHANGED <<sets, stored, loading>>
Cmd(m, msgs) ==
    IF world.cloud
    THEN /\ news' = [n \in Masters |-> IF n \in Running THEN news[n] \union Range(msgs) ELSE {}]
         /\ sets' = [sets EXCEPT ![m] =
                        @ \o [i \in DOMAIN msgs |-> [port |-> msgs[i].port,
                                                     bans |-> mban'[m][msgs[i].port]]]]
         /\ UNCHANGED <<stored, loading>>
    ELSE UNCHANGED redis

\* A change that is new to master m goes to redis and to every worker, the one
\* it came from included.
Spread(m, msgs) == Cmd(m, msgs) /\ down' = Send(m, msgs)

\* What a command makes of the list B
MutNoBan(B, msg) == CASE msg.code = "BANIP" -> B
                      [] msg.code = "UNBANIP" -> B \ {msg.entry}
                      [] msg.code = "UNBANIPS" -> {}
MutNoUnban(B, msg) == CASE msg.code = "BANIP" -> B \union {msg.entry}
                        [] msg.code = "UNBANIP" -> B
                        [] msg.code = "UNBANIPS" -> {}
Applied(B, msg) == CASE msg.code = "BANIP" -> B \union {msg.entry}
                     [] msg.code = "UNBANIP" -> B \ {msg.entry}
                     [] msg.code = "UNBANIPS" -> {}

\* A message of the channel: the list is changed whatever it held, and every
\* worker is told ('cmd' of Proxy_port).
MasterHears(m) ==
    /\ Room
    /\ \E msg \in news[m] :
          /\ news' = [news EXCEPT ![m] = @ \ {msg}]
          /\ mban' = [mban EXCEPT ![m][msg.port] = Applied(@, msg)]
          /\ down' = Send(m, <<msg>>)
    /\ UNCHANGED <<world, wban, created, up, sets, stored, loading, lifted, ops, restarts>>

RedisSets(m) ==
    /\ sets[m] # <<>>
    /\ stored' = [stored EXCEPT ![Head(sets[m]).port] = Head(sets[m]).bans]
    /\ sets' = [sets EXCEPT ![m] = Tail(@)]
    /\ UNCHANGED <<world, mban, wban, created, down, up, news, loading, lifted, ops, restarts>>

\* load_data: the stored list replaces the one of the master; no worker is told
load_data(m) ==
    /\ m \in loading
    /\ loading' = loading \ {m}
    /\ mban' = [mban EXCEPT ![m] = stored]
    /\ UNCHANGED <<world, wban, created, down, up, news, sets, stored, lifted, ops, restarts>>

-----------------------------------------------------------------------------
(***************************************************************************)
(* Proxy_port's handlers.                                                  *)
(***************************************************************************)

\* The ports of P whose list does not have e yet
MutNewOn(m, P, e) == P
NewOn(m, P, e) == {p \in P : ~Has(mban[m][p], e)}

\* handle_banip on every port of P
handle_banip(m, P, e) ==
    LET Q == NewOn(m, P, e)
        ports == SetToSeq(Q)
    IN /\ mban' = [mban EXCEPT ![m] =
                      [p \in Ports |-> IF p \in Q THEN @[p] \union {e} ELSE @[p]]]
       /\ Spread(m, [i \in DOMAIN ports |-> Msg("BANIP", ports[i], e)])

\* handle_unbanip
handle_unbanip(m, p, e) ==
    IF Has(mban[m][p], e)
    THEN /\ mban' = [mban EXCEPT ![m][p] = @ \ {e}]
         /\ Spread(m, <<Msg("UNBANIP", p, e)>>)
    ELSE UNCHANGED <<mban, down, redis>>

\* Manager.banip: the ports of the request; no list of ports selects none.
NoPorts == {}
Selected(ports) == {p \in world.ports : p \in ports}

-----------------------------------------------------------------------------
(***************************************************************************)
(* Users of the API.                                                       *)
(***************************************************************************)
Operation(name) == /\ name \in world.operations
                   /\ ops < world.max_ops
                   /\ ops' = ops + 1
                   /\ Room
                   /\ world.patient => Quiet
                   /\ UNCHANGED <<world, restarts, created, wban, up>>

\* POST /proxies/:port/banip and banips
proxy_banip(m, p, e) ==
    /\ Operation("ban")
    /\ handle_banip(m, {p}, e)
    /\ lifted' = [lifted EXCEPT ![p] = @ \ {e}]

\* POST /banip, for the given ports
global_banip(m, ports, e) ==
    /\ Operation("global")
    /\ handle_banip(m, Selected(ports), e)
    /\ lifted' = [p \in Ports |-> IF p \in ports THEN lifted[p] \ {e} ELSE lifted[p]]

\* POST /proxies/:port/unbanip: refused unless some ban of the IP is listed
proxy_unbanip(m, p, e) ==
    /\ Operation("unban")
    /\ \E b \in mban[m][p] : b.ip = e.ip
    /\ world.patient => e \in mban[m][p]
    /\ handle_unbanip(m, p, e)
    /\ lifted' = [lifted EXCEPT ![p] = @ \union {e}]

\* POST /proxies/:port/unbanips
proxy_unbanips(m, p) ==
    /\ Operation("unbans")
    /\ mban[m][p] # {}
    /\ mban' = [mban EXCEPT ![m][p] = {}]
    /\ Spread(m, <<[code |-> "UNBANIPS", port |-> p]>>)
    /\ lifted' = [lifted EXCEPT ![p] = Entries]

\* Proxy_port.update_config carries the list along
update_config(m, p) ==
    /\ Operation("update")
    /\ down' = Send(m, <<Config(m, "UPDATE_CONFIG", p)>>)
    /\ UNCHANGED <<world, mban, redis, lifted>>

-----------------------------------------------------------------------------
(***************************************************************************)
(* Workers.                                                                *)
(***************************************************************************)

\* Rule actions ban_ip and ban_ip_domain: Server.banip while a response is
\* handled; it does not look whether the IP is banned already.
rule_ban(w, p, e) ==
    /\ "rule" \in world.operations
    /\ ops < world.max_ops
    /\ ops' = ops + 1
    /\ p \in created[w]
    /\ Len(up[w]) < MaxQueue
    /\ wban' = [wban EXCEPT ![w][p] = @ \union {e}]
    /\ up' = [up EXCEPT ![w] = Append(@, Msg("BANIP", p, e))]
    /\ lifted' = [lifted EXCEPT ![p] = @ \ {e}]
    /\ UNCHANGED <<world, mban, created, down, redis, restarts>>

\* Rule action ban_ip_global
rule_ban_global(w, p, ip) ==
    /\ "rule_global" \in world.operations
    /\ ops < world.max_ops
    /\ ops' = ops + 1
    /\ p \in created[w]
    /\ Len(up[w]) < MaxQueue
    /\ up' = [up EXCEPT ![w] =
                 Append(@, Msg("BANIP_GLOBAL", p, [ip |-> ip, dom |-> NoDomain]))]
    /\ UNCHANGED <<world, mban, wban, created, down, redis, lifted, restarts>>

\* Worker.handle_message: what the list of the port becomes ...
Handled(w, m) ==
    IF m.code = "CREATE" THEN m.bans
    ELSE IF m.port \notin created[w] THEN wban[w][m.port]
    ELSE IF m.code = "UPDATE_CONFIG" THEN m.bans
    ELSE Applied(wban[w][m.port], m)

\* ... and the event that Server.banip and Server.unbanip send back
MutEcho(w, m) == <<m>>
Echo(w, m) ==
    IF /\ m.port \in created[w]
       /\ \/ m.code = "BANIP"
          \/ m.code = "UNBANIP" /\ Has(wban[w][m.port], m.entry)
    THEN <<m>> ELSE <<>>

WorkerHandles(w) ==
    /\ down[w] # <<>>
    /\ Len(up[w]) < MaxQueue
    /\ LET m == Head(down[w]) IN
          /\ wban' = [wban EXCEPT ![w][m.port] = Handled(w, m)]
          /\ created' = IF m.code = "CREATE"
                        THEN [created EXCEPT ![w] = @ \union {m.port}]
                        ELSE created
          /\ up' = [up EXCEPT ![w] = @ \o Echo(w, m)]
    /\ down' = [down EXCEPT ![w] = Tail(@)]
    /\ UNCHANGED <<world, mban, redis, lifted, ops, restarts>>

\* Proxy_port.handle_message
MasterHandles(w) ==
    /\ up[w] # <<>>
    /\ Room
    /\ LET msg == Head(up[w])
           m == world.master[w]
       IN \/ msg.code = "BANIP" /\ handle_banip(m, {msg.port}, msg.entry)
          \/ msg.code = "UNBANIP" /\ handle_unbanip(m, msg.port, msg.entry)
          \/ msg.code = "BANIP_GLOBAL" /\ handle_banip(m, Selected(NoPorts), msg.entry)
    /\ up' = [up EXCEPT ![w] = Tail(@)]
    /\ UNCHANGED <<world, wban, created, lifted, ops, restarts>>

\* Processes that die lose what is in their channels.
Die(W, creates) ==
    /\ restarts < world.max_restarts
    /\ restarts' = restarts + 1
    /\ wban' = [w \in Workers |-> IF w \in W THEN [p \in Ports |-> {}] ELSE wban[w]]
    /\ created' = [w \in Workers |-> IF w \in W THEN {} ELSE created[w]]
    /\ up' = [w \in Workers |-> IF w \in W THEN <<>> ELSE up[w]]
    /\ down' = [w \in Workers |-> IF w \in W THEN creates ELSE down[w]]
    /\ UNCHANGED <<world, stored, lifted, ops>>

\* One CREATE per port, with its list
MutCreates(list) ==
    LET ports == SetToSeq(world.ports) IN
    [i \in DOMAIN ports |-> [code |-> "CREATE", port |-> ports[i], bans |-> {}]]
Creates(list) ==
    LET ports == SetToSeq(world.ports) IN
    [i \in DOMAIN ports |-> [code |-> "CREATE", port |-> ports[i], bans |-> list[ports[i]]]]

\* A worker dies; the master forks another and sends it a CREATE per port
\* (on_worker_exit, recreate_worker, setup_worker).
Restart(w) ==
    /\ Die({w}, Creates(mban[world.master[w]]))
    /\ UNCHANGED <<mban, news, sets, loading>>

\* A master in the cloud dies with its workers.  The new one makes its ports
\* with empty lists and loads the stored ones when redis is ready, which may be
\* before or after its workers got their CREATEs.
Reboot(m) ==
    /\ "reboot" \in world.operations
    /\ world.patient => Quiet
    /\ Die(WorkersOf(m), Creates([p \in Ports |-> {}]))
    /\ mban' = [mban EXCEPT ![m] = [p \in Ports |-> {}]]
    /\ news' = [news EXCEPT ![m] = {}]
    /\ sets' = [sets EXCEPT ![m] = <<>>]
    /\ loading' = loading \union {m}

Next == \/ \E m \in Running, p \in world.ports, e \in world.entries :
               proxy_banip(m, p, e) \/ proxy_unbanip(m, p, e)
        \/ \E m \in Running, P \in SUBSET world.ports, e \in world.entries :
               global_banip(m, P, e)
        \/ \E m \in Running, p \in world.ports : proxy_unbanips(m, p) \/ update_config(m, p)
        \/ \E w \in Workers, p \in world.ports :
               \E e \in world.entries : rule_ban(w, p, e) \/ rule_ban_global(w, p, e.ip)
        \/ \E w \in Workers : WorkerHandles(w) \/ MasterHandles(w) \/ Restart(w)
        \/ \E m \in Running : MasterHears(m) \/ RedisSets(m) \/ load_data(m) \/ Reboot(m)

Spec == Init /\ [][Next]_vars

\* Node delivers every message of a live channel, and so does redis.
FairSpec == /\ Spec
            /\ \A w \in Workers : WF_vars(WorkerHandles(w)) /\ WF_vars(MasterHandles(w))
            /\ \A m \in Masters : WF_vars(MasterHears(m) \/ RedisSets(m) \/ load_data(m))

-----------------------------------------------------------------------------
Event == [code : {"BANIP", "UNBANIP", "BANIP_GLOBAL"}, port : Ports, entry : Entries]
Command == [code : {"BANIP", "UNBANIP"}, port : Ports, entry : Entries]
           \union [code : {"CREATE", "UPDATE_CONFIG"}, port : Ports, bans : SUBSET Entries]
           \union [code : {"UNBANIPS"}, port : Ports]
Stored == [port : Ports, bans : SUBSET Entries]

\* Types: workers send only the events that Proxy_port handles, and the master
\* only commands that every worker understands.
TypeOK == /\ world \in Worlds
          /\ mban \in [Masters -> [Ports -> SUBSET Entries]]
          /\ wban \in [Workers -> [Ports -> SUBSET Entries]]
          /\ created \in [Workers -> SUBSET Ports]
          /\ down \in [Workers -> Seq(Command)]
          /\ up \in [Workers -> Seq(Event)]
          /\ news \in [Masters -> SUBSET Command]
          /\ sets \in [Masters -> Seq(Stored)]
          /\ stored \in [Ports -> SUBSET Entries]
          /\ loading \subseteq Running
          /\ lifted \in [Ports -> SUBSET Entries]
          /\ ops \in Nat /\ restarts \in Nat

\* The workers of a master that was started again may have been set up with an
\* empty list before load_data had its answer; they are not told of it.
WorkersLag == "reboot" \in world.operations /\ restarts > 0

\* The worlds in which the lists agree.  They need not
\* - if workers of different masters do not share a list in redis;
\* - if a rule bans for a domain: while the IP is banned for every domain the
\*   master ignores the event (handle_banip), so the ban stays in one worker;
\* - if changes cross in redis, where they come in any order, other than bans;
\* - if a master dies that has no stored list, or that loses what others do.
Coherent(W) ==
    /\ W.cloud \/ \A v, w \in Workers : W.master[v] = W.master[w]
    /\ "rule" \in W.operations => \A e \in W.entries : e.dom = NoDomain
    /\ W.cloud => IF W.patient THEN "rule" \notin W.operations
                  ELSE W.operations \intersect {"unban", "unbans", "reboot"} = {}
    /\ "reboot" \in W.operations => W.cloud

\* When no message is under way all masters list the same IPs, and a worker
\* refuses exactly those: nothing was lost in a crash, in a configuration update
\* or in changes that crossed, be it in the channels or in redis.
QuietAgreement ==
    Quiet => /\ \A m, n \in Running : mban[m] = mban[n]
             /\ WorkersLag \/ \A w \in Workers : wban[w] = mban[world.master[w]]

\* Users who wait between their operations leave in redis the list that the
\* masters have, for any master that starts then.  (Of two changes at the same
\* time the store keeps the list of the master whose set comes last, which may
\* not know of the other change.)
StoreIsCurrent ==
    Quiet /\ world.cloud /\ world.patient => \A m \in Running : stored = mban[m]

\* Where bans are for whole IPs the echoes of a change die out.  (With bans for
\* domains they need not: to lift (IP, domain) while the IP is banned for every
\* domain finds has() true after the deletion, in every process and every time,
\* and is echoed without end.)
Settles == (\A e \in world.entries : e.dom = NoDomain) => <>[]Quiet

\* What a rule bans in one worker is banned in all of them in the end.
BansSpread ==
    \A w \in Workers, p \in Ports, e \in Entries :
        e \in wban[w][p] ~>
            \/ \A v \in Workers : Has(wban[v][p], e)
            \/ e \notin wban[w][p]
            \/ WorkersLag

\* A ban that a user lifted, and that nobody asked for since, is lifted in the
\* end in every master and in every worker.
UnbansLast ==
    \A p \in Ports, e \in Entries :
        <>[](e \in lifted[p] =>
                /\ \A m \in Masters : e \notin mban[m][p]
                /\ \A w \in Workers : e \notin wban[w][p])
=============================================================================
