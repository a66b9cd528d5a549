-------------------------- MODULE PortCluster_proofs --------------------------
(***************************************************************************)
(* Proofs about PortCluster for any workers, clients and ports with their  *)
(* duplicates, and any combination of what may happen.                     *)
(***************************************************************************)
EXTENDS PortCluster, SequenceFacts, FiniteSetTheorems

-----------------------------------------------------------------------------
(***************************************************************************)
(* Ports and messages.                                                     *)
(***************************************************************************)

Order(code, p) == [code |-> code, port |-> p]

\* Where the ports are.
LEMMA PortsShape ==
    /\ \A m \in Masters : m \in AllPorts /\ Dup[m] \subseteq AllPorts /\ Ports(m) \subseteq AllPorts
    /\ \A p \in AllPorts : \E m \in Masters : p \in Ports(m)
BY DEF AllPorts, Ports

\* A port belongs to one master only, and no duplicate is a master.
LEMMA PortsApart ==
    /\ \A m \in Masters, n \in Masters : m # n => Ports(m) \intersect Ports(n) = {}
    /\ \A m \in Masters, n \in Masters : n \notin Dup[m]
BY PortsAssumption DEF Ports

\* There are finitely many ports.
LEMMA PortsFinite == IsFiniteSet(AllPorts)
<1> DEFINE f == [m \in Masters |-> Ports(m)]
           S == {Ports(m) : m \in Masters}
<1>1. f \in Surjection(Masters, S)
  BY DEF Surjection
<1>2. IsFiniteSet(S)
  BY <1>1, FS_Surjection, PortsAssumption
<1>3. ASSUME NEW m \in Masters PROVE IsFiniteSet(Ports(m))
  BY FS_Union, FS_Singleton, PortsAssumption DEF Ports
<1> QED
  BY <1>2, <1>3, FS_UNION DEF AllPorts

\* SetToSeq lists every element of a finite set.
LEMMA Enumerated ==
    ASSUME NEW P, IsFiniteSet(P)
    PROVE  /\ Cardinality(P) \in Nat
           /\ SetToSeq(P) \in [1 .. Cardinality(P) -> P]
           /\ \A p \in P : \E i \in 1 .. Cardinality(P) : SetToSeq(P)[i] = p
<1>1. PICK n \in Nat : ExistsBijection(1 .. n, P)
  BY FS_NatBijection
<1>2. Cardinality(P) = n
  BY <1>1, FS_CountingElements
<1>3. PICK f \in Bijection(1 .. n, P) : TRUE
  BY <1>1 DEF ExistsBijection
<1>4. f \in [1 .. n -> P] /\ IsInjective(f)
  BY <1>3 DEF Bijection, Injection
<1> DEFINE g == SetToSeq(P)
<1>5. g \in [1 .. n -> P] /\ IsInjective(g)
  BY <1>2, <1>4 DEF SetToSeq
<1>6. IsFiniteSet(1 .. n) /\ Cardinality(1 .. n) = n
  BY FS_Interval
<1>7. g \in Surjection(1 .. n, P)
  <2>1. g \in Injection(1 .. n, P)
    BY <1>5 DEF Injection
  <2> HIDE DEF g
  <2> QED
    BY <2>1, <1>2, <1>6, FS_Injection
<1> HIDE DEF g
<1>8. \A p \in P : \E i \in 1 .. n : g[i] = p
  BY <1>7 DEF Surjection
<1> QED
  BY <1>2, <1>5, <1>8 DEF g

\* One message for every port of a set, all with the same code.
LEMMA MessagesFor ==
    ASSUME NEW code, NEW P \in SUBSET AllPorts
    PROVE  /\ Msgs(code, P) \in Seq([code : {code}, port : AllPorts])
           /\ \A i \in DOMAIN Msgs(code, P) : \E p \in P : Msgs(code, P)[i] = Order(code, p)
           /\ \A p \in P : \E i \in DOMAIN Msgs(code, P) : Msgs(code, P)[i] = Order(code, p)
<1>1. IsFiniteSet(P)
  BY PortsFinite, FS_Subset
<1> DEFINE n == Cardinality(P)
           g == SetToSeq(P)
<1>2. /\ n \in Nat /\ g \in [1 .. n -> P]
      /\ \A p \in P : \E i \in 1 .. n : g[i] = p
  BY <1>1, Enumerated
<1>3. Msgs(code, P) = [i \in 1 .. n |-> Order(code, g[i])]
  BY DEF Msgs, Order
<1> HIDE DEF n, g
<1> DEFINE q == [i \in 1 .. n |-> Order(code, g[i])]
<1>4. q \in [1 .. n -> [code : {code}, port : AllPorts]]
  BY <1>2 DEF Order
<1>5. q \in Seq([code : {code}, port : AllPorts])
  BY <1>2, <1>4
<1>6. /\ \A i \in DOMAIN q : \E p \in P : q[i] = Order(code, p)
      /\ \A p \in P : \E i \in DOMAIN q : q[i] = Order(code, p)
  BY <1>2
<1> QED
  BY <1>3, <1>5, <1>6

\* What is sent are orders to the workers.
LEMMA OrdersFor ==
    ASSUME NEW code \in {"CREATE", "STOP"}, NEW P \in SUBSET AllPorts
    PROVE  Msgs(code, P) \in Seq(Orders)
<1>1. Msgs(code, P) \in Seq([code : {code}, port : AllPorts])
  BY MessagesFor
<1>2. [code : {code}, port : AllPorts] \subseteq Orders
  BY DEF Orders
<1> DEFINE T == [code : {code}, port : AllPorts]
<1>3. ASSUME NEW q \in Seq(T), T \subseteq Orders PROVE q \in Seq(Orders)
  <2> HIDE DEF T
  <2> QED
    BY <1>3
<1> QED
  BY <1>1, <1>2, <1>3

-----------------------------------------------------------------------------
(***************************************************************************)
(* Types.                                                                  *)
(***************************************************************************)

\* What was chosen at the start: only masters are configured or asked for.
LEMMA WorldShape ==
    ASSUME TypeOK
    PROVE  /\ world.ports \subseteq Masters
           /\ world.operations \subseteq {"create", "delete", "replace"}
           /\ world.patient \in BOOLEAN
           /\ world.max_ops \in Nat /\ world.max_crashes \in Nat /\ world.max_syncs \in Nat
BY ClusterAssumption DEF TypeOK, World

\* The first states have the types.
LEMMA InitTypes == Init => TypeOK
<1> SUFFICES ASSUME Init PROVE TypeOK
  OBVIOUS
<1>1. PICK M \in SUBSET world.ports :
        /\ proxy_ports = UNION {Ports(m) : m \in M}
        /\ dups = [m \in Masters |-> IF m \in M THEN Dup[m] ELSE {}]
        /\ proxies = [m \in Masters |-> IF m \in M THEN 1 ELSE 0]
  BY DEF Init
<1>2. world \in Worlds /\ world.ports \subseteq Masters
  BY ClusterAssumption DEF Init, World
<1>3. proxy_ports \subseteq AllPorts
  BY <1>1, <1>2, PortsShape
<1>4. dups \in [Masters -> SUBSET AllPorts] /\ proxies \in [Masters -> Nat]
  BY <1>1, PortsShape
<1>5. Cardinality(Workers) \in Nat
  BY ClusterAssumption, FS_CardinalityType
<1>6. ready \in [AllPorts -> Nat] /\ stopped \in [AllPorts -> Nat]
  BY <1>5 DEF Init
<1>7. /\ deleting = {} /\ got_ready = proxy_ports /\ got_stopped = {}
      /\ apply = "idle" /\ pending = FALSE /\ wstate = [w \in Workers |-> "up"]
      /\ servers = [w \in Workers |-> proxy_ports] /\ binding = [w \in Workers |-> {}]
      /\ bound = servers
      /\ down = [w \in Workers |-> <<>>] /\ up = [w \in Workers |-> <<>>]
      /\ overtaken = {}
  BY DEF Init
<1>8. /\ servers \in [Workers -> SUBSET AllPorts] /\ binding \in [Workers -> SUBSET AllPorts]
      /\ bound \in [Workers -> SUBSET AllPorts]
  BY <1>3, <1>7
<1>9. down \in [Workers -> Seq(Orders)] /\ up \in [Workers -> Seq(Reports)]
  BY <1>7
<1>10. wstate \in [Workers -> {"up", "dead", "killed"}]
  BY <1>7
<1>11. deleting \subseteq Masters /\ got_ready \subseteq AllPorts /\ got_stopped \subseteq AllPorts
  BY <1>3, <1>7
<1> QED
  BY <1>2, <1>3, <1>4, <1>6, <1>7, <1>8, <1>9, <1>10, <1>11 DEF TypeOK

\* The counters and events of ports that are constructed again.
LEMMA ConstructedTypes ==
    ASSUME TypeOK, NEW P \in SUBSET AllPorts, Constructed(P)
    PROVE  /\ ready' \in [AllPorts -> Nat] /\ stopped' \in [AllPorts -> Nat]
           /\ got_ready' \subseteq AllPorts /\ got_stopped' \subseteq AllPorts
<1>1. ready' \in [AllPorts -> Nat] /\ stopped' \in [AllPorts -> Nat]
  BY DEF Constructed, TypeOK
<1>2. got_ready' \subseteq AllPorts
  BY DEF Constructed, TypeOK
<1>3. got_stopped' \subseteq AllPorts
  BY DEF Constructed, TypeOK
<1> QED
  BY <1>1, <1>2, <1>3

\* Orders are appended for workers that are up.
LEMMA SendTypes ==
    ASSUME TypeOK, NEW code \in {"CREATE", "STOP"}, NEW P \in SUBSET AllPorts,
           down' = Send(Msgs(code, P))
    PROVE  down' \in [Workers -> Seq(Orders)]
<1> DEFINE q == Msgs(code, P)
<1>1. q \in Seq(Orders)
  BY OrdersFor
<1>2. down \in [Workers -> Seq(Orders)]
  BY DEF TypeOK
<1>3. down' = [w \in Workers |-> IF wstate[w] = "up" THEN down[w] \o q ELSE down[w]]
  BY DEF Send
<1> HIDE DEF q
<1> QED
  BY <1>1, <1>2, <1>3

\* What Stop changes keeps its types.
LEMMA StopTypes ==
    ASSUME TypeOK, NEW c \in Clients, NEW m \in Masters, NEW op, Stop(c, m, op),
           UNCHANGED <<proxies, apply, pending, wstate, servers, binding, bound, up, world, overtaken>>
    PROVE  TypeOK'
<1>1. StoppedWith(m) \in SUBSET AllPorts
  BY PortsShape DEF StoppedWith, TypeOK
<1>2. down' \in [Workers -> Seq(Orders)]
  BY <1>1, SendTypes DEF Stop
<1>3. deleting' \subseteq Masters
  BY DEF Stop, TypeOK
<1>4. got_stopped' \subseteq AllPorts
  BY <1>1 DEF Stop, TypeOK
<1>5. UNCHANGED <<proxy_ports, dups, ready, stopped, got_ready, proxies, apply, pending,
                  wstate, servers, binding, bound, up, world, overtaken>>
  BY DEF Stop
<1> QED
  BY <1>2, <1>3, <1>4, <1>5 DEF TypeOK

\* Processes that are gone leave nothing of a wrong type.
LEMMA GoneTypes ==
    ASSUME TypeOK, NEW W, Gone(W)
    PROVE  /\ servers' \in [Workers -> SUBSET AllPorts] /\ binding' \in [Workers -> SUBSET AllPorts]
           /\ bound' \in [Workers -> SUBSET AllPorts]
           /\ down' \in [Workers -> Seq(Orders)]
BY DEF Gone, TypeOK

\* Neither do workers that are killed, ...
LEMMA KillTypes ==
    ASSUME TypeOK, Kill
    PROVE  /\ wstate' \in [Workers -> {"up", "dead", "killed"}]
           /\ servers' \in [Workers -> SUBSET AllPorts] /\ binding' \in [Workers -> SUBSET AllPorts]
           /\ bound' \in [Workers -> SUBSET AllPorts]
           /\ down' \in [Workers -> Seq(Orders)] /\ up' \in [Workers -> Seq(Reports)]
<1>1. wstate' \in [Workers -> {"up", "dead", "killed"}]
  BY DEF Kill
<1>2. up' \in [Workers -> Seq(Reports)]
  BY DEF Kill
<1> QED
  BY <1>1, <1>2, GoneTypes DEF Kill

\* ... nor does the end of a task.
LEMMA FinallyTypes ==
    ASSUME TypeOK, Finally
    PROVE  /\ apply' \in {"idle", "killed"} /\ pending' \in BOOLEAN
           /\ wstate' \in [Workers -> {"up", "dead", "killed"}]
           /\ servers' \in [Workers -> SUBSET AllPorts] /\ binding' \in [Workers -> SUBSET AllPorts]
           /\ bound' \in [Workers -> SUBSET AllPorts]
           /\ down' \in [Workers -> Seq(Orders)] /\ up' \in [Workers -> Seq(Reports)]
<1>1. apply' \in {"idle", "killed"} /\ pending' \in BOOLEAN
  BY DEF Finally
<1>2. CASE Kill
  BY <1>1, <1>2, KillTypes
<1>3. CASE UNCHANGED workervars
  BY <1>1, <1>3 DEF TypeOK, workervars
<1> QED
  BY <1>2, <1>3 DEF Finally

\* The ports of a request and of a configuration are masters.
LEMMA RequestShape ==
    ASSUME TypeOK, NEW op, NEW c \in Clients, NEW m \in Masters, Request(op, c, m)
    PROVE  UNCHANGED <<proxies, apply, pending, wstate, servers, binding, bound, up, world, overtaken>>
BY DEF Request

\* A step of a request keeps the types.
LEMMA RequestTypes ==
    ASSUME TypeOK, NEW c \in Clients, NEW m \in Masters,
           \/ proxy_create(c, m) \/ proxy_created(c, m)
           \/ proxy_delete(c, m) \/ proxy_deleted(c, m) \/ init_proxy(c, m)
    PROVE  TypeOK'
<1>1. CASE proxy_create(c, m)
  <2>1. UNCHANGED <<proxies, apply, pending, wstate, servers, binding, bound, up, world,
                    portvars, down, overtaken>>
    BY <1>1, RequestShape DEF proxy_create
  <2> QED
    BY <2>1 DEF TypeOK, portvars
<1>2. CASE proxy_created(c, m)
  <2>1. dups' \in [Masters -> SUBSET AllPorts]
    BY <1>2, PortsShape DEF proxy_created, TypeOK
  <2>2. proxies' \in [Masters -> Nat]
    BY <1>2 DEF proxy_created, TypeOK
  <2>3. UNCHANGED <<proxy_ports, deleting, ready, stopped, got_ready, got_stopped,
                    apply, pending, workervars, bounds>>
    BY <1>2 DEF proxy_created
  <2> QED
    BY <2>1, <2>2, <2>3 DEF TypeOK, workervars, bounds
<1>3. CASE proxy_delete(c, m)
  <2>1. PICK op \in {"delete", "replace"} : Request(op, c, m) /\ Stop(c, m, op)
    BY <1>3 DEF proxy_delete
  <2> QED
    BY <2>1, RequestShape, StopTypes
<1>4. CASE proxy_deleted(c, m)
  <2>1. /\ proxy_ports' \subseteq AllPorts /\ deleting' \subseteq Masters
        /\ dups' \in [Masters -> SUBSET AllPorts]
    BY <1>4 DEF proxy_deleted, Without, TypeOK
  <2>2. proxies' \in [Masters -> Nat]
    BY <1>4 DEF proxy_deleted, Forgotten, TypeOK
  <2>3. UNCHANGED <<ready, stopped, got_ready, got_stopped, apply, pending, workervars, bounds>>
    BY <1>4 DEF proxy_deleted
  <2> QED
    BY <2>1, <2>2, <2>3 DEF TypeOK, workervars, bounds
<1>5. CASE init_proxy(c, m)
  <2>1. UNCHANGED <<proxies, apply, pending, wstate, servers, binding, bound, up, world, overtaken>>
    BY <1>5 DEF init_proxy, bounds
  <2>2. CASE Stop(c, m, "replace")
    BY <2>1, <2>2, StopTypes
  <2>3. CASE UNCHANGED <<portvars, down>>
    BY <2>1, <2>3 DEF TypeOK, portvars
  <2>4. CASE /\ proxy_ports' = proxy_ports \union Ports(m)
             /\ dups' = [dups EXCEPT ![m] = {}]
             /\ Constructed(Ports(m))
             /\ down' = Send(Msgs("CREATE", Ports(m)))
             /\ UNCHANGED deleting
    <3>1. Ports(m) \in SUBSET AllPorts
      BY PortsShape
    <3>2. proxy_ports' \subseteq AllPorts /\ dups' \in [Masters -> SUBSET AllPorts]
      BY <2>4, <3>1 DEF TypeOK
    <3>3. /\ ready' \in [AllPorts -> Nat] /\ stopped' \in [AllPorts -> Nat]
          /\ got_ready' \subseteq AllPorts /\ got_stopped' \subseteq AllPorts
      BY <2>4, <3>1, ConstructedTypes
    <3>4. down' \in [Workers -> Seq(Orders)]
      BY <2>4, <3>1, SendTypes
    <3>5. deleting' = deleting
      BY <2>4
    <3> QED
      BY <2>1, <3>2, <3>3, <3>4, <3>5 DEF TypeOK
  <2> QED
    BY <1>5, <2>2, <2>3, <2>4 DEF init_proxy
<1> QED
  BY <1>1, <1>2, <1>3, <1>4, <1>5

\* An event is a report to the master.
LEMMA EventTypes ==
    ASSUME TypeOK, NEW w \in Workers, NEW code \in {"READY", "STOPPED"}, NEW p \in AllPorts,
           Event(w, code, p)
    PROVE  up' \in [Workers -> Seq(Reports)]
<1>1. [code |-> code, port |-> p] \in Reports
  BY DEF Reports
<1>2. up \in [Workers -> Seq(Reports)]
  BY DEF TypeOK
<1>3. Append(up[w], [code |-> code, port |-> p]) \in Seq(Reports)
  BY <1>1, <1>2, AppendShape
<1> QED
  BY <1>2, <1>3 DEF Event

\* A step of a worker or of a message keeps the types.
LEMMA WorkerTypes ==
    ASSUME TypeOK, NEW w \in Workers,
           \/ WorkerHandles(w) \/ MasterHandles(w) \/ Crash(w) \/ WorkerExit(w)
           \/ \E p \in AllPorts : Listening(w, p)
    PROVE  TypeOK'
<1>1. CASE WorkerHandles(w)
  <2>1. down[w] \in Seq(Orders) /\ down[w] # <<>>
    BY <1>1 DEF WorkerHandles, TypeOK
  <2>2. Head(down[w]) \in Orders /\ Tail(down[w]) \in Seq(Orders)
    BY <2>1, TailShape
  <2>3. Head(down[w]).port \in AllPorts
    BY <2>2 DEF Orders
  <2>4. down' \in [Workers -> Seq(Orders)]
    BY <1>1, <2>2 DEF WorkerHandles, TypeOK
  <2>5. UNCHANGED <<portvars, proxies, task, apply, pending, wstate, bounds>>
    BY <1>1 DEF WorkerHandles
  <2> DEFINE p == Head(down[w]).port
  <2>6. CASE Opens(w, p)
    <3>1. /\ servers' \in [Workers -> SUBSET AllPorts] /\ binding' \in [Workers -> SUBSET AllPorts]
          /\ UNCHANGED <<bound, up>>
      BY <2>3, <2>6 DEF Opens, TypeOK
    <3> QED
      BY <2>4, <2>5, <3>1 DEF TypeOK, portvars, bounds
  <2>7. CASE Closes(w, p)
    <3>1. /\ servers' \in [Workers -> SUBSET AllPorts] /\ binding' \in [Workers -> SUBSET AllPorts]
          /\ bound' \in [Workers -> SUBSET AllPorts]
      BY <2>7 DEF Closes, Closed, TypeOK
    <3>2. up' \in [Workers -> Seq(Reports)]
      BY <2>3, <2>7, EventTypes DEF Closes
    <3> QED
      BY <2>4, <2>5, <3>1, <3>2 DEF TypeOK, portvars, bounds
  <2>8. CASE UNCHANGED <<servers, binding, bound, up>>
    BY <2>4, <2>5, <2>8 DEF TypeOK, portvars, bounds
  <2> QED
    BY <1>1, <2>6, <2>7, <2>8 DEF WorkerHandles
<1>2. CASE MasterHandles(w)
  <2>1. up[w] \in Seq(Reports) /\ up[w] # <<>>
    BY <1>2 DEF MasterHandles, TypeOK
  <2>2. Head(up[w]) \in Reports /\ Tail(up[w]) \in Seq(Reports)
    BY <2>1, TailShape
  <2>3. Head(up[w]).port \in AllPorts
    BY <2>2 DEF Reports
  <2>4. up' \in [Workers -> Seq(Reports)]
    BY <1>2, <2>2 DEF MasterHandles, TypeOK
  <2> DEFINE p == Head(up[w]).port
  <2>5. ready' \in [AllPorts -> Nat] /\ stopped' \in [AllPorts -> Nat]
    <3>1. /\ ready' = ready \/ ready' = [ready EXCEPT ![p] = @ + 1]
          /\ stopped' = stopped \/ stopped' = [stopped EXCEPT ![p] = @ + 1]
      BY <1>2 DEF MasterHandles
    <3>2. ready \in [AllPorts -> Nat] /\ stopped \in [AllPorts -> Nat]
      BY DEF TypeOK
    <3>3. p \in AllPorts
      BY <2>3
    <3> HIDE DEF p
    <3> QED
      BY <3>1, <3>2, <3>3
  <2>6. got_ready' \subseteq AllPorts /\ got_stopped' \subseteq AllPorts
    BY <1>2, <2>3 DEF MasterHandles, TypeOK
  <2>7. UNCHANGED <<proxy_ports, deleting, dups, proxies, task, apply, pending, wstate,
                    servers, binding, bound, down, bounds>>
    BY <1>2 DEF MasterHandles
  <2> QED
    BY <2>4, <2>5, <2>6, <2>7 DEF TypeOK, bounds
<1>3. CASE Crash(w)
  <2>1. PICK n \in 0 .. Len(up[w]) : up' = [up EXCEPT ![w] = SubSeq(@, 1, n)]
    BY <1>3 DEF Crash
  <2>2. up[w] \in Seq(Reports)
    BY DEF TypeOK
  <2>3. SubSeq(up[w], 1, n) \in Seq(Reports)
    BY <2>2
  <2>4. up' \in [Workers -> Seq(Reports)]
    BY <2>1, <2>3 DEF TypeOK
  <2>5. /\ servers' \in [Workers -> SUBSET AllPorts] /\ binding' \in [Workers -> SUBSET AllPorts]
        /\ bound' \in [Workers -> SUBSET AllPorts]
        /\ down' \in [Workers -> Seq(Orders)]
    BY <1>3, GoneTypes DEF Crash
  <2>6. wstate' \in [Workers -> {"up", "dead", "killed"}]
    BY <1>3 DEF Crash, TypeOK
  <2>7. UNCHANGED <<portvars, proxies, apply, pending, world, overtaken>>
    BY <1>3 DEF Crash
  <2> QED
    BY <2>4, <2>5, <2>6, <2>7 DEF TypeOK, portvars
<1>4. CASE WorkerExit(w)
  <2>1. Msgs("CREATE", proxy_ports) \in Seq(Orders)
    BY OrdersFor DEF TypeOK
  <2>2. down' \in [Workers -> Seq(Orders)]
    BY <1>4, <2>1 DEF WorkerExit, Recreated, TypeOK
  <2>3. up' \in [Workers -> Seq(Reports)]
    BY <1>4 DEF WorkerExit, TypeOK
  <2>4. wstate' \in [Workers -> {"up", "dead", "killed"}]
    BY <1>4 DEF WorkerExit, TypeOK
  <2>5. UNCHANGED <<portvars, proxies, apply, pending, servers, binding, bound, bounds>>
    BY <1>4 DEF WorkerExit
  <2> QED
    BY <2>2, <2>3, <2>4, <2>5 DEF TypeOK, portvars, bounds
<1>5. ASSUME NEW p \in AllPorts, Listening(w, p) PROVE TypeOK'
  <2>1. up' \in [Workers -> Seq(Reports)]
    BY <1>5, EventTypes DEF Listening
  <2>2. binding' \in [Workers -> SUBSET AllPorts] /\ bound' \in [Workers -> SUBSET AllPorts]
    BY <1>5 DEF Listening, TypeOK
  <2>3. UNCHANGED <<portvars, proxies, apply, pending, wstate, servers, down, bounds>>
    BY <1>5 DEF Listening
  <2> QED
    BY <2>1, <2>2, <2>3 DEF TypeOK, portvars, bounds
<1> QED
  BY <1>1, <1>2, <1>3, <1>4, <1>5

\* A step of apply_cloud_config keeps the types.
LEMMA CloudTypes ==
    ASSUME TypeOK, Cloud
    PROVE  TypeOK'
<1>1. CASE new_conf
  <2>1. UNCHANGED <<portvars, proxies, world, overtaken>>
    BY <1>1 DEF new_conf
  <2>2. CASE apply' = "killed" /\ Kill /\ UNCHANGED pending
    BY <2>1, <2>2, KillTypes DEF TypeOK, portvars
  <2>3. CASE pending' = TRUE /\ UNCHANGED <<apply, workervars>>
    BY <2>1, <2>3 DEF TypeOK, portvars, workervars
  <2> QED
    BY <1>1, <2>2, <2>3 DEF new_conf
<1>2. CASE init_proxies
  <2> DEFINE P == UNION {Ports(m) : m \in Configured \ deleting}
  <2>1. P \in SUBSET AllPorts
    BY PortsShape DEF Configured
  <2>2. /\ ready' \in [AllPorts -> Nat] /\ stopped' \in [AllPorts -> Nat]
        /\ got_ready' \subseteq AllPorts /\ got_stopped' \subseteq AllPorts
    BY <1>2, <2>1, ConstructedTypes DEF init_proxies
  <2>3. /\ proxy_ports' \subseteq AllPorts /\ dups' \in [Masters -> SUBSET AllPorts]
        /\ proxies' \in [Masters -> Nat]
    <3>1. proxy_ports' \subseteq AllPorts /\ dups' \in [Masters -> SUBSET AllPorts]
      BY <1>2, <2>1, PortsShape DEF init_proxies, TypeOK
    <3>2. ASSUME NEW m \in Masters PROVE Entries(m) \in Nat
      <4>1. IsFiniteSet(Finishing(m))
        BY ClusterAssumption, FS_Subset DEF Finishing
      <4> QED
        BY <4>1, FS_CardinalityType DEF Entries, TypeOK
    <3>3. PICK L \in SUBSET (Configured \ deleting) :
             proxies' = [m \in Masters |-> IF m \in (Configured \ deleting) \ L THEN Entries(m) ELSE 0]
      BY <1>2 DEF init_proxies
    <3> QED
      BY <3>1, <3>2, <3>3
  <2>4. apply' = "started" /\ UNCHANGED <<deleting, pending, workervars, world>>
    BY <1>2 DEF init_proxies
  <2>5. overtaken' \subseteq Masters
    BY <1>2 DEF init_proxies, Configured, TypeOK
  <2> QED
    BY <2>2, <2>3, <2>4, <2>5 DEF TypeOK, workervars
<1>3. CASE run_workers
  <2>1. Msgs("CREATE", proxy_ports) \in Seq(Orders)
    BY OrdersFor DEF TypeOK
  <2>2. down' \in [Workers -> Seq(Orders)]
    BY <1>3, <2>1 DEF run_workers
  <2>3. wstate' \in [Workers -> {"up", "dead", "killed"}]
    BY <1>3 DEF run_workers, Forked
  <2>4. apply' = "running" /\ UNCHANGED <<portvars, proxies, pending, servers, binding, bound, up, bounds>>
    BY <1>3 DEF run_workers
  <2> QED
    BY <2>2, <2>3, <2>4 DEF TypeOK, portvars, bounds
<1>4. CASE apply_ends
  <2>1. UNCHANGED <<portvars, proxies, bounds>> /\ Finally
    BY <1>4 DEF apply_ends
  <2> QED
    BY <2>1, FinallyTypes DEF TypeOK, portvars, bounds
<1>5. ASSUME NEW M \in SUBSET world.ports, delete_all(M) PROVE TypeOK'
  <2>1. proxy_ports' \subseteq AllPorts /\ deleting' \subseteq Masters
    BY <1>5 DEF delete_all, TypeOK
  <2>2. dups' \in [Masters -> SUBSET AllPorts]
    BY <1>5, PortsShape DEF delete_all, TypeOK
  <2>3. proxies' \in [Masters -> Nat]
    BY <1>5 DEF delete_all
  <2>4. apply' = "deleted" /\ UNCHANGED <<ready, stopped, got_ready, got_stopped, pending, workervars, world>>
    BY <1>5 DEF delete_all
  <2>5. overtaken' \subseteq Masters
    BY <1>5 DEF delete_all, Made, TypeOK
  <2> QED
    BY <2>1, <2>2, <2>3, <2>4, <2>5 DEF TypeOK, workervars
<1>6. ASSUME NEW D \in SUBSET world.ports, delete_fails(D) PROVE TypeOK'
  <2>1. proxy_ports' \subseteq AllPorts /\ deleting' \subseteq Masters
    BY <1>6 DEF delete_fails, Without, Configured, TypeOK
  <2>2. dups' \in [Masters -> SUBSET AllPorts]
    BY <1>6 DEF delete_fails, Without, TypeOK
  <2>3. proxies' \in [Masters -> Nat]
    BY <1>6 DEF delete_fails, Configured, TypeOK
  <2>4. Finally /\ UNCHANGED <<ready, stopped, got_ready, got_stopped, bounds>>
    BY <1>6 DEF delete_fails
  <2> QED
    BY <2>1, <2>2, <2>3, <2>4, FinallyTypes DEF TypeOK, bounds
<1> QED
  BY <1>1, <1>2, <1>3, <1>4, <1>5, <1>6 DEF Cloud

\* Every step keeps the types.
LEMMA StepTypes == TypeOK /\ [Next]_vars => TypeOK'
<1> SUFFICES ASSUME TypeOK, [Next]_vars PROVE TypeOK'
  OBVIOUS
<1>1. CASE UNCHANGED vars
  BY <1>1 DEF TypeOK, vars, portvars, workervars, bounds
<1>2. CASE Next
  BY <1>2, RequestTypes, WorkerTypes, CloudTypes DEF Next
<1> QED
  BY <1>1, <1>2

\* Whatever the requests, crashes and configurations, the variables keep their
\* types: only masters are deleted by themselves, no count of entries goes below
\* zero, and only the four messages of the protocol travel.
THEOREM TypeCorrect == Spec => []TypeOK
BY InitTypes, StepTypes, PTL DEF Spec

-----------------------------------------------------------------------------
(***************************************************************************)
(* What the requests wait for.                                             *)
(***************************************************************************)

Kinds ==
    {Idle, Lost}
    \union [pc : {"checked", "creating"}, port : world.ports]
    \union [pc : {"deleting"}, port : world.ports, op : {"delete", "replace"},
            stops : SUBSET AllPorts]
Typed ==
    /\ task \in [Clients -> Kinds]
    /\ \A m \in Masters : dups[m] \subseteq Dup[m]
    /\ ops \in Nat /\ crashes \in Nat /\ syncs \in Nat

\* A request waits for one thing, about a port it may be about.
LEMMA TaskShape ==
    ASSUME TypeOK, Typed, NEW c \in Clients, NEW m \in Masters
    PROVE  /\ Creating(c, m) \/ Deleting(c, m) \/ Checked(c, m) =>
                m \in world.ports /\ task[c] # Idle
           /\ Creating(c, m) => ~Deleting(c, m) /\ ~Checked(c, m)
           /\ Checked(c, m) => ~Deleting(c, m)
           /\ \A n \in Masters : n # m /\ (Creating(c, m) \/ Deleting(c, m) \/ Checked(c, m)) =>
                ~Creating(c, n) /\ ~Deleting(c, n) /\ ~Checked(c, n)
           /\ Deleting(c, m) => /\ task[c].op \in {"delete", "replace"}
                                /\ task[c].stops \subseteq AllPorts
                                /\ task[c] = [pc |-> "deleting", port |-> m,
                                              op |-> task[c].op, stops |-> task[c].stops]
<1> DEFINE t == task[c]
           R == [pc : {"checked", "creating"}, port : world.ports]
           D == [pc : {"deleting"}, port : world.ports, op : {"delete", "replace"},
                 stops : SUBSET AllPorts]
<1>1. t \in {Idle, Lost} \/ t \in R \/ t \in D
  BY DEF Typed, Kinds
<1>2. CASE t \in {Idle, Lost}
  BY <1>2 DEF Creating, Deleting, Checked, Idle, Lost
<1>3. CASE t \in R
  BY <1>3 DEF Creating, Deleting, Checked, Idle
<1>4. CASE t \in D
  BY <1>4 DEF Creating, Deleting, Checked, Idle
<1> QED
  BY <1>1, <1>2, <1>3, <1>4

\* One request goes on, the others wait as before.
LEMMA TaskMoves ==
    ASSUME Typed, NEW c \in Clients, NEW x, task' = [task EXCEPT ![c] = x]
    PROVE  /\ task'[c] = x
           /\ \A d \in Clients : d # c => task'[d] = task[d]
           /\ \A d \in Clients, n \in Masters : d # c =>
                /\ Creating(d, n)' <=> Creating(d, n)
                /\ Deleting(d, n)' <=> Deleting(d, n)
                /\ Checked(d, n)' <=> Checked(d, n)
BY DEF Typed, Creating, Deleting, Checked

\* An idle request, or one that was lost, is not at work on a port.
LEMMA IdleShape ==
    ASSUME NEW c \in Clients, task'[c] = Idle \/ task'[c] = Lost
    PROVE  \A n \in Masters : ~Creating(c, n)' /\ ~Deleting(c, n)' /\ ~Checked(c, n)'
BY DEF Creating, Deleting, Checked, Idle, Lost

\* Nothing changes for those that wait.
LEMMA TasksStay ==
    ASSUME task' = task
    PROVE  \A d \in Clients, n \in Masters :
                /\ Creating(d, n)' <=> Creating(d, n)
                /\ Deleting(d, n)' <=> Deleting(d, n)
                /\ Checked(d, n)' <=> Checked(d, n)
BY DEF Creating, Deleting, Checked

\* What becomes of the requests in each step: after proxy_check, ...
LEMMA CreateMoves ==
    ASSUME TypeOK, Typed, NEW c \in Clients, NEW m \in Masters, proxy_create(c, m)
    PROVE  /\ task[c] = Idle /\ m \in world.ports
           /\ task' \in [Clients -> Kinds]
           /\ \A d \in Clients : d # c => task'[d] = task[d]
           /\ \A d \in Clients, n \in Masters :
                /\ Creating(d, n)' <=> Creating(d, n)
                /\ Deleting(d, n)' <=> Deleting(d, n)
                /\ Checked(d, n)' <=> Checked(d, n) \/ (d = c /\ n = m)
<1> DEFINE x == [pc |-> "checked", port |-> m]
<1>1. /\ task[c] = Idle /\ m \in world.ports /\ task' = [task EXCEPT ![c] = x]
  BY DEF proxy_create, Request
<1>2. x \in Kinds
  BY <1>1 DEF Kinds
<1>3. task' \in [Clients -> Kinds]
  <2> HIDE DEF x
  <2> QED
    BY <1>1, <1>2 DEF Typed
<1>4. /\ task'[c] = x
      /\ \A d \in Clients : d # c => task'[d] = task[d]
      /\ \A d \in Clients, n \in Masters : d # c =>
                /\ Creating(d, n)' <=> Creating(d, n)
                /\ Deleting(d, n)' <=> Deleting(d, n)
                /\ Checked(d, n)' <=> Checked(d, n)
  <2> HIDE DEF x
  <2> QED
    BY <1>1, TaskMoves
<1>5. ASSUME NEW n \in Masters
      PROVE  /\ ~Creating(c, n)' /\ ~Deleting(c, n)' /\ ~Creating(c, n) /\ ~Deleting(c, n)
             /\ ~Checked(c, n) /\ (Checked(c, n)' <=> n = m)
  BY <1>1, <1>4 DEF Creating, Deleting, Checked, Idle
<1> QED
  BY <1>1, <1>3, <1>4, <1>5

\* ... when a port was created, ...
LEMMA CreatedMoves ==
    ASSUME TypeOK, Typed, NEW c \in Clients, NEW m \in Masters, proxy_created(c, m)
    PROVE  /\ Creating(c, m) /\ task'[c] = Idle
           /\ task' \in [Clients -> Kinds]
           /\ \A d \in Clients : d # c => task'[d] = task[d]
           /\ \A d \in Clients, n \in Masters :
                /\ Creating(d, n)' <=> Creating(d, n) /\ d # c
                /\ Deleting(d, n)' <=> Deleting(d, n)
                /\ Checked(d, n)' <=> Checked(d, n)
<1>1. Creating(c, m) /\ task' = [task EXCEPT ![c] = Idle]
  BY DEF proxy_created
<1>2. /\ task'[c] = Idle
      /\ \A d \in Clients : d # c => task'[d] = task[d]
      /\ \A d \in Clients, n \in Masters : d # c =>
                /\ Creating(d, n)' <=> Creating(d, n)
                /\ Deleting(d, n)' <=> Deleting(d, n)
                /\ Checked(d, n)' <=> Checked(d, n)
  BY <1>1, TaskMoves
<1>3. task' \in [Clients -> Kinds]
  <2>1. Idle \in Kinds
    BY DEF Kinds
  <2> QED
    BY <1>1, <2>1 DEF Typed
<1>4. ASSUME NEW n \in Masters
      PROVE  /\ ~Creating(c, n)' /\ ~Deleting(c, n)' /\ ~Checked(c, n)'
             /\ ~Deleting(c, n) /\ ~Checked(c, n)
  BY <1>1, <1>2, IdleShape, TaskShape
<1> QED
  BY <1>1, <1>2, <1>3, <1>4

\* ... when a port is stopped, ...
LEMMA StopMoves ==
    ASSUME TypeOK, Typed, NEW c \in Clients, NEW m \in Masters,
           NEW op \in {"delete", "replace"}, Stop(c, m, op),
           task[c] = Idle \/ Checked(c, m), m \in world.ports
    PROVE  /\ task' \in [Clients -> Kinds]
           /\ task'[c].stops = StoppedWith(m) /\ task'[c].op = op
           /\ \A d \in Clients : d # c => task'[d] = task[d]
           /\ \A d \in Clients, n \in Masters :
                /\ Creating(d, n)' <=> Creating(d, n)
                /\ Deleting(d, n)' <=> Deleting(d, n) \/ (d = c /\ n = m)
                /\ Checked(d, n)' <=> Checked(d, n) /\ d # c
<1> DEFINE x == [pc |-> "deleting", port |-> m, op |-> op, stops |-> StoppedWith(m)]
<1>1. task' = [task EXCEPT ![c] = x]
  BY DEF Stop
<1>2. x \in Kinds
  <2>1. StoppedWith(m) \in SUBSET AllPorts
    BY PortsShape DEF StoppedWith, TypeOK
  <2> QED
    BY <2>1 DEF Kinds
<1>3. task' \in [Clients -> Kinds]
  <2> HIDE DEF x
  <2> QED
    BY <1>1, <1>2 DEF Typed
<1>4. /\ task'[c] = x
      /\ \A d \in Clients : d # c => task'[d] = task[d]
      /\ \A d \in Clients, n \in Masters : d # c =>
                /\ Creating(d, n)' <=> Creating(d, n)
                /\ Deleting(d, n)' <=> Deleting(d, n)
                /\ Checked(d, n)' <=> Checked(d, n)
  <2> HIDE DEF x
  <2> QED
    BY <1>1, TaskMoves
<1>5. ASSUME NEW n \in Masters
      PROVE  /\ ~Creating(c, n)' /\ ~Checked(c, n)' /\ (Deleting(c, n)' <=> n = m)
             /\ ~Creating(c, n) /\ ~Deleting(c, n)
  <2>1. /\ ~Creating(c, n)' /\ ~Checked(c, n)' /\ (Deleting(c, n)' <=> n = m)
    BY <1>4 DEF Creating, Deleting, Checked
  <2>2. ~Creating(c, n) /\ ~Deleting(c, n)
    BY DEF Creating, Deleting, Checked, Idle
  <2> QED
    BY <2>1, <2>2
<1>6. task'[c].stops = StoppedWith(m) /\ task'[c].op = op
  BY <1>4
<1> QED
  BY <1>3, <1>4, <1>5, <1>6

\* ... when it stopped (who waits for it to be ready is lost), ...
LEMMA DeletedMoves ==
    ASSUME TypeOK, Typed, NEW c \in Clients, NEW m \in Masters, proxy_deleted(c, m)
    PROVE  /\ Deleting(c, m)
           /\ task' \in [Clients -> Kinds]
           /\ \A d \in Clients : d # c => \/ task'[d] = task[d]
                                          \/ Creating(d, m) /\ m \notin got_ready
           /\ \A d \in Clients, n \in Masters :
                /\ Creating(d, n)' <=> Creating(d, n) /\ ~(n = m /\ m \notin got_ready)
                /\ Deleting(d, n)' <=> Deleting(d, n) /\ d # c
                /\ Deleting(d, n)' => task'[d] = task[d]
                /\ Checked(d, n)' <=> \/ Checked(d, n)
                                      \/ d = c /\ n = m /\ task[c].op = "replace"
<1> DEFINE x == IF task[c].op = "delete" THEN Idle ELSE [pc |-> "checked", port |-> m]
<1>1. Deleting(c, m)
  BY DEF proxy_deleted
<1>2. m \in world.ports /\ task[c].op \in {"delete", "replace"}
  BY <1>1, TaskShape
<1>3. /\ task'[c] = x
      /\ \A d \in Clients : d # c =>
            task'[d] = IF Creating(d, m) /\ m \notin got_ready THEN Lost ELSE task[d]
      /\ DOMAIN task' = Clients
      /\ task' = [d \in Clients |-> task'[d]]
  BY DEF proxy_deleted
<1>4. x \in Kinds /\ Lost \in Kinds /\ \A d \in Clients : task[d] \in Kinds
  BY <1>2 DEF Kinds, Typed
<1>5. task' \in [Clients -> Kinds]
  <2> HIDE DEF x
  <2>1. \A d \in Clients : task'[d] \in Kinds
    BY <1>3, <1>4
  <2> QED
    BY <1>3, <2>1
<1>6. ASSUME NEW n \in Masters
      PROVE  /\ ~Creating(c, n)' /\ ~Deleting(c, n)' /\ ~Creating(c, n) /\ ~Checked(c, n)
             /\ Checked(c, n)' <=> n = m /\ task[c].op = "replace"
  <2>1. ~Creating(c, n) /\ ~Checked(c, n)
    BY <1>1, TaskShape
  <2>2. ~Creating(c, n)' /\ ~Deleting(c, n)' /\ (Checked(c, n)' <=> n = m /\ task[c].op = "replace")
    BY <1>2, <1>3 DEF Creating, Deleting, Checked, Idle
  <2> QED
    BY <2>1, <2>2
<1>7. ASSUME NEW d \in Clients, NEW n \in Masters, d # c
      PROVE  /\ Creating(d, n)' <=> Creating(d, n) /\ ~(n = m /\ m \notin got_ready)
             /\ Deleting(d, n)' <=> Deleting(d, n)
             /\ Deleting(d, n)' => task'[d] = task[d]
             /\ Checked(d, n)' <=> Checked(d, n)
  <2>1. CASE Creating(d, m) /\ m \notin got_ready
    <3>1. task'[d] = Lost
      BY <1>3, <1>7, <2>1
    <3>2. ~Creating(d, n)' /\ ~Deleting(d, n)' /\ ~Checked(d, n)'
      BY <3>1, IdleShape
    <3>3. ~Deleting(d, n) /\ ~Checked(d, n) /\ (n # m => ~Creating(d, n))
      BY <2>1, TaskShape
    <3> QED
      BY <2>1, <3>2, <3>3
  <2>2. CASE ~(Creating(d, m) /\ m \notin got_ready)
    <3>1. task'[d] = task[d]
      BY <1>3, <1>7, <2>2
    <3> QED
      BY <2>2, <3>1 DEF Creating, Deleting, Checked
  <2> QED
    BY <2>1, <2>2
<1> QED
  BY <1>1, <1>3, <1>5, <1>6, <1>7

\* ... when it is constructed, or somebody else deletes it already, ...
LEMMA InitMoves ==
    ASSUME TypeOK, Typed, NEW c \in Clients, NEW m \in Masters, Checked(c, m),
           NEW x \in {Idle, [pc |-> "creating", port |-> m]}, task' = [task EXCEPT ![c] = x]
    PROVE  /\ task' \in [Clients -> Kinds]
           /\ \A d \in Clients : d # c => task'[d] = task[d]
           /\ \A d \in Clients, n \in Masters :
                /\ Creating(d, n)' <=> Creating(d, n) \/ (d = c /\ n = m /\ x # Idle)
                /\ Deleting(d, n)' <=> Deleting(d, n)
                /\ Checked(d, n)' <=> Checked(d, n) /\ d # c
<1>1. m \in world.ports
  BY TaskShape
<1>2. x \in Kinds
  BY <1>1 DEF Kinds
<1>3. task' \in [Clients -> Kinds]
  BY <1>2 DEF Typed
<1>4. /\ task'[c] = x
      /\ \A d \in Clients : d # c => task'[d] = task[d]
      /\ \A d \in Clients, n \in Masters : d # c =>
                /\ Creating(d, n)' <=> Creating(d, n)
                /\ Deleting(d, n)' <=> Deleting(d, n)
                /\ Checked(d, n)' <=> Checked(d, n)
  BY TaskMoves
<1>5. ASSUME NEW n \in Masters
      PROVE  /\ ~Creating(c, n) /\ ~Deleting(c, n)
             /\ Creating(c, n)' <=> n = m /\ x # Idle
             /\ ~Deleting(c, n)' /\ ~Checked(c, n)'
  <2>1. ~Creating(c, n) /\ ~Deleting(c, n)
    BY TaskShape
  <2>2. /\ Creating(c, n)' <=> n = m /\ x # Idle
        /\ ~Deleting(c, n)' /\ ~Checked(c, n)'
    BY <1>4 DEF Creating, Deleting, Checked, Idle
  <2> QED
    BY <2>1, <2>2
<1> QED
  BY <1>3, <1>4, <1>5

\* (of the two, constructed,)
LEMMA StartMoves ==
    ASSUME TypeOK, Typed, NEW c \in Clients, NEW m \in Masters, Checked(c, m),
           task' = [task EXCEPT ![c] = [pc |-> "creating", port |-> m]]
    PROVE  /\ task' \in [Clients -> Kinds]
           /\ \A d \in Clients : d # c => task'[d] = task[d]
           /\ \A d \in Clients, n \in Masters :
                /\ Creating(d, n)' <=> Creating(d, n) \/ (d = c /\ n = m)
                /\ Deleting(d, n)' <=> Deleting(d, n)
                /\ Checked(d, n)' <=> Checked(d, n) /\ d # c
<1> DEFINE x == [pc |-> "creating", port |-> m]
<1>1. /\ x # Idle /\ x \in {Idle, [pc |-> "creating", port |-> m]}
      /\ task' = [task EXCEPT ![c] = x]
  BY DEF Idle
<1> HIDE DEF x
<1> QED
  BY <1>1, InitMoves

\* ... and when a configuration from the cloud overtakes those (G) that wait for
\* a port to be ready: they end or are lost.
LEMMA OvertakenMoves ==
    ASSUME TypeOK, Typed, NEW G \in SUBSET Clients,
           \A c \in G : \E m \in Masters : Creating(c, m),
           task' \in [Clients -> Kinds],
           \A c \in G : task'[c] = Idle \/ task'[c] = Lost,
           \A c \in Clients \ G : task'[c] = task[c]
    PROVE  \A d \in Clients, n \in Masters :
                /\ Creating(d, n)' <=> Creating(d, n) /\ d \notin G
                /\ Deleting(d, n)' <=> Deleting(d, n)
                /\ Deleting(d, n)' => task'[d] = task[d]
                /\ Checked(d, n)' <=> Checked(d, n)
<1> SUFFICES ASSUME NEW d \in Clients, NEW n \in Masters
             PROVE  /\ Creating(d, n)' <=> Creating(d, n) /\ d \notin G
                    /\ Deleting(d, n)' <=> Deleting(d, n)
                    /\ Deleting(d, n)' => task'[d] = task[d]
                    /\ Checked(d, n)' <=> Checked(d, n)
  OBVIOUS
<1>1. CASE d \in G
  <2>1. PICK m \in Masters : Creating(d, m)
    BY <1>1
  <2>2. ~Creating(d, n)' /\ ~Deleting(d, n)' /\ ~Checked(d, n)'
    BY <1>1, IdleShape
  <2>3. ~Deleting(d, n) /\ ~Checked(d, n)
    BY <2>1, TaskShape
  <2> QED
    BY <1>1, <2>2, <2>3
<1>2. CASE d \notin G
  <2>1. task'[d] = task[d]
    BY <1>2
  <2> QED
    BY <1>2, <2>1 DEF Creating, Deleting, Checked
<1> QED
  BY <1>1, <1>2

-----------------------------------------------------------------------------
(***************************************************************************)
(* The ports of the master, the entries of the configuration and the       *)
(* requests that work on them.                                             *)
(***************************************************************************)

IsCreating(m) == \E c \in Clients : Creating(c, m)
IsDeleting(m) == \E c \in Clients : Deleting(c, m)

\* Patient clients work one at a time, and never next to a configuration.
Alone ==
    world.patient =>
        /\ \A c, d \in Clients : task[c] # Idle /\ task[d] # Idle => c = d
        /\ apply # "idle" => \A c \in Clients : task[c] = Idle

\* A port that is being deleted is still there, one request deletes it, and
\* all that belongs to it stops.
Doomed ==
    /\ deleting \subseteq proxy_ports
    /\ \A c \in Clients, m \in Masters : Deleting(c, m) =>
            /\ m \in deleting
            /\ Sound(m) => task[c].stops = Ports(m)
    /\ \A c, d \in Clients, m \in Masters : Deleting(c, m) /\ Deleting(d, m) => c = d

\* A port that starts has no entry yet, and one request waits for it.
Busy ==
    \A c \in Clients, m \in Masters : Creating(c, m) /\ Sound(m) =>
        /\ m \in proxy_ports
        /\ proxies[m] <= 1 /\ (apply # "deleted" => proxies[m] = 0)
        /\ \A d \in Clients : Creating(d, m) => d = c

\* A port that runs has an entry, or somebody works on it, or it was overtaken;
\* it has one entry, and next to that of a new configuration one of a client.
Entered(m) ==
    m \in proxy_ports => proxies[m] > 0 \/ IsCreating(m) \/ IsDeleting(m) \/ m \in overtaken
LeftDeleting(m) == m \in deleting => IsDeleting(m) \/ (proxies[m] = 1 /\ apply # "deleted")
EnteredOnce(m) ==
    /\ proxies[m] <= 2
    /\ m \notin proxy_ports => proxies[m] <= 1
    /\ apply # "deleted" => proxies[m] <= 1 /\ (proxies[m] = 1 => m \in proxy_ports)
Booked == \A m \in Masters : Sound(m) => Entered(m) /\ LeftDeleting(m) /\ EnteredOnce(m)

\* The duplicates run where the port does.
Together(m) == \A q \in Dup[m] : q \in proxy_ports <=> m \in proxy_ports
DupsKnown(m) == m \in proxy_ports /\ ~IsCreating(m) => dups[m] = Dup[m]
Whole == \A m \in Masters : Sound(m) => Together(m) /\ DupsKnown(m)

PortInv == TypeOK /\ Typed /\ Alone /\ Doomed /\ Busy /\ Booked /\ Whole

\* What is sound does not change.
LEMMA SoundStays == ASSUME world' = world PROVE \A m \in Masters : Sound(m)' <=> Sound(m)
BY DEF Sound

\* What stops with a port, or goes with it, is all of it: nobody else creates it
\* meanwhile, or it has no duplicates.
LEMMA StopsWhole ==
    ASSUME PortInv, NEW c \in Clients, NEW m \in Masters, Sound(m),
           m \in world.ports, m \in proxy_ports,
           \/ ~Creating(c, m) /\ task[c] # Idle
           \/ world.patient => Nobody
    PROVE  StoppedWith(m) = Ports(m)
<1>1. CASE Dup[m] = {}
  BY <1>1 DEF PortInv, Typed, StoppedWith, Ports
<1>2. CASE world.patient
  <2>1. ~IsCreating(m)
    <3> SUFFICES ASSUME NEW d \in Clients, Creating(d, m) PROVE FALSE
      BY DEF IsCreating
    <3>1. task[d] # Idle
      BY TaskShape DEF PortInv
    <3> QED
      BY <1>2, <3>1 DEF PortInv, Alone, Nobody
  <2> QED
    BY <2>1 DEF PortInv, Whole, DupsKnown, StoppedWith, Ports
<1> QED
  BY <1>1, <1>2 DEF Sound

\* What goes with the ports of D.
LEMMA GoneShape ==
    ASSUME TypeOK, Typed, NEW D \in SUBSET Masters
    PROVE  /\ \A n \in Masters : n \in Leaving(D) <=> n \in D
           /\ \A n \in Masters : \A q \in Dup[n] : q \in Leaving(D) <=> n \in D /\ q \in dups[n]
<1>1. \A m \in D : dups[m] \subseteq Dup[m] /\ m \in Masters
  BY DEF Typed
<1>2. \A n \in Masters : n \in Leaving(D) <=> n \in D
  BY <1>1, PortsApart DEF Leaving
<1>3. ASSUME NEW n \in Masters, NEW q \in Dup[n] PROVE q \in Leaving(D) <=> n \in D /\ q \in dups[n]
  BY <1>1, <1>3, PortsAssumption DEF Leaving
<1> QED
  BY <1>2, <1>3

\* What is left when one port goes.
LEMMA OneLess ==
    ASSUME TypeOK, Typed, NEW m \in Masters, Without({m})
    PROVE  /\ \A n \in Masters : n \in proxy_ports' <=> n \in proxy_ports /\ n # m
           /\ \A n \in Masters : n # m =>
                /\ dups'[n] = dups[n]
                /\ \A q \in Dup[n] : q \in proxy_ports' <=> q \in proxy_ports
           /\ dups'[m] = {}
           /\ \A q \in Dup[m] : q \in proxy_ports' <=> q \in proxy_ports \ dups[m]
<1>1. /\ proxy_ports' = proxy_ports \ Leaving({m})
      /\ dups' = [n \in Masters |-> IF n \in {m} THEN {} ELSE dups[n]]
  BY DEF Without
<1>2. /\ \A n \in Masters : n \in Leaving({m}) <=> n \in {m}
      /\ \A n \in Masters : \A q \in Dup[n] : q \in Leaving({m}) <=> n \in {m} /\ q \in dups[n]
  BY GoneShape, {m} \in SUBSET Masters
<1> QED
  BY <1>1, <1>2

\* The first states.
LEMMA InitPorts == Init => PortInv
<1> SUFFICES ASSUME Init PROVE PortInv
  OBVIOUS
<1>1. PICK M \in SUBSET world.ports :
        /\ proxy_ports = UNION {Ports(m) : m \in M}
        /\ dups = [m \in Masters |-> IF m \in M THEN Dup[m] ELSE {}]
        /\ proxies = [m \in Masters |-> IF m \in M THEN 1 ELSE 0]
  BY DEF Init
<1>2. /\ task = [c \in Clients |-> Idle] /\ deleting = {} /\ apply = "idle"
      /\ ops = 0 /\ crashes = 0 /\ syncs = 0
  BY DEF Init
<1>3. TypeOK
  BY InitTypes
<1>4. M \subseteq Masters
  BY <1>3, WorldShape
<1>5. Typed
  BY <1>1, <1>2 DEF Typed, Kinds
<1>6. \A c \in Clients, m \in Masters : ~Creating(c, m) /\ ~Deleting(c, m)
  BY <1>2 DEF Creating, Deleting, Idle
<1>7. \A m \in Masters : /\ m \in proxy_ports <=> m \in M
                         /\ \A q \in Dup[m] : q \in proxy_ports <=> m \in M
  BY <1>1, <1>4, PortsAssumption DEF Ports
<1>8. Alone /\ Doomed /\ Busy
  BY <1>2, <1>6 DEF Alone, Doomed, Busy
<1>9. Booked
  BY <1>1, <1>2, <1>7 DEF Booked, Entered, LeftDeleting, EnteredOnce
<1>10. Whole
  BY <1>1, <1>7 DEF Whole, Together, DupsKnown
<1> QED
  BY <1>3, <1>5, <1>8, <1>9, <1>10 DEF PortInv

\* A request begins: nobody else is at work on a port because of it.
LEMMA CreatePorts ==
    ASSUME PortInv, NEW c \in Clients, NEW m \in Masters, proxy_create(c, m)
    PROVE  PortInv'
<1> USE DEF PortInv
<1>1. UNCHANGED <<proxy_ports, deleting, dups, proxies, apply, world, crashes, syncs, overtaken>>
  BY DEF proxy_create, Request, portvars
<1>2. /\ task[c] = Idle
      /\ task' \in [Clients -> Kinds]
      /\ \A d \in Clients : d # c => task'[d] = task[d]
      /\ \A d \in Clients, n \in Masters :
                /\ Creating(d, n)' <=> Creating(d, n)
                /\ Deleting(d, n)' <=> Deleting(d, n)
  BY CreateMoves
<1>3. TypeOK'
  BY RequestTypes
<1>4. Typed'
  BY <1>1, <1>2 DEF Typed, Kinds, proxy_create, Request
<1>5. Alone'
  BY <1>1, <1>2 DEF Alone, proxy_create, Request, Nobody
<1>6. \A n \in Masters : Sound(n)' <=> Sound(n)
  BY <1>1, SoundStays
<1>7. Doomed'
  <2>1. ASSUME NEW d \in Clients, NEW n \in Masters, Deleting(d, n)' PROVE task'[d] = task[d] /\ Deleting(d, n)
    BY <1>2, <2>1, TaskShape
  <2> QED
    BY <1>1, <1>6, <2>1 DEF Doomed, Ports
<1>8. Busy'
  BY <1>1, <1>2, <1>6 DEF Busy
<1>9. \A n \in Masters : (IsCreating(n)' <=> IsCreating(n)) /\ (IsDeleting(n)' <=> IsDeleting(n))
  BY <1>2 DEF IsCreating, IsDeleting
<1>10. Booked'
  BY <1>1, <1>6, <1>9 DEF Booked, Entered, LeftDeleting, EnteredOnce
<1>11. Whole'
  BY <1>1, <1>6, <1>9 DEF Whole, Together, DupsKnown
<1> QED
  BY <1>3, <1>4, <1>5, <1>7, <1>8, <1>10, <1>11

\* A port is ready: it gets its duplicates and its entry.
LEMMA CreatedPorts ==
    ASSUME PortInv, NEW c \in Clients, NEW m \in Masters, proxy_created(c, m)
    PROVE  PortInv'
<1> USE DEF PortInv
<1>1. /\ UNCHANGED <<proxy_ports, deleting, apply, world, ops, crashes, syncs, overtaken>>
      /\ dups' = IF m \in proxy_ports THEN [dups EXCEPT ![m] = Dup[m]] ELSE dups
      /\ proxies' = [proxies EXCEPT ![m] = @ + 1]
  BY DEF proxy_created, bounds
<1>2. /\ Creating(c, m) /\ task'[c] = Idle
      /\ task' \in [Clients -> Kinds]
      /\ \A d \in Clients : d # c => task'[d] = task[d]
      /\ \A d \in Clients, n \in Masters :
                /\ Creating(d, n)' <=> Creating(d, n) /\ d # c
                /\ Deleting(d, n)' <=> Deleting(d, n)
  BY CreatedMoves
<1>a. \A n \in Masters : ~Deleting(c, n) /\ (n # m => ~Creating(c, n))
  BY <1>2, TaskShape
<1>3. TypeOK'
  BY RequestTypes
<1>4. Typed'
  <2>1. task' \in [Clients -> Kinds']
    BY <1>1, <1>2 DEF Kinds
  <2>2. \A n \in Masters : dups'[n] \subseteq Dup[n]
    BY <1>1 DEF Typed, TypeOK
  <2> QED
    BY <1>1, <2>1, <2>2 DEF Typed
<1>5. Alone'
  BY <1>1, <1>2 DEF Alone
<1>6. \A n \in Masters : Sound(n)' <=> Sound(n)
  BY <1>1, SoundStays
<1>7. Doomed'
  <2>1. ASSUME NEW d \in Clients, NEW n \in Masters, Deleting(d, n)' PROVE task'[d] = task[d] /\ Deleting(d, n)
    BY <1>2, <1>a, <2>1
  <2> QED
    BY <1>1, <1>6, <2>1 DEF Doomed, Ports
<1>8. proxies \in [Masters -> Nat] /\ dups \in [Masters -> SUBSET AllPorts]
  BY DEF TypeOK
<1>9. \A n \in Masters : /\ proxies'[n] = IF n = m THEN proxies[m] + 1 ELSE proxies[n]
                         /\ n # m => dups'[n] = dups[n]
                         /\ proxies[n] \in Nat
  BY <1>1, <1>8
<1>10. Busy'
  BY <1>1, <1>2, <1>6, <1>9 DEF Busy
<1>11. \A n \in Masters : /\ n # m => (IsCreating(n)' <=> IsCreating(n))
                          /\ IsDeleting(n)' <=> IsDeleting(n)
  BY <1>2, <1>a DEF IsCreating, IsDeleting
<1>12. Sound(m) => m \in proxy_ports /\ proxies[m] <= 1 /\ (apply # "deleted" => proxies[m] = 0)
  BY <1>2 DEF Busy
<1>13. Booked'
  <2>1. ASSUME NEW n \in Masters, Sound(n), n # m
        PROVE  Entered(n)' /\ LeftDeleting(n)' /\ EnteredOnce(n)'
    BY <1>1, <1>9, <1>11, <2>1 DEF Booked, Entered, LeftDeleting, EnteredOnce
  <2>2. ASSUME Sound(m)
        PROVE  Entered(m)' /\ LeftDeleting(m)' /\ EnteredOnce(m)'
    <3>1. proxies'[m] = proxies[m] + 1 /\ proxies[m] \in Nat
      BY <1>9
    <3>2. Entered(m)' /\ EnteredOnce(m)'
      BY <1>1, <1>12, <2>2, <3>1 DEF Entered, EnteredOnce
    <3>3. LeftDeleting(m)'
      BY <1>1, <1>11, <1>12, <2>2, <3>1 DEF Booked, LeftDeleting
    <3> QED
      BY <3>2, <3>3
  <2> QED
    BY <1>6, <2>1, <2>2 DEF Booked
<1>14. Whole'
  <2>1. Sound(m) => dups'[m] = Dup[m]
    BY <1>1, <1>8, <1>12
  <2> QED
    BY <1>1, <1>6, <1>9, <1>11, <2>1 DEF Whole, Together, DupsKnown
<1> QED
  BY <1>3, <1>4, <1>5, <1>7, <1>10, <1>13, <1>14

\* A port begins to stop, for a request that was idle or that found it there.
LEMMA StopPorts ==
    ASSUME PortInv, NEW c \in Clients, NEW m \in Masters, NEW op \in {"delete", "replace"},
           Stop(c, m, op), m \in world.ports,
           \/ task[c] = Idle /\ (world.patient => Nobody)
           \/ Checked(c, m),
           UNCHANGED <<proxies, apply, pending, wstate, servers, binding, bound, up,
                       world, crashes, syncs, overtaken>>,
           ops' \in Nat
    PROVE  PortInv'
<1> USE DEF PortInv
<1>1. /\ UNCHANGED <<proxy_ports, dups>> /\ deleting' = deleting \union {m}
      /\ m \in proxy_ports /\ m \notin deleting
  BY DEF Stop
<1>2. /\ task' \in [Clients -> Kinds]
      /\ task'[c].stops = StoppedWith(m)
      /\ \A d \in Clients : d # c => task'[d] = task[d]
      /\ \A d \in Clients, n \in Masters :
                /\ Creating(d, n)' <=> Creating(d, n)
                /\ Deleting(d, n)' <=> Deleting(d, n) \/ (d = c /\ n = m)
  BY StopMoves
<1>3. TypeOK'
  BY StopTypes
<1>4. Typed'
  BY <1>1, <1>2 DEF Typed, Kinds
<1>5. Alone'
  <2>1. task[c] # Idle \/ (world.patient => Nobody)
    BY TaskShape
  <2> QED
    BY <1>2, <2>1 DEF Alone, Nobody
<1>6. \A n \in Masters : Sound(n)' <=> Sound(n)
  BY SoundStays
<1>7. Sound(m) => StoppedWith(m) = Ports(m)
  BY <1>1, TaskShape, StopsWhole
<1>8. Doomed'
  <2>1. \A d \in Clients : ~Deleting(d, m)
    BY <1>1 DEF Doomed
  <2>2. ASSUME NEW d \in Clients, NEW n \in Masters, Deleting(d, n)'
        PROVE  n \in deleting' /\ (Sound(n) => task'[d].stops = Ports(n))
    <3>1. CASE d = c /\ n = m
      BY <1>1, <1>2, <1>7, <3>1
    <3>2. CASE Deleting(d, n)
      <4>1. d # c
        BY <3>2, TaskShape
      <4> QED
        BY <1>1, <1>2, <3>2, <4>1 DEF Doomed
    <3> QED
      BY <1>2, <2>2, <3>1, <3>2
  <2>3. ASSUME NEW d \in Clients, NEW e \in Clients, NEW n \in Masters, Deleting(d, n)', Deleting(e, n)'
        PROVE  d = e
    BY <1>2, <2>1, <2>3 DEF Doomed
  <2>4. deleting' \subseteq proxy_ports'
    BY <1>1 DEF Doomed
  <2> QED
    BY <1>6, <2>2, <2>3, <2>4 DEF Doomed, Ports
<1>9. Busy'
  BY <1>1, <1>2, <1>6 DEF Busy
<1>10. \A n \in Masters : /\ IsCreating(n)' <=> IsCreating(n)
                          /\ IsDeleting(n)' <=> IsDeleting(n) \/ n = m
  BY <1>2 DEF IsCreating, IsDeleting
<1>11. Booked'
  BY <1>1, <1>6, <1>10 DEF Booked, Entered, LeftDeleting, EnteredOnce
<1>12. Whole'
  BY <1>1, <1>6, <1>10 DEF Whole, Together, DupsKnown
<1> QED
  BY <1>3, <1>4, <1>5, <1>8, <1>9, <1>11, <1>12

\* All that goes with a port that was deleted.
LEMMA AllGone ==
    ASSUME PortInv, NEW c \in Clients, NEW m \in Masters, Deleting(c, m), Sound(m)
    PROVE  /\ {m} \union dups[m] = Ports(m)
           /\ m \in proxy_ports
           /\ \A d \in Clients : Creating(d, m) => Dup[m] = {}
<1> USE DEF PortInv
<1>1. m \in world.ports /\ task[c] # Idle /\ ~Creating(c, m)
  BY TaskShape
<1>2. m \in proxy_ports
  BY DEF Doomed
<1>3. {m} \union dups[m] = Ports(m)
  BY <1>1, <1>2, StopsWhole DEF StoppedWith
<1>4. ASSUME NEW d \in Clients, Creating(d, m) PROVE Dup[m] = {}
  <2>1. d # c /\ task[d] # Idle
    BY <1>1, <1>4, TaskShape
  <2> QED
    BY <1>1, <2>1 DEF Sound, Alone
<1> QED
  BY <1>2, <1>3, <1>4

\* A port stopped: it is gone with its duplicates and its entry.
LEMMA DeletedPorts ==
    ASSUME PortInv, NEW c \in Clients, NEW m \in Masters, proxy_deleted(c, m)
    PROVE  PortInv'
<1> USE DEF PortInv
<1>1. /\ UNCHANGED <<apply, world, ops, crashes, syncs, overtaken>>
      /\ Without({m})
      /\ deleting' = deleting \ {m}
      /\ proxies' = [proxies EXCEPT ![m] = IF @ = 0 THEN 0 ELSE @ - 1]
      /\ ~ \E d \in Clients : Creating(d, m) /\ CanFinish(m)
  BY DEF proxy_deleted, bounds, Forgotten
<1>2. /\ Deleting(c, m)
      /\ task' \in [Clients -> Kinds]
      /\ \A d \in Clients : d # c => task'[d] = task[d] \/ Creating(d, m)
      /\ \A d \in Clients, n \in Masters :
                /\ Creating(d, n)' <=> Creating(d, n) /\ ~(n = m /\ m \notin got_ready)
                /\ Deleting(d, n)' <=> Deleting(d, n) /\ d # c
                /\ Deleting(d, n)' => task'[d] = task[d]
  BY DeletedMoves
<1>3. TypeOK'
  BY RequestTypes
<1>4. /\ \A n \in Masters : n \in proxy_ports' <=> n \in proxy_ports /\ n # m
      /\ \A n \in Masters : n # m =>
                /\ dups'[n] = dups[n]
                /\ \A q \in Dup[n] : q \in proxy_ports' <=> q \in proxy_ports
      /\ dups'[m] = {}
      /\ \A q \in Dup[m] : q \in proxy_ports' <=> q \in proxy_ports \ dups[m]
  <2> HIDE DEF Without
  <2> QED
    BY <1>1, OneLess
<1>5. Typed'
  <2>1. task' \in [Clients -> Kinds']
    BY <1>1, <1>2 DEF Kinds
  <2>2. \A n \in Masters : dups'[n] \subseteq Dup[n]
    BY <1>4 DEF Typed
  <2> QED
    BY <1>1, <2>1, <2>2 DEF Typed
<1>6. \A n \in Masters : Sound(n)' <=> Sound(n)
  BY <1>1, SoundStays
<1>7. Alone'
  <2>1. task[c] # Idle
    BY <1>2, TaskShape
  <2>2. world.patient => \A d \in Clients : d # c => task[d] = Idle
    BY <2>1 DEF Alone
  <2>3. \A d \in Clients : task[d] = Idle => ~Creating(d, m)
    BY TaskShape
  <2> QED
    BY <1>1, <1>2, <2>1, <2>2, <2>3 DEF Alone
<1>8. Sound(m) => \A d \in Clients : ~Creating(d, m)'
  <2> SUFFICES ASSUME Sound(m), NEW d \in Clients, Creating(d, m)' PROVE FALSE
    OBVIOUS
  <2>1. Creating(d, m) /\ m \in got_ready
    BY <1>2
  <2>2. Dup[m] = {}
    BY <1>2, <2>1, AllGone
  <2>3. CanFinish(m)
    BY <2>1, <2>2 DEF CanFinish, Ports
  <2> QED
    BY <1>1, <2>1, <2>3
<1>9. Doomed'
  <2>1. deleting' \subseteq proxy_ports'
    BY <1>1, <1>4 DEF Doomed, TypeOK
  <2>2. ASSUME NEW d \in Clients, NEW n \in Masters, Deleting(d, n)'
        PROVE  n \in deleting' /\ (Sound(n) => task'[d].stops = Ports(n))
    <3>1. Deleting(d, n) /\ d # c /\ task'[d] = task[d]
      BY <1>2, <2>2
    <3>2. n # m
      BY <1>2, <3>1 DEF Doomed
    <3> QED
      BY <1>1, <3>1, <3>2 DEF Doomed
  <2>3. ASSUME NEW d \in Clients, NEW e \in Clients, NEW n \in Masters, Deleting(d, n)', Deleting(e, n)'
        PROVE  d = e
    BY <1>2, <2>3 DEF Doomed
  <2> QED
    BY <1>6, <2>1, <2>2, <2>3 DEF Doomed, Ports
<1>10. \A n \in Masters : n # m => proxies'[n] = proxies[n]
  BY <1>1 DEF TypeOK
<1>11. Busy'
  <2> SUFFICES ASSUME NEW d \in Clients, NEW n \in Masters, Creating(d, n)', Sound(n)
               PROVE  /\ n \in proxy_ports' /\ proxies'[n] <= 1 /\ (apply' # "deleted" => proxies'[n] = 0)
                      /\ \A e \in Clients : Creating(e, n)' => e = d
    BY <1>6 DEF Busy
  <2>1. n # m
    BY <1>8
  <2> QED
    BY <1>1, <1>2, <1>4, <1>10, <2>1 DEF Busy
<1>12. \A n \in Masters : n # m => /\ IsCreating(n)' <=> IsCreating(n)
                                   /\ IsDeleting(n)' <=> IsDeleting(n)
  BY <1>2, TaskShape DEF IsCreating, IsDeleting
<1>13. Booked'
  <2>1. ASSUME NEW n \in Masters, Sound(n), n # m
        PROVE  Entered(n)' /\ LeftDeleting(n)' /\ EnteredOnce(n)'
    BY <1>1, <1>4, <1>10, <1>12, <2>1 DEF Booked, Entered, LeftDeleting, EnteredOnce
  <2>2. ASSUME Sound(m)
        PROVE  Entered(m)' /\ LeftDeleting(m)' /\ EnteredOnce(m)'
    <3>1. m \notin proxy_ports' /\ m \notin deleting'
      BY <1>1, <1>4
    <3>2. proxies[m] <= 2 /\ (apply # "deleted" => proxies[m] <= 1)
      BY <2>2 DEF Booked, EnteredOnce
    <3>3. proxies[m] \in Nat /\ proxies'[m] = IF proxies[m] = 0 THEN 0 ELSE proxies[m] - 1
      BY <1>1 DEF TypeOK
    <3>4. EnteredOnce(m)'
      BY <1>1, <3>2, <3>3 DEF EnteredOnce
    <3> QED
      BY <3>1, <3>4 DEF Entered, LeftDeleting
  <2> QED
    BY <1>6, <2>1, <2>2 DEF Booked
<1>14. Whole'
  <2>1. ASSUME NEW n \in Masters, Sound(n), n # m
        PROVE  Together(n)' /\ DupsKnown(n)'
    BY <1>4, <1>12, <2>1 DEF Whole, Together, DupsKnown
  <2>2. ASSUME Sound(m)
        PROVE  Together(m)' /\ DupsKnown(m)'
    <3>1. {m} \union dups[m] = Ports(m)
      BY <1>2, <2>2, AllGone
    <3>2. \A q \in Dup[m] : q \in dups[m]
      BY <3>1, PortsApart DEF Ports
    <3> QED
      BY <1>4, <3>2 DEF Together, DupsKnown
  <2> QED
    BY <1>6, <2>1, <2>2 DEF Whole
<1> QED
  BY <1>3, <1>5, <1>7, <1>9, <1>11, <1>13, <1>14

\* A port is constructed: until it is ready it is created, without an entry.
LEMMA StartPorts ==
    ASSUME PortInv, TypeOK', NEW c \in Clients, NEW m \in Masters, Checked(c, m),
           m \notin proxy_ports,
           proxy_ports' = proxy_ports \union Ports(m),
           dups' = [dups EXCEPT ![m] = {}],
           task' = [task EXCEPT ![c] = [pc |-> "creating", port |-> m]],
           UNCHANGED <<deleting, proxies, apply, world, ops, crashes, syncs, overtaken>>
    PROVE  PortInv'
<1> USE DEF PortInv
<1>1. /\ task' \in [Clients -> Kinds]
      /\ \A d \in Clients : d # c => task'[d] = task[d]
      /\ \A d \in Clients, n \in Masters :
                /\ Creating(d, n)' <=> Creating(d, n) \/ (d = c /\ n = m)
                /\ Deleting(d, n)' <=> Deleting(d, n)
  BY StartMoves
<1>2. \A n \in Masters : ~Creating(c, n) /\ ~Deleting(c, n)
  BY TaskShape
<1>3. dups \in [Masters -> SUBSET AllPorts]
  BY DEF TypeOK
<1>4. /\ m \in proxy_ports' /\ \A q \in Dup[m] : q \in proxy_ports'
      /\ \A n \in Masters : n # m =>
            /\ n \in proxy_ports' <=> n \in proxy_ports
            /\ \A q \in Dup[n] : q \in proxy_ports' <=> q \in proxy_ports
            /\ dups'[n] = dups[n]
  <2>1. m \in proxy_ports' /\ \A q \in Dup[m] : q \in proxy_ports'
    BY DEF Ports
  <2>2. ASSUME NEW n \in Masters, n # m
        PROVE  n \notin Ports(m) /\ \A q \in Dup[n] : q \notin Ports(m)
    BY <2>2, PortsAssumption DEF Ports
  <2> QED
    BY <1>3, <2>1, <2>2
<1>5. Typed'
  <2>1. task' \in [Clients -> Kinds']
    BY <1>1 DEF Kinds
  <2>2. \A n \in Masters : dups'[n] \subseteq Dup[n]
    BY <1>3, <1>4 DEF Typed
  <2> QED
    BY <2>1, <2>2 DEF Typed
<1>6. Alone'
  <2>1. task[c] # Idle
    BY TaskShape
  <2> QED
    BY <1>1, <2>1 DEF Alone
<1>7. \A n \in Masters : Sound(n)' <=> Sound(n)
  BY SoundStays
<1>8. Doomed'
  <2>1. ASSUME NEW d \in Clients, NEW n \in Masters, Deleting(d, n)' PROVE task'[d] = task[d] /\ Deleting(d, n)
    BY <1>1, <1>2, <2>1
  <2>2. deleting' \subseteq proxy_ports'
    BY DEF Doomed
  <2> QED
    BY <1>7, <2>1, <2>2 DEF Doomed, Ports
<1>9. Sound(m) => \A d \in Clients : ~Creating(d, m)
  BY DEF Busy
<1>10. Sound(m) => proxies[m] <= 1 /\ (apply # "deleted" => proxies[m] = 0)
  <2>1. proxies[m] \in Nat
    BY DEF TypeOK
  <2>2. Sound(m) => proxies[m] <= 1 /\ (apply # "deleted" => proxies[m] # 1)
    BY DEF Booked, EnteredOnce
  <2> QED
    BY <2>1, <2>2
<1>11. Busy'
  <2>1. ASSUME NEW d \in Clients, NEW n \in Masters, Creating(d, n)', Sound(n)
        PROVE  /\ n \in proxy_ports' /\ proxies'[n] <= 1 /\ (apply' # "deleted" => proxies'[n] = 0)
               /\ \A e \in Clients : Creating(e, n)' => e = d
    <3>1. CASE n = m
      BY <1>1, <1>4, <1>9, <1>10, <2>1, <3>1
    <3>2. CASE n # m
      BY <1>1, <1>4, <2>1, <3>2 DEF Busy
    <3> QED
      BY <3>1, <3>2
  <2> QED
    BY <1>7, <2>1 DEF Busy
<1>12. /\ IsCreating(m)'
       /\ \A n \in Masters : /\ n # m => (IsCreating(n)' <=> IsCreating(n))
                             /\ IsDeleting(n)' <=> IsDeleting(n)
  BY <1>1, <1>2 DEF IsCreating, IsDeleting
<1>13. Booked'
  <2>1. ASSUME NEW n \in Masters, Sound(n), n # m
        PROVE  Entered(n)' /\ LeftDeleting(n)' /\ EnteredOnce(n)'
    BY <1>4, <1>12, <2>1 DEF Booked, Entered, LeftDeleting, EnteredOnce
  <2>2. ASSUME Sound(m)
        PROVE  Entered(m)' /\ LeftDeleting(m)' /\ EnteredOnce(m)'
    <3>1. m \notin deleting'
      BY DEF Doomed
    <3>2. EnteredOnce(m)'
      BY <1>4, <1>10, <2>2 DEF EnteredOnce, TypeOK
    <3> QED
      BY <1>12, <3>1, <3>2 DEF Entered, LeftDeleting
  <2> QED
    BY <1>7, <2>1, <2>2 DEF Booked
<1>14. Whole'
  BY <1>4, <1>7, <1>12 DEF Whole, Together, DupsKnown
<1> QED
  BY <1>5, <1>6, <1>8, <1>11, <1>13, <1>14

\* init_proxy, in all three cases.
LEMMA InitProxyPorts ==
    ASSUME PortInv, NEW c \in Clients, NEW m \in Masters, init_proxy(c, m)
    PROVE  PortInv'
<1>1. TypeOK'
  BY RequestTypes DEF PortInv
<1>2. /\ Checked(c, m)
      /\ UNCHANGED <<proxies, apply, pending, wstate, servers, binding, bound, up, bounds>>
  BY DEF init_proxy
<1>3. m \in world.ports
  BY <1>2, TaskShape DEF PortInv
<1>4. CASE /\ m \notin proxy_ports
           /\ proxy_ports' = proxy_ports \union Ports(m)
           /\ dups' = [dups EXCEPT ![m] = {}]
           /\ task' = [task EXCEPT ![c] = [pc |-> "creating", port |-> m]]
           /\ UNCHANGED deleting
  BY <1>1, <1>2, <1>4, StartPorts DEF bounds
<1>5. CASE Stop(c, m, "replace")
  <2>1. ops' \in Nat
    BY <1>2 DEF PortInv, Typed, bounds
  <2> QED
    BY <1>2, <1>3, <1>5, <2>1, StopPorts DEF bounds
<1>6. CASE /\ m \in deleting
           /\ task' = [task EXCEPT ![c] = Idle]
           /\ UNCHANGED <<portvars, down>>
  <2> USE DEF PortInv
  <2>1. /\ task' \in [Clients -> Kinds]
        /\ \A d \in Clients : d # c => task'[d] = task[d]
        /\ \A d \in Clients, n \in Masters :
                /\ Creating(d, n)' <=> Creating(d, n)
                /\ Deleting(d, n)' <=> Deleting(d, n)
    BY <1>2, <1>6, InitMoves
  <2>2. UNCHANGED <<proxy_ports, deleting, dups, proxies, apply, world, ops, crashes, syncs, overtaken>>
    BY <1>2, <1>6 DEF portvars, bounds
  <2>3. Typed'
    BY <2>1, <2>2 DEF Typed, Kinds
  <2>4. Alone'
    <3>1. task'[c] = Idle
      BY <1>6, TaskMoves
    <3> QED
      BY <2>1, <2>2, <3>1 DEF Alone
  <2>5. \A n \in Masters : Sound(n)' <=> Sound(n)
    BY <2>2, SoundStays
  <2>6. Doomed'
    <3>1. \A n \in Masters : ~Deleting(c, n)
      BY <1>2, TaskShape
    <3>2. ASSUME NEW d \in Clients, NEW n \in Masters, Deleting(d, n)' PROVE task'[d] = task[d] /\ Deleting(d, n)
      BY <2>1, <3>1, <3>2
    <3> QED
      BY <2>2, <2>5, <3>2 DEF Doomed, Ports
  <2>7. Busy'
    BY <2>1, <2>2, <2>5 DEF Busy
  <2>8. \A n \in Masters : (IsCreating(n)' <=> IsCreating(n)) /\ (IsDeleting(n)' <=> IsDeleting(n))
    BY <2>1 DEF IsCreating, IsDeleting
  <2>9. Booked'
    BY <2>2, <2>5, <2>8 DEF Booked, Entered, LeftDeleting, EnteredOnce
  <2>10. Whole'
    BY <2>2, <2>5, <2>8 DEF Whole, Together, DupsKnown
  <2> QED
    BY <1>1, <2>3, <2>4, <2>6, <2>7, <2>9, <2>10
<1> QED
  BY <1>4, <1>5, <1>6 DEF init_proxy

\* Some ports of the configuration are deleted, all of them or those that were
\* before one failed; the others that could be are left deleting.  Requests (F)
\* that made other ports lose their entry.
LEMMA CloudDeletePorts ==
    ASSUME PortInv, TypeOK', NEW D \in SUBSET (Configured \intersect Deletable),
           NEW F \in SUBSET Clients, \A c \in F : \E n \in Masters : c \in Finishing(n),
           proxy_ports' = proxy_ports \ Leaving(D),
           dups' = [m \in Masters |-> IF m \in D THEN {}
                                     ELSE IF m \in Made(F) \intersect proxy_ports THEN Dup[m]
                                     ELSE dups[m]],
           task' = [c \in Clients |-> IF c \in F THEN Idle ELSE task[c]],
           overtaken' = overtaken \union Made(F),
           deleting' \subseteq (deleting \union (Configured \intersect Deletable)) \ D,
           apply = "killed",
           apply' # "killed" => apply' \in {"idle", "deleted"},
           D # Configured => apply' # "deleted",
           apply' # "deleted" => \A n \in Masters : proxies'[n] = IF n \in D THEN proxies[n] - 1 ELSE proxies[n],
           apply' = "deleted" => \A n \in Masters : proxies'[n] <= 1,
           deleting \subseteq deleting',
           UNCHANGED <<world, ops, crashes, syncs>>
    PROVE  PortInv'
<1> USE DEF PortInv
<1>1. /\ \A n \in Masters : n \in proxy_ports' <=> n \in proxy_ports /\ n \notin D
      /\ \A n \in Masters \ D : /\ dups'[n] = IF n \in Made(F) /\ n \in proxy_ports THEN Dup[n] ELSE dups[n]
                                /\ \A q \in Dup[n] : q \in proxy_ports' <=> q \in proxy_ports
      /\ \A n \in D : /\ dups'[n] = {}
                      /\ \A q \in Dup[n] : q \in proxy_ports' <=> q \in proxy_ports \ dups[n]
  <2>1. D \in SUBSET Masters
    BY DEF Configured
  <2>2. /\ \A n \in Masters : n \in Leaving(D) <=> n \in D
        /\ \A n \in Masters : \A q \in Dup[n] : q \in Leaving(D) <=> n \in D /\ q \in dups[n]
    BY <2>1, GoneShape
  <2> QED
    BY <2>1, <2>2
<1>a. /\ task' \in [Clients -> Kinds]
      /\ \A d \in F : task'[d] = Idle
      /\ \A d \in Clients \ F : task'[d] = task[d]
  BY DEF Typed, Kinds
<1>2. \A d \in Clients, n \in Masters :
                /\ Creating(d, n)' <=> Creating(d, n) /\ d \notin F
                /\ Deleting(d, n)' <=> Deleting(d, n)
                /\ Deleting(d, n)' => task'[d] = task[d]
  <2>1. \A c \in F : \E n \in Masters : Creating(c, n)
    BY DEF Finishing
  <2> QED
    BY <1>a, <2>1, OvertakenMoves
<1>3. Typed'
  <2>1. task' \in [Clients -> Kinds']
    BY <1>a DEF Typed, Kinds
  <2>2. \A n \in Masters : dups'[n] \subseteq Dup[n]
    BY <1>1 DEF Typed
  <2> QED
    BY <2>1, <2>2 DEF Typed
<1>4. Alone'
  BY <1>a DEF Alone
<1>5. \A n \in Masters : Sound(n)' <=> Sound(n)
  BY SoundStays
<1>6. D \subseteq Masters /\ \A n \in D : proxies[n] > 0 /\ n \in proxy_ports /\ n \notin deleting
  BY DEF Configured, Deletable
<1>7. Doomed'
  <2>1. deleting' \subseteq proxy_ports'
    BY <1>1 DEF Doomed, Deletable, TypeOK
  <2> QED
    BY <1>2, <1>5, <2>1 DEF Doomed, Ports
<1>8. ASSUME NEW d \in Clients, NEW n \in Masters, Creating(d, n), Sound(n)
      PROVE  n \notin D /\ proxies[n] = 0 /\ n \in proxy_ports
  <2>1. proxies[n] = 0 /\ n \in proxy_ports
    BY <1>8 DEF Busy
  <2> QED
    BY <1>6, <2>1
<1>9. Busy'
  <2>1. ASSUME NEW d \in Clients, NEW n \in Masters, Creating(d, n), Sound(n)
        PROVE  n \in proxy_ports' /\ proxies'[n] <= 1 /\ (apply' # "deleted" => proxies'[n] = 0)
    BY <1>1, <1>8, <2>1
  <2> QED
    BY <1>2, <1>5, <2>1 DEF Busy
<1>10. \A n \in Masters : /\ IsCreating(n)' => IsCreating(n)
                          /\ IsCreating(n) => IsCreating(n)' \/ n \in Made(F)
                          /\ IsDeleting(n)' <=> IsDeleting(n)
  <2>1. ASSUME NEW n \in Masters, NEW d \in F, Creating(d, n) PROVE n \in Made(F)
    <3>1. PICK m \in Masters : d \in Finishing(m)
      OBVIOUS
    <3>2. m = n
      BY <2>1, <3>1, TaskShape DEF Finishing
    <3> QED
      BY <3>1, <3>2 DEF Made
  <2> QED
    BY <1>2, <2>1 DEF IsCreating, IsDeleting
<1>11. ASSUME NEW n \in Masters, Sound(n)
       PROVE  Entered(n)' /\ LeftDeleting(n)' /\ EnteredOnce(n)'
  <2>1. /\ proxies[n] \in Nat /\ proxies[n] <= 1 /\ (proxies[n] = 1 => n \in proxy_ports)
        /\ proxies'[n] \in Nat
    BY <1>11 DEF TypeOK, Booked, EnteredOnce
  <2>2. CASE n \in D
    <3>1. n \notin proxy_ports' /\ n \notin deleting'
      BY <1>1, <2>2
    <3>2. EnteredOnce(n)'
      BY <2>1, <2>2 DEF EnteredOnce
    <3> QED
      BY <3>1, <3>2 DEF Entered, LeftDeleting
  <2>3. CASE n \notin D
    <3>1. apply' = "deleted" => proxies[n] = 0
      BY <2>1, <2>3 DEF Configured
    <3>2. n \in proxy_ports' <=> n \in proxy_ports
      BY <1>1, <2>3
    <3>3. apply' # "deleted" => proxies'[n] = proxies[n]
      BY <2>3
    <3>4. Entered(n)'
      BY <1>10, <1>11, <3>1, <3>2, <3>3 DEF Booked, Entered
    <3>5. n \in deleting' => n \in deleting \/ proxies[n] = 1
      BY <2>1 DEF Configured
    <3>6. n \in deleting => IsDeleting(n) \/ proxies[n] = 1
      BY <1>11 DEF Booked, LeftDeleting
    <3>7. LeftDeleting(n)'
      BY <1>10, <3>1, <3>3, <3>5, <3>6 DEF LeftDeleting
    <3>8. EnteredOnce(n)'
      BY <2>1, <3>2, <3>3 DEF EnteredOnce
    <3> QED
      BY <3>4, <3>7, <3>8
  <2> QED
    BY <2>2, <2>3
<1>12. Booked'
  BY <1>5, <1>11 DEF Booked
<1>13. ASSUME NEW n \in Masters, Sound(n)
       PROVE  Together(n)' /\ DupsKnown(n)'
  <2>1. CASE n \in D
    <3>1. n \in proxy_ports /\ ~IsCreating(n)
      BY <1>6, <1>8, <1>13, <2>1 DEF IsCreating
    <3>2. dups[n] = Dup[n]
      BY <1>13, <3>1 DEF Whole, DupsKnown
    <3> QED
      BY <1>1, <2>1, <3>2 DEF Together, DupsKnown
  <2>2. CASE n \notin D
    <3>1. n \in proxy_ports /\ ~IsCreating(n) => dups[n] = Dup[n]
      BY <1>13 DEF Whole, DupsKnown
    <3>2. DupsKnown(n)'
      BY <1>1, <1>10, <2>2, <3>1 DEF DupsKnown
    <3>3. Together(n)'
      BY <1>1, <1>13, <2>2 DEF Whole, Together
    <3> QED
      BY <3>2, <3>3
  <2> QED
    BY <2>1, <2>2
<1>14. Whole'
  BY <1>5, <1>13 DEF Whole
<1> QED
  BY <1>3, <1>4, <1>7, <1>9, <1>12, <1>14

\* At most one request finishes a port.
LEMMA OneFinishes ==
    ASSUME PortInv, NEW m \in Masters, Sound(m)
    PROVE  /\ Cardinality(Finishing(m)) \in {0, 1}
           /\ Cardinality(Finishing(m)) = 1 => m \in proxy_ports
<1>1. CASE Finishing(m) = {}
  BY <1>1, FS_EmptySet
<1>2. CASE Finishing(m) # {}
  <2>1. PICK c \in Clients : c \in Finishing(m)
    BY <1>2 DEF Finishing
  <2>2. Creating(c, m)
    BY <2>1 DEF Finishing
  <2>3. m \in proxy_ports /\ \A d \in Clients : Creating(d, m) => d = c
    BY <2>2 DEF PortInv, Busy
  <2>4. Finishing(m) = {c}
    BY <2>1, <2>3 DEF Finishing
  <2> QED
    BY <2>3, <2>4, FS_Singleton
<1> QED
  BY <1>1, <1>2

\* The ports of the new configuration are constructed.
LEMMA CloudStartPorts ==
    ASSUME PortInv, init_proxies
    PROVE  PortInv'
<1> USE DEF PortInv
<1> DEFINE started == Configured \ deleting
           P == UNION {Ports(m) : m \in started}
           kept == {c \in Clients : \A m \in started : ~Creating(c, m)}
<1>1. /\ apply = "deleted" /\ apply' = "started"
      /\ proxy_ports' = proxy_ports \union P
      /\ dups' = [m \in Masters |-> IF m \in started THEN Dup[m] ELSE dups[m]]
      /\ overtaken' = overtaken \union {m \in started : proxies'[m] = 0}
      /\ task' = [c \in Clients |-> IF c \in kept THEN task[c]
                                    ELSE IF \E m \in started : c \in Finishing(m) THEN Idle
                                    ELSE Lost]
      /\ UNCHANGED <<deleting, world, ops, crashes, syncs>>
  BY DEF init_proxies
<1>a. PICK L \in SUBSET started :
         proxies' = [m \in Masters |-> IF m \in started \ L THEN Entries(m) ELSE 0]
  BY DEF init_proxies
<1>2. TypeOK'
  BY CloudTypes DEF Cloud
<1>3. started \in SUBSET Masters /\ \A n \in Masters \ started : n \in deleting \/ proxies[n] = 0
  BY DEF Configured, TypeOK
<1>4. \A n \in Masters :
        /\ n \in proxy_ports' <=> n \in proxy_ports \/ n \in started
        /\ \A q \in Dup[n] : q \in proxy_ports' <=> q \in proxy_ports \/ n \in started
  <2>1. ASSUME NEW n \in Masters
        PROVE  /\ n \in P <=> n \in started
               /\ \A q \in Dup[n] : q \in P <=> n \in started
    <3>1. n \in P <=> n \in started
      BY <1>3, PortsAssumption DEF Ports
    <3>2. \A q \in Dup[n] : q \in P <=> n \in started
      BY <1>3, PortsAssumption DEF Ports
    <3> QED
      BY <3>1, <3>2
  <2> QED
    BY <1>1, <2>1
<1> HIDE DEF started
<1>b. /\ task' \in [Clients -> Kinds]
      /\ \A d \in Clients \ kept : task'[d] = Idle \/ task'[d] = Lost
      /\ \A d \in kept : task'[d] = task[d]
      /\ kept \subseteq Clients
  BY <1>1 DEF Typed, Kinds
<1>c. \A d \in Clients : d \in kept <=> \A m \in started : ~Creating(d, m)
  OBVIOUS
<1> HIDE DEF kept
<1>5. \A d \in Clients, n \in Masters :
                /\ Creating(d, n)' <=> Creating(d, n) /\ n \notin started
                /\ Deleting(d, n)' <=> Deleting(d, n)
                /\ Deleting(d, n)' => task'[d] = task[d]
  <2> DEFINE G == Clients \ kept
  <2>1. \A d \in G : \E m \in Masters : Creating(d, m)
    BY <1>3, <1>c
  <2>2. \A d \in Clients \ G : task'[d] = task[d]
    BY <1>b
  <2>3. \A d \in G : task'[d] = Idle \/ task'[d] = Lost
    BY <1>b
  <2>4. G \in SUBSET Clients
    OBVIOUS
  <2>a. \A d \in Clients, n \in Masters : Creating(d, n) => (d \in G <=> n \in started)
    BY <1>3, <1>c, TaskShape
  <2> HIDE DEF G
  <2>5. \A d \in Clients, n \in Masters :
                /\ Creating(d, n)' <=> Creating(d, n) /\ d \notin G
                /\ Deleting(d, n)' <=> Deleting(d, n)
                /\ Deleting(d, n)' => task'[d] = task[d]
    BY <1>b, <2>1, <2>2, <2>3, <2>4, OvertakenMoves
  <2> QED
    BY <2>5, <2>a
<1>6. Typed'
  <2>1. task' \in [Clients -> Kinds']
    BY <1>1, <1>b DEF Kinds
  <2>2. \A n \in Masters : dups'[n] \subseteq Dup[n]
    BY <1>1 DEF Typed
  <2> QED
    BY <1>1, <2>1, <2>2 DEF Typed
<1>7. Alone'
  <2>1. \A d \in Clients : task[d] = Idle => d \in kept
    BY <1>3, <1>c, TaskShape
  <2>2. world.patient => \A d \in Clients : task[d] = Idle
    BY <1>1 DEF Alone
  <2> QED
    BY <1>1, <1>b, <2>1, <2>2 DEF Alone
<1>8. \A n \in Masters : Sound(n)' <=> Sound(n)
  BY <1>1, SoundStays
<1>9. Doomed'
  <2>1. deleting' \subseteq proxy_ports'
    BY <1>1, <1>4 DEF Doomed, TypeOK
  <2> QED
    BY <1>1, <1>5, <1>8, <2>1 DEF Doomed, Ports
<1>10. ASSUME NEW n \in Masters, Sound(n)
       PROVE  /\ proxies'[n] \in {0, 1}
              /\ n \in started => proxies'[n] = 1 \/ n \in overtaken'
              /\ n \notin started => proxies'[n] = 0
  <2>1. proxies[n] \in Nat /\ (n \notin proxy_ports => proxies[n] <= 1)
    BY <1>10 DEF TypeOK, Booked, EnteredOnce
  <2>2. Entries(n) \in {0, 1}
    <3>1. /\ Cardinality(Finishing(n)) \in {0, 1}
          /\ Cardinality(Finishing(n)) = 1 => n \in proxy_ports
      BY <1>10, OneFinishes
    <3> QED
      BY <2>1, <3>1 DEF Entries
  <2>3. proxies'[n] = IF n \in started \ L THEN Entries(n) ELSE 0
    BY <1>a
  <2> QED
    BY <1>1, <2>2, <2>3
<1>11. Busy'
  BY <1>4, <1>5, <1>8, <1>10 DEF Busy
<1>12. \A n \in Masters : /\ n \notin started => (IsCreating(n)' <=> IsCreating(n))
                          /\ n \in started => ~IsCreating(n)'
                          /\ IsDeleting(n)' <=> IsDeleting(n)
  BY <1>5 DEF IsCreating, IsDeleting
<1>13. ASSUME NEW n \in Masters, Sound(n)
       PROVE  Entered(n)' /\ LeftDeleting(n)' /\ EnteredOnce(n)'
  <2>1. n \in deleting => IsDeleting(n)
    BY <1>1, <1>13 DEF Booked, LeftDeleting
  <2>2. Entered(n)'
    <3>1. CASE n \in started
      BY <1>10, <1>13, <3>1 DEF Entered
    <3>2. CASE n \notin started
      <4>1. n \in proxy_ports => proxies[n] > 0 \/ IsCreating(n) \/ IsDeleting(n) \/ n \in overtaken
        BY <1>13 DEF Booked, Entered
      <4>2. proxies[n] > 0 => IsDeleting(n)
        BY <1>3, <2>1, <3>2
      <4> QED
        BY <1>1, <1>4, <1>12, <3>2, <4>1, <4>2 DEF Entered
    <3> QED
      BY <3>1, <3>2
  <2>3. LeftDeleting(n)'
    BY <1>1, <1>12, <2>1 DEF LeftDeleting
  <2>4. EnteredOnce(n)'
    BY <1>4, <1>10, <1>13 DEF EnteredOnce
  <2> QED
    BY <2>2, <2>3, <2>4
<1>14. Booked'
  BY <1>8, <1>13 DEF Booked
<1>15. Whole'
  <2>1. ASSUME NEW n \in Masters, Sound(n)
        PROVE  Together(n)' /\ DupsKnown(n)'
    <3>1. dups'[n] = IF n \in started THEN Dup[n] ELSE dups[n]
      BY <1>1
    <3> QED
      BY <1>4, <1>12, <2>1, <3>1 DEF Whole, Together, DupsKnown
  <2> QED
    BY <1>8, <2>1 DEF Whole
<1> QED
  BY <1>2, <1>6, <1>7, <1>9, <1>11, <1>14, <1>15

\* Steps that change none of this but where the configuration from the cloud is.
LEMMA ElsewherePorts ==
    ASSUME PortInv, TypeOK',
           UNCHANGED <<proxy_ports, deleting, dups, proxies, task, world, ops, overtaken>>,
           apply' = "deleted" <=> apply = "deleted",
           world.patient /\ apply' # "idle" => apply # "idle" \/ Nobody,
           crashes' \in Nat, syncs' \in Nat
    PROVE  PortInv'
<1> USE DEF PortInv
<1>1. \A d \in Clients, n \in Masters :
                /\ Creating(d, n)' <=> Creating(d, n)
                /\ Deleting(d, n)' <=> Deleting(d, n)
  BY TasksStay
<1>2. \A n \in Masters : Sound(n)' <=> Sound(n)
  BY SoundStays
<1>3. Typed'
  BY DEF Typed, Kinds
<1>4. Alone'
  BY DEF Alone, Nobody
<1>5. Doomed'
  BY <1>1, <1>2 DEF Doomed, Ports
<1>6. Busy'
  BY <1>1, <1>2 DEF Busy
<1>7. \A n \in Masters : (IsCreating(n)' <=> IsCreating(n)) /\ (IsDeleting(n)' <=> IsDeleting(n))
  BY <1>1 DEF IsCreating, IsDeleting
<1>8. Booked'
  BY <1>2, <1>7 DEF Booked, Entered, LeftDeleting, EnteredOnce
<1>9. Whole'
  BY <1>2, <1>7 DEF Whole, Together, DupsKnown
<1> QED
  BY <1>3, <1>4, <1>5, <1>6, <1>8, <1>9

\* Every step keeps the ports, the entries and the requests together.
LEMMA StepPorts == PortInv /\ [Next]_vars => PortInv'
<1> SUFFICES ASSUME PortInv, [Next]_vars PROVE PortInv'
  OBVIOUS
<1>1. TypeOK' /\ TypeOK
  BY StepTypes DEF PortInv
<1>2. crashes \in Nat /\ syncs \in Nat /\ ops \in Nat
  BY DEF PortInv, Typed
<1>3. CASE UNCHANGED vars
  BY <1>1, <1>2, <1>3, ElsewherePorts DEF vars, portvars, bounds
<1>4. ASSUME NEW c \in Clients, NEW m \in Masters, proxy_delete(c, m) PROVE PortInv'
  <2>1. PICK op \in {"delete", "replace"} : Request(op, c, m) /\ Stop(c, m, op)
    BY <1>4 DEF proxy_delete
  <2>2. /\ m \in world.ports /\ task[c] = Idle /\ (world.patient => Nobody)
        /\ ops' \in Nat
        /\ UNCHANGED <<proxies, apply, pending, wstate, servers, binding, bound, up,
                       world, crashes, syncs, overtaken>>
    BY <1>2, <2>1 DEF Request
  <2> QED
    BY <2>1, <2>2, StopPorts
<1>5. ASSUME NEW w \in Workers,
             \/ WorkerHandles(w) \/ MasterHandles(w) \/ Crash(w) \/ WorkerExit(w)
             \/ \E p \in AllPorts : Listening(w, p)
      PROVE  PortInv'
  <2>1. UNCHANGED <<proxy_ports, deleting, dups, proxies, task, apply, world, ops, syncs, overtaken>>
    BY <1>5 DEF WorkerHandles, MasterHandles, Crash, WorkerExit, Listening, portvars, bounds
  <2>2. crashes' \in Nat
    BY <1>2, <1>5 DEF WorkerHandles, MasterHandles, Crash, WorkerExit, Listening, bounds
  <2> QED
    BY <1>1, <1>2, <2>1, <2>2, ElsewherePorts
<1>6. CASE new_conf
  <2>1. /\ UNCHANGED <<proxy_ports, deleting, dups, proxies, task, world, ops, crashes, overtaken>>
        /\ syncs' \in Nat /\ (world.patient => Nobody)
        /\ apply' = "deleted" <=> apply = "deleted"
    BY <1>2, <1>6 DEF new_conf, portvars
  <2> QED
    BY <1>1, <1>2, <2>1, ElsewherePorts
<1>7. CASE run_workers
  <2>1. /\ UNCHANGED <<proxy_ports, deleting, dups, proxies, task, world, ops, crashes, syncs, overtaken>>
        /\ apply = "started" /\ apply' = "running"
    BY <1>7 DEF run_workers, portvars, bounds
  <2> QED
    BY <1>1, <1>2, <2>1, ElsewherePorts
<1>8. CASE apply_ends
  <2>1. /\ UNCHANGED <<proxy_ports, deleting, dups, proxies, task, world, ops, crashes, syncs, overtaken>>
        /\ apply = "running" /\ apply' \in {"idle", "killed"}
    BY <1>8 DEF apply_ends, Finally, portvars, bounds
  <2> QED
    BY <1>1, <1>2, <2>1, ElsewherePorts
<1>9. ASSUME NEW M \in SUBSET world.ports, delete_all(M) PROVE PortInv'
  <2> DEFINE D == Configured
  <2>1. PICK F \in SUBSET UNION {Finishing(m) : m \in Masters \ Configured} :
          /\ proxy_ports' = proxy_ports \ Leaving(D)
          /\ dups' = [m \in Masters |-> IF m \in D THEN {}
                                        ELSE IF m \in Made(F) \intersect proxy_ports THEN Dup[m]
                                        ELSE dups[m]]
          /\ task' = [c \in Clients |-> IF c \in F THEN Idle ELSE task[c]]
          /\ overtaken' = overtaken \union Made(F)
    BY <1>9 DEF delete_all
  <2>2. /\ apply = "killed" /\ apply' = "deleted"
        /\ Configured \subseteq Deletable
        /\ deleting' = deleting \ Configured
        /\ \A n \in Masters : proxies'[n] <= 1
        /\ UNCHANGED <<world, ops, crashes, syncs>>
    BY <1>9 DEF delete_all
  <2>3. /\ D \in SUBSET (Configured \intersect Deletable)
        /\ deleting' \subseteq (deleting \union (Configured \intersect Deletable)) \ D
        /\ deleting \subseteq deleting'
    BY <2>2 DEF Deletable
  <2>4. F \in SUBSET Clients /\ \A c \in F : \E n \in Masters : c \in Finishing(n)
    BY DEF Finishing
  <2> QED
    BY <1>1, <2>1, <2>2, <2>3, <2>4, CloudDeletePorts
<1>10. ASSUME NEW D \in SUBSET world.ports, delete_fails(D) PROVE PortInv'
  <2>1. /\ apply = "killed" /\ apply' \in {"killed", "idle"}
        /\ proxy_ports' = proxy_ports \ Leaving(D)
        /\ dups' = [m \in Masters |-> IF m \in D THEN {} ELSE dups[m]]
        /\ D \in SUBSET (Configured \intersect Deletable)
        /\ deleting' = (deleting \union (Configured \intersect Deletable)) \ D
        /\ UNCHANGED <<task, world, ops, crashes, syncs, overtaken>>
        /\ \A n \in Masters : proxies'[n] = IF n \in D THEN proxies[n] - 1 ELSE proxies[n]
    BY <1>10 DEF delete_fails, Without, Finally, bounds
  <2>2. deleting \subseteq deleting'
    BY <2>1 DEF Deletable
  <2>3. Made({}) = {}
    BY DEF Made
  <2>4. /\ dups' = [m \in Masters |-> IF m \in D THEN {}
                                     ELSE IF m \in Made({}) \intersect proxy_ports THEN Dup[m]
                                     ELSE dups[m]]
        /\ task' = [c \in Clients |-> IF c \in {} THEN Idle ELSE task[c]]
        /\ overtaken' = overtaken \union Made({})
        /\ {} \in SUBSET Clients /\ \A c \in {} : \E n \in Masters : c \in Finishing(n)
    BY <2>1, <2>3 DEF PortInv, Typed
  <2> QED
    BY <1>1, <2>1, <2>2, <2>4, CloudDeletePorts
<1>11. ASSUME NEW c \in Clients, NEW m \in Masters,
              \/ proxy_create(c, m) \/ proxy_created(c, m)
              \/ proxy_deleted(c, m) \/ init_proxy(c, m)
       PROVE  PortInv'
  BY <1>11, CreatePorts, CreatedPorts, DeletedPorts, InitProxyPorts
<1>12. CASE Cloud
  BY <1>6, <1>7, <1>8, <1>9, <1>10, <1>12, CloudStartPorts DEF Cloud
<1> QED
  BY <1>3, <1>4, <1>5, <1>11, <1>12 DEF Next

\* At rest they agree.
LEMMA PortsAgree == PortInv => ConfigMatchesPorts
<1> SUFFICES ASSUME PortInv, apply = "idle", NEW m \in Masters, ~Waiting(m), Sound(m)
             PROVE  \/ proxies[m] = 1 /\ Ports(m) \subseteq proxy_ports
                    \/ proxies[m] = 0 /\ Ports(m) \intersect proxy_ports = {}
                    \/ m \in overtaken /\ proxies[m] = 0 /\ Ports(m) \subseteq proxy_ports
  BY DEF ConfigMatchesPorts
<1>1. ~IsCreating(m) /\ ~IsDeleting(m)
  BY DEF Waiting, IsCreating, IsDeleting
<1>2. /\ proxies[m] \in Nat /\ proxies[m] <= 1
      /\ proxies[m] = 1 => m \in proxy_ports
      /\ m \in proxy_ports => proxies[m] > 0 \/ m \in overtaken
  BY <1>1 DEF PortInv, TypeOK, Booked, Entered, EnteredOnce
<1>3. \A q \in Dup[m] : q \in proxy_ports <=> m \in proxy_ports
  BY DEF PortInv, Whole, Together
<1>4. CASE m \in proxy_ports
  BY <1>2, <1>3, <1>4 DEF Ports
<1>5. CASE m \notin proxy_ports
  BY <1>2, <1>3, <1>5 DEF Ports
<1> QED
  BY <1>4, <1>5

\* Whatever requests meet, and wherever a configuration from the cloud fails or
\* overtakes them: for a port that nobody works on there is one entry and it
\* runs with all of its duplicates, or there is none and nothing of it runs;
\* only one that a configuration overtook may run, whole, without its entry.
THEOREM ConfigurationMatches == Spec => []ConfigMatchesPorts
<1>1. Spec => []PortInv
  BY InitPorts, StepPorts, PTL DEF Spec
<1> QED
  BY <1>1, PortsAgree, PTL

-----------------------------------------------------------------------------
(***************************************************************************)
(* What is left of the orders to a worker: the last one about a port says  *)
(* whether the worker will have it.                                        *)
(***************************************************************************)

NoStop(q, k, p) == \A j \in DOMAIN q : j > k => q[j] # Order("STOP", p)
EndsOpen(q, S, p) ==
    \/ \E i \in DOMAIN q : q[i] = Order("CREATE", p) /\ NoStop(q, i, p)
    \/ p \in S /\ NoStop(q, 0, p)

\* Orders differ where they say something else.
LEMMA OrderShape ==
    /\ \A a, b, p, r : Order(a, p) = Order(b, r) => a = b /\ p = r
    /\ \A h \in Orders : h = Order(h.code, h.port) /\ h.code \in {"CREATE", "STOP"} /\ h.port \in AllPorts
<1>1. ASSUME NEW a, NEW b, NEW p, NEW r, Order(a, p) = Order(b, r) PROVE a = b /\ p = r
  <2>1. Order(a, p).code = a /\ Order(a, p).port = p /\ Order(b, r).code = b /\ Order(b, r).port = r
    BY DEF Order
  <2> QED
    BY <1>1, <2>1
<1>2. \A h \in Orders : h = Order(h.code, h.port) /\ h.code \in {"CREATE", "STOP"} /\ h.port \in AllPorts
  BY DEF Order, Orders
<1> QED
  BY <1>1, <1>2

\* No orders are left: a worker has what it has.
LEMMA EndsEmpty == \A S, p : EndsOpen(<<>>, S, p) <=> p \in S
BY DEF EndsOpen, NoStop

\* The head of a channel is handled.
LEMMA EndsTail ==
    ASSUME NEW q \in Seq(Orders), q # <<>>, NEW S, NEW p,
           NEW T, T = IF Head(q).code = "CREATE" THEN S \union {Head(q).port} ELSE S \ {Head(q).port}
    PROVE  EndsOpen(q, S, p) <=> EndsOpen(Tail(q), T, p)
<1> DEFINE h == Head(q)
           t == Tail(q)
<1>1. /\ Len(q) \in Nat \ {0} /\ DOMAIN q = 1 .. Len(q) /\ h = q[1] /\ h \in Orders
      /\ DOMAIN t = 1 .. Len(q) - 1
      /\ \A i \in 1 .. Len(q) - 1 : t[i] = q[i + 1]
  BY TailShape
<1>2. h = Order(h.code, h.port) /\ h.code \in {"CREATE", "STOP"}
  BY <1>1, OrderShape
<1>3. p \in T <=> IF h.code = "CREATE" THEN p \in S \/ p = h.port ELSE p \in S /\ p # h.port
  OBVIOUS
<1> HIDE DEF h, t
<1>4. ASSUME NEW k \in Nat PROVE NoStop(t, k, p) <=> NoStop(q, k + 1, p)
  <2>1. ASSUME NoStop(t, k, p), NEW j \in DOMAIN q, j > k + 1 PROVE q[j] # Order("STOP", p)
    <3>1. j - 1 \in 1 .. Len(q) - 1 /\ j - 1 > k /\ (j - 1) + 1 = j
      BY <1>1, <2>1
    <3>2. t[j - 1] = q[j]
      BY <1>1, <3>1
    <3> QED
      BY <1>1, <2>1, <3>1, <3>2 DEF NoStop
  <2>2. ASSUME NoStop(q, k + 1, p), NEW j \in DOMAIN t, j > k PROVE t[j] # Order("STOP", p)
    <3>1. j + 1 \in DOMAIN q /\ j + 1 > k + 1 /\ t[j] = q[j + 1]
      BY <1>1, <2>2
    <3> QED
      BY <2>2, <3>1 DEF NoStop
  <2> QED
    BY <2>1, <2>2 DEF NoStop
<1>5. NoStop(q, 0, p) <=> NoStop(q, 1, p) /\ h # Order("STOP", p)
  BY <1>1 DEF NoStop
<1>6. NoStop(t, 0, p) <=> NoStop(q, 1, p)
  BY <1>4, 0 + 1 = 1
<1>7. h = Order("STOP", p) <=> h.code = "STOP" /\ h.port = p
  BY <1>2, OrderShape
<1>8. h = Order("CREATE", p) <=> h.code = "CREATE" /\ h.port = p
  BY <1>2, OrderShape
<1> DEFINE later == \E i \in DOMAIN t : t[i] = Order("CREATE", p) /\ NoStop(t, i, p)
<1>9. (\E i \in DOMAIN q : q[i] = Order("CREATE", p) /\ NoStop(q, i, p))
         <=> later \/ (h = Order("CREATE", p) /\ NoStop(q, 1, p))
  <2>1. ASSUME NEW i \in DOMAIN q, q[i] = Order("CREATE", p), NoStop(q, i, p), i # 1 PROVE later
    <3>1. i - 1 \in 1 .. Len(q) - 1 /\ (i - 1) + 1 = i /\ i - 1 \in Nat
      BY <1>1, <2>1
    <3>2. t[i - 1] = q[i] /\ i - 1 \in DOMAIN t
      BY <1>1, <3>1
    <3>3. NoStop(t, i - 1, p)
      BY <1>4, <2>1, <3>1
    <3> QED
      BY <2>1, <3>2, <3>3
  <2>2. ASSUME NEW i \in DOMAIN t, t[i] = Order("CREATE", p), NoStop(t, i, p)
        PROVE  \E j \in DOMAIN q : q[j] = Order("CREATE", p) /\ NoStop(q, j, p)
    <3>1. i + 1 \in DOMAIN q /\ t[i] = q[i + 1] /\ i \in Nat
      BY <1>1, <2>2
    <3>2. NoStop(q, i + 1, p)
      BY <1>4, <2>2, <3>1
    <3> QED
      BY <2>2, <3>1, <3>2
  <2>3. 1 \in DOMAIN q /\ q[1] = h
    BY <1>1
  <2> QED
    BY <2>1, <2>2, <2>3
<1>10. EndsOpen(t, T, p) <=> later \/ (p \in T /\ NoStop(q, 1, p))
  BY <1>6 DEF EndsOpen
<1>11. EndsOpen(q, S, p) <=> \/ later
                             \/ h = Order("CREATE", p) /\ NoStop(q, 1, p)
                             \/ p \in S /\ NoStop(q, 1, p) /\ h # Order("STOP", p)
  BY <1>5, <1>9 DEF EndsOpen
<1> HIDE DEF later
<1>12. CASE h.code = "CREATE"
  BY <1>3, <1>7, <1>8, <1>10, <1>11, <1>12 DEF t
<1>13. CASE h.code = "STOP"
  BY <1>3, <1>7, <1>8, <1>10, <1>11, <1>13 DEF t
<1> QED
  BY <1>2, <1>12, <1>13

\* More orders are sent: those decide about their ports.
LEMMA EndsConcat ==
    ASSUME NEW q \in Seq(Orders), NEW S, NEW p \in AllPorts, NEW P \in SUBSET AllPorts
    PROVE  /\ EndsOpen(q \o Msgs("CREATE", P), S, p) <=> p \in P \/ EndsOpen(q, S, p)
           /\ EndsOpen(q \o Msgs("STOP", P), S, p) <=> p \notin P /\ EndsOpen(q, S, p)
<1> SUFFICES ASSUME NEW code \in {"CREATE", "STOP"}
             PROVE  EndsOpen(q \o Msgs(code, P), S, p) <=>
                      IF code = "CREATE" THEN p \in P \/ EndsOpen(q, S, p)
                                         ELSE p \notin P /\ EndsOpen(q, S, p)
  OBVIOUS
<1> DEFINE r == Msgs(code, P)
           u == q \o r
           n == Len(q)
<1>1. /\ r \in Seq(Orders)
      /\ \A i \in DOMAIN r : \E x \in P : r[i] = Order(code, x)
      /\ \A x \in P : \E i \in DOMAIN r : r[i] = Order(code, x)
  BY OrdersFor, MessagesFor
<1> HIDE DEF r
<1>2. /\ n \in Nat /\ Len(r) \in Nat /\ DOMAIN q = 1 .. n /\ DOMAIN r = 1 .. Len(r)
      /\ DOMAIN u = 1 .. n + Len(r)
      /\ \A i \in 1 .. n : u[i] = q[i]
      /\ \A i \in 1 .. Len(r) : u[n + i] = r[i]
  BY <1>1
<1> HIDE DEF u, n
<1> DEFINE m == Len(r)
<1>3. \A i \in DOMAIN r : \A c : r[i] = Order(c, p) => c = code /\ p \in P
  BY <1>1, OrderShape
<1>4. \A i \in DOMAIN u : \/ i \in 1 .. n /\ u[i] = q[i]
                          \/ i - n \in 1 .. m /\ u[i] = r[i - n] /\ i > n
  <2>1. ASSUME NEW i \in DOMAIN u, i \notin 1 .. n PROVE i - n \in 1 .. m /\ u[i] = r[i - n] /\ i > n
    <3>1. i - n \in 1 .. m /\ n + (i - n) = i /\ i > n
      BY <1>2, <2>1
    <3> QED
      BY <1>2, <3>1
  <2> QED
    BY <1>2, <2>1
<1>5. CASE p \notin P
  <2>1. \A j \in 1 .. m : r[j] # Order("STOP", p) /\ r[j] # Order("CREATE", p)
    BY <1>2, <1>3, <1>5
  <2>2. ASSUME NEW k \in Nat PROVE NoStop(u, k, p) <=> NoStop(q, k, p)
    <3>1. ASSUME NoStop(q, k, p), NEW j \in DOMAIN u, j > k PROVE u[j] # Order("STOP", p)
      BY <1>2, <1>4, <2>1, <3>1 DEF NoStop
    <3>2. ASSUME NoStop(u, k, p), NEW j \in DOMAIN q, j > k PROVE q[j] # Order("STOP", p)
      <4>1. j \in DOMAIN u /\ u[j] = q[j]
        BY <1>2
      <4> QED
        BY <3>2, <4>1 DEF NoStop
    <3> QED
      BY <3>1, <3>2 DEF NoStop
  <2>3. (\E i \in DOMAIN u : u[i] = Order("CREATE", p) /\ NoStop(u, i, p))
           <=> \E i \in DOMAIN q : q[i] = Order("CREATE", p) /\ NoStop(q, i, p)
    <3>1. ASSUME NEW i \in DOMAIN u, u[i] = Order("CREATE", p), NoStop(u, i, p)
          PROVE  \E j \in DOMAIN q : q[j] = Order("CREATE", p) /\ NoStop(q, j, p)
      <4>1. i \in 1 .. n /\ u[i] = q[i]
        BY <1>4, <2>1, <3>1
      <4>2. NoStop(q, i, p)
        BY <1>2, <2>2, <3>1, <4>1
      <4> QED
        BY <1>2, <3>1, <4>1, <4>2
    <3>2. ASSUME NEW i \in DOMAIN q, q[i] = Order("CREATE", p), NoStop(q, i, p)
          PROVE  \E j \in DOMAIN u : u[j] = Order("CREATE", p) /\ NoStop(u, j, p)
      <4>1. i \in DOMAIN u /\ u[i] = q[i] /\ i \in Nat
        BY <1>2
      <4> QED
        BY <2>2, <3>2, <4>1
    <3> QED
      BY <3>1, <3>2
  <2>4. NoStop(u, 0, p) <=> NoStop(q, 0, p)
    BY <2>2
  <2>5. EndsOpen(u, S, p) <=> EndsOpen(q, S, p)
    BY <2>3, <2>4 DEF EndsOpen
  <2> QED
    BY <1>5, <2>5 DEF u, r
<1>6. CASE p \in P /\ code = "CREATE"
  <2>1. PICK i \in 1 .. m : r[i] = Order("CREATE", p)
    BY <1>1, <1>2, <1>6
  <2>2. n + i \in DOMAIN u /\ u[n + i] = Order("CREATE", p)
    BY <1>2, <2>1
  <2>3. NoStop(u, n + i, p)
    <3> SUFFICES ASSUME NEW j \in DOMAIN u, j > n + i PROVE u[j] # Order("STOP", p)
      BY DEF NoStop
    <3>1. j - n \in 1 .. m /\ u[j] = r[j - n]
      BY <1>2, <1>4
    <3> QED
      BY <1>2, <1>3, <1>6, <3>1
  <2>4. EndsOpen(u, S, p)
    BY <2>2, <2>3 DEF EndsOpen
  <2> QED
    BY <1>6, <2>4 DEF u, r
<1>7. CASE p \in P /\ code = "STOP"
  <2>1. PICK i \in 1 .. m : r[i] = Order("STOP", p)
    BY <1>1, <1>2, <1>7
  <2>2. n + i \in DOMAIN u /\ u[n + i] = Order("STOP", p) /\ n + i > 0
    BY <1>2, <2>1
  <2>3. ~NoStop(u, 0, p)
    BY <2>2 DEF NoStop
  <2>4. ASSUME NEW j \in DOMAIN u, u[j] = Order("CREATE", p) PROVE ~NoStop(u, j, p)
    <3>1. j \in 1 .. n
      BY <1>2, <1>3, <1>4, <1>7, <2>4
    <3>2. n + i > j
      BY <1>2, <3>1
    <3> QED
      BY <2>2, <3>2 DEF NoStop
  <2>5. ~EndsOpen(u, S, p)
    BY <2>3, <2>4 DEF EndsOpen
  <2> QED
    BY <1>7, <2>5 DEF u, r
<1> QED
  BY <1>5, <1>6, <1>7

\* A channel with nothing but these orders.
LEMMA EndsFresh ==
    ASSUME NEW S, NEW p \in AllPorts, NEW P \in SUBSET AllPorts, p \notin S
    PROVE  EndsOpen(Msgs("CREATE", P), S, p) <=> p \in P
<1>1. <<>> \in Seq(Orders) /\ Msgs("CREATE", P) \in Seq(Orders)
  BY OrdersFor
<1>2. <<>> \o Msgs("CREATE", P) = Msgs("CREATE", P)
  BY <1>1
<1>3. EndsOpen(<<>> \o Msgs("CREATE", P), S, p) <=> p \in P \/ EndsOpen(<<>>, S, p)
  BY <1>1, EndsConcat
<1> QED
  BY <1>2, <1>3, EndsEmpty

-----------------------------------------------------------------------------
(***************************************************************************)
(* The workers: where their processes are, and what they listen on.        *)
(***************************************************************************)

\* Without a configuration from the cloud nobody kills them, ...
NoSync == world.max_syncs = 0 => apply = "idle" /\ \A w \in Workers : wstate[w] # "killed"
\* ... and without crashes none is dead.
NoCrash == world.max_crashes = 0 => \A w \in Workers : wstate[w] # "dead"
\* While the ports are replaced there are no workers.
Killed == apply \in {"killed", "deleted", "started"} => \A w \in Workers : wstate[w] = "killed"
\* A server listens or waits for its socket; a process that is gone has none.
Sockets == \A w \in Workers :
              /\ servers[w] = bound[w] \union binding[w]
              /\ wstate[w] # "up" => servers[w] = {} /\ down[w] = <<>>
ProcInv == NoSync /\ NoCrash /\ Killed /\ Sockets

\* The first states.
LEMMA InitProcs == Init => ProcInv
BY DEF Init, ProcInv, NoSync, NoCrash, Killed, Sockets

\* Only workers that are up are sent anything.
LEMMA SendShape ==
    ASSUME NEW q, down' = Send(q)
    PROVE  \A w \in Workers : down'[w] = IF wstate[w] = "up" THEN down[w] \o q ELSE down[w]
BY DEF Send

\* A step of the master that leaves the processes alone.
LEMMA ProcsStay ==
    ASSUME ProcInv, UNCHANGED <<apply, wstate, servers, binding, bound, world>>,
           \A w \in Workers : wstate[w] # "up" => down'[w] = down[w]
    PROVE  ProcInv'
BY DEF ProcInv, NoSync, NoCrash, Killed, Sockets

\* Requests leave them alone.
LEMMA RequestProcs ==
    ASSUME ProcInv, NEW c \in Clients, NEW m \in Masters,
           \/ proxy_create(c, m) \/ proxy_created(c, m)
           \/ proxy_delete(c, m) \/ proxy_deleted(c, m) \/ init_proxy(c, m)
    PROVE  /\ UNCHANGED <<apply, wstate, servers, binding, bound, world>>
           /\ ProcInv'
<1>1. UNCHANGED <<apply, wstate, servers, binding, bound, world>>
  BY DEF proxy_create, proxy_created, proxy_delete, proxy_deleted, init_proxy, Request, Stop,
         workervars, bounds
<1>2. down' = down \/ \E q : down' = Send(q)
  BY DEF proxy_create, proxy_created, proxy_delete, proxy_deleted, init_proxy, Stop,
         workervars, portvars
<1>3. \A w \in Workers : wstate[w] # "up" => down'[w] = down[w]
  BY <1>2, SendShape
<1> QED
  BY <1>1, <1>3, ProcsStay

\* The processes of some workers are gone.
LEMMA GoneProcs ==
    ASSUME NEW W \in SUBSET Workers, Gone(W)
    PROVE  \A w \in Workers :
              IF w \in W THEN servers'[w] = {} /\ binding'[w] = {} /\ bound'[w] = {} /\ down'[w] = <<>>
              ELSE /\ servers'[w] = servers[w] /\ binding'[w] = binding[w]
                   /\ bound'[w] = bound[w] /\ down'[w] = down[w]
BY DEF Gone

\* All of them are.
LEMMA KillProcs ==
    ASSUME Kill
    PROVE  /\ \A w \in Workers : wstate'[w] = "killed"
           /\ Sockets' /\ NoCrash'
<1>1. \A w \in Workers : wstate'[w] = "killed"
  BY DEF Kill
<1>2. \A w \in Workers : servers'[w] = {} /\ binding'[w] = {} /\ bound'[w] = {} /\ down'[w] = <<>>
  BY GoneProcs DEF Kill
<1> QED
  BY <1>1, <1>2 DEF Sockets, NoCrash

\* apply_cloud_config ends.
LEMMA FinallyProcs ==
    ASSUME ProcInv, Finally, world' = world, apply # "idle"
    PROVE  ProcInv'
<1>1. world.max_syncs # 0
  BY DEF ProcInv, NoSync
<1>2. CASE Kill /\ apply' = "killed"
  BY <1>1, <1>2, KillProcs DEF ProcInv, NoSync, Killed
<1>3. CASE UNCHANGED workervars /\ apply' = "idle"
  BY <1>1, <1>3 DEF ProcInv, NoSync, NoCrash, Killed, Sockets, workervars
<1> QED
  BY <1>2, <1>3 DEF Finally

\* Every step keeps the processes in order.
LEMMA StepProcs == TypeOK /\ Typed /\ ProcInv /\ [Next]_vars => ProcInv'
<1> SUFFICES ASSUME TypeOK, Typed, ProcInv, [Next]_vars PROVE ProcInv'
  OBVIOUS
<1>1. CASE UNCHANGED vars
  BY <1>1, ProcsStay DEF vars, workervars, bounds
<1>2. ASSUME NEW w \in Workers, WorkerHandles(w) PROVE ProcInv'
  <2>1. /\ UNCHANGED <<apply, wstate, world>> /\ wstate[w] = "up"
        /\ \A v \in Workers : v # w => down'[v] = down[v]
    BY <1>2 DEF WorkerHandles, bounds, TypeOK
  <2>2. \A v \in Workers : /\ v # w => servers'[v] = servers[v]
                           /\ servers'[v] = bound'[v] \union binding'[v]
    <3> DEFINE p == Head(down[w]).port
    <3>1. /\ servers \in [Workers -> SUBSET AllPorts] /\ binding \in [Workers -> SUBSET AllPorts]
          /\ bound \in [Workers -> SUBSET AllPorts]
          /\ \A v \in Workers : servers[v] = bound[v] \union binding[v]
      BY DEF TypeOK, ProcInv, Sockets
    <3>2. Opens(w, p) \/ Closes(w, p) \/ UNCHANGED <<servers, binding, bound>>
      BY <1>2 DEF WorkerHandles
    <3> HIDE DEF p
    <3>3. CASE Opens(w, p)
      BY <3>1, <3>3 DEF Opens
    <3>4. CASE Closes(w, p)
      BY <3>1, <3>4 DEF Closes, Closed
    <3>5. CASE UNCHANGED <<servers, binding, bound>>
      BY <3>1, <3>5
    <3> QED
      BY <3>2, <3>3, <3>4, <3>5
  <2> QED
    BY <2>1, <2>2 DEF ProcInv, NoSync, NoCrash, Killed, Sockets
<1>3. ASSUME NEW w \in Workers, MasterHandles(w) PROVE ProcInv'
  BY <1>3, ProcsStay DEF MasterHandles, bounds
<1>4. ASSUME NEW w \in Workers, Crash(w) PROVE ProcInv'
  <2>1. /\ UNCHANGED <<apply, world>> /\ wstate[w] = "up" /\ crashes < world.max_crashes
        /\ \A v \in Workers : wstate'[v] = IF v = w THEN "dead" ELSE wstate[v]
    BY <1>4 DEF Crash, TypeOK
  <2>2. \A v \in Workers :
              IF v = w THEN servers'[v] = {} /\ binding'[v] = {} /\ bound'[v] = {} /\ down'[v] = <<>>
              ELSE /\ servers'[v] = servers[v] /\ binding'[v] = binding[v]
                   /\ bound'[v] = bound[v] /\ down'[v] = down[v]
    BY <1>4, GoneProcs, {w} \in SUBSET Workers DEF Crash
  <2>3. world.max_crashes # 0
    BY <2>1, WorldShape DEF Typed
  <2>4. Sockets'
    BY <2>1, <2>2 DEF ProcInv, Sockets
  <2> QED
    BY <2>1, <2>3, <2>4 DEF ProcInv, NoSync, NoCrash, Killed
<1>5. ASSUME NEW w \in Workers, WorkerExit(w) PROVE ProcInv'
  <2>1. /\ UNCHANGED <<apply, servers, binding, bound, world>> /\ wstate[w] = "dead"
        /\ \A v \in Workers : /\ wstate'[v] = IF v = w THEN "up" ELSE wstate[v]
                              /\ v # w => down'[v] = down[v]
    BY <1>5 DEF WorkerExit, TypeOK, bounds
  <2> QED
    BY <2>1 DEF ProcInv, NoSync, NoCrash, Killed, Sockets
<1>6. ASSUME NEW w \in Workers, NEW p \in AllPorts, Listening(w, p) PROVE ProcInv'
  <2>1. /\ UNCHANGED <<apply, wstate, servers, down, world>> /\ p \in binding[w]
        /\ \A v \in Workers : v # w => binding'[v] = binding[v] /\ bound'[v] = bound[v]
        /\ binding'[w] = binding[w] \ {p} /\ bound'[w] = bound[w] \union {p}
    BY <1>6 DEF Listening, TypeOK, bounds
  <2>2. Sockets'
    BY <2>1 DEF ProcInv, Sockets
  <2> QED
    BY <2>1, <2>2 DEF ProcInv, NoSync, NoCrash, Killed
<1>7. CASE new_conf
  <2>1. world' = world /\ world.max_syncs # 0
    BY <1>7, WorldShape DEF new_conf, Typed
  <2>2. CASE apply' = "killed" /\ Kill
    BY <2>1, <2>2, KillProcs DEF ProcInv, NoSync, Killed
  <2>3. CASE UNCHANGED <<apply, workervars>>
    BY <2>1, <2>3, ProcsStay DEF workervars
  <2> QED
    BY <1>7, <2>2, <2>3 DEF new_conf
<1>8. CASE init_proxies
  BY <1>8 DEF init_proxies, ProcInv, NoSync, NoCrash, Killed, Sockets, workervars
<1>9. CASE run_workers
  <2>1. /\ UNCHANGED <<servers, binding, bound, world>> /\ apply = "started" /\ apply' = "running"
        /\ \A w \in Workers : wstate'[w] = "up"
    BY <1>9 DEF run_workers, Forked, bounds
  <2> QED
    BY <2>1 DEF ProcInv, NoSync, NoCrash, Killed, Sockets
<1>10. CASE apply_ends
  BY <1>10, FinallyProcs DEF apply_ends, bounds
<1>11. ASSUME NEW M \in SUBSET world.ports, delete_all(M) PROVE ProcInv'
  <2>1. UNCHANGED <<workervars, world>> /\ apply = "killed" /\ apply' = "deleted"
    BY <1>11 DEF delete_all
  <2> QED
    BY <2>1 DEF ProcInv, NoSync, NoCrash, Killed, Sockets, workervars
<1>12. ASSUME NEW D \in SUBSET world.ports, delete_fails(D) PROVE ProcInv'
  BY <1>12, FinallyProcs DEF delete_fails, bounds
<1>13. CASE Cloud
  BY <1>7, <1>8, <1>9, <1>10, <1>11, <1>12, <1>13 DEF Cloud
<1> QED
  BY <1>1, <1>2, <1>3, <1>4, <1>5, <1>6, <1>13, RequestProcs DEF Next

-----------------------------------------------------------------------------
(***************************************************************************)
(* What the workers will have when they handled their orders.              *)
(***************************************************************************)

Open(w, p) == EndsOpen(down[w], servers[w], p)
Stopping(p) == \E c \in Clients, m \in Masters : p \in Ports(m) /\ Deleting(c, m)
Returning(p) == \E c \in Clients, m \in Masters : p \in Ports(m) /\ Checked(c, m)

\* Where clients only create, a port is deleted only to be created again.
CreateOnly ==
    world.operations = {"create"} =>
        \A c \in Clients, m \in Masters : Deleting(c, m) => task[c].op = "replace"

\* A port of the master that does not stop will be open, and what will be open
\* is a port of the master that does not stop; where clients only create, a
\* worker forked meanwhile may open one that stops and comes back.
Needed(w, p) == p \in proxy_ports /\ ~Stopping(p) => Open(w, p)
Allowed(w, p) ==
    Open(w, p) => IF world.operations = {"create"} THEN p \in proxy_ports \/ Returning(p)
                  ELSE p \in proxy_ports /\ ~Stopping(p)
Served == Orderly => \A w \in Workers, p \in AllPorts :
                        wstate[w] = "up" => Needed(w, p) /\ Allowed(w, p)

ClusterInv == PortInv /\ ProcInv /\ CreateOnly /\ Served

\* What is orderly does not change.
LEMMA OrderlyStays == ASSUME world' = world PROVE Orderly' <=> Orderly
BY SoundStays DEF Orderly

\* The first states: every worker has the ports of the master.
LEMMA InitServed == Init => ClusterInv
<1> SUFFICES ASSUME Init PROVE ClusterInv
  OBVIOUS
<1>1. /\ \A c \in Clients, m \in Masters : ~Deleting(c, m)
      /\ \A w \in Workers : down[w] = <<>> /\ servers[w] = proxy_ports
  BY DEF Init, Deleting, Idle
<1>2. \A w \in Workers, p \in AllPorts : Open(w, p) <=> p \in proxy_ports
  BY <1>1, EndsEmpty DEF Open
<1>3. CreateOnly
  BY <1>1 DEF CreateOnly
<1>4. Served
  BY <1>1, <1>2 DEF Served, Needed, Allowed, Stopping
<1> QED
  BY <1>3, <1>4, InitPorts, InitProcs DEF ClusterInv

\* Orders to all workers decide about their ports.
LEMMA SendOpens ==
    ASSUME TypeOK, NEW code \in {"CREATE", "STOP"}, NEW P \in SUBSET AllPorts,
           down' = Send(Msgs(code, P)), servers' = servers,
           NEW w \in Workers, wstate[w] = "up", NEW p \in AllPorts
    PROVE  Open(w, p)' <=> IF code = "CREATE" THEN p \in P \/ Open(w, p) ELSE p \notin P /\ Open(w, p)
<1>1. down'[w] = down[w] \o Msgs(code, P)
  BY SendShape
<1>2. down[w] \in Seq(Orders)
  BY DEF TypeOK
<1>3. EndsOpen(down'[w], servers[w], p) <=>
        IF code = "CREATE" THEN p \in P \/ EndsOpen(down[w], servers[w], p)
        ELSE p \notin P /\ EndsOpen(down[w], servers[w], p)
  BY <1>1, <1>2, EndsConcat
<1> QED
  BY <1>3 DEF Open

\* A request begins, or a port is ready.
LEMMA ServedQuietly ==
    ASSUME ClusterInv, NEW c \in Clients, NEW m \in Masters,
           proxy_create(c, m) \/ proxy_created(c, m)
    PROVE  CreateOnly' /\ Served'
<1> USE DEF ClusterInv
<1>1. UNCHANGED <<proxy_ports, down, servers, wstate, world>>
  BY DEF proxy_create, proxy_created, Request, portvars, workervars, bounds
<1>2. \A d \in Clients, n \in Masters :
        /\ Deleting(d, n)' <=> Deleting(d, n)
        /\ Checked(d, n) => Checked(d, n)'
  BY CreateMoves, CreatedMoves DEF PortInv
<1>3. \A d \in Clients, n \in Masters : Deleting(d, n) => task'[d] = task[d]
  <2>1. task[c] = Idle \/ Creating(c, m)
    BY CreateMoves, CreatedMoves DEF PortInv
  <2>2. \A n \in Masters : ~Deleting(c, n)
    BY <2>1, TaskShape DEF PortInv
  <2>3. \A d \in Clients : d # c => task'[d] = task[d]
    BY CreateMoves, CreatedMoves DEF PortInv
  <2> QED
    BY <2>2, <2>3
<1>4. CreateOnly'
  BY <1>1, <1>2, <1>3 DEF CreateOnly
<1>5. \A p \in AllPorts : (Stopping(p)' <=> Stopping(p)) /\ (Returning(p) => Returning(p)')
  BY <1>2 DEF Stopping, Returning, Ports
<1>6. \A w \in Workers, p \in AllPorts : Open(w, p)' <=> Open(w, p)
  BY <1>1 DEF Open
<1> QED
  BY <1>1, <1>4, <1>5, <1>6, OrderlyStays DEF Served, Needed, Allowed

\* A port is stopped.
LEMMA ServedStop ==
    ASSUME ClusterInv, NEW c \in Clients, NEW m \in Masters, NEW op \in {"delete", "replace"},
           Stop(c, m, op), m \in world.ports,
           \/ task[c] = Idle /\ (world.patient => Nobody)
           \/ Checked(c, m),
           world.operations = {"create"} => op = "replace",
           UNCHANGED <<wstate, servers, world>>
    PROVE  CreateOnly' /\ Served'
<1> USE DEF ClusterInv
<1>1. /\ proxy_ports' = proxy_ports /\ m \in proxy_ports
      /\ down' = Send(Msgs("STOP", StoppedWith(m)))
  BY DEF Stop
<1>2. /\ task'[c].op = op
      /\ \A d \in Clients : d # c => task'[d] = task[d]
      /\ \A d \in Clients, n \in Masters :
                /\ Deleting(d, n)' <=> Deleting(d, n) \/ (d = c /\ n = m)
                /\ Checked(d, n)' <=> Checked(d, n) /\ d # c
  BY StopMoves DEF PortInv
<1>3. CreateOnly'
  BY <1>2 DEF CreateOnly
<1> SUFFICES ASSUME Orderly, NEW w \in Workers, NEW p \in AllPorts, wstate[w] = "up"
             PROVE  Needed(w, p)' /\ Allowed(w, p)'
  BY <1>3, OrderlyStays DEF Served
<1>4. StoppedWith(m) = Ports(m)
  <2>1. Sound(m)
    BY DEF Orderly
  <2>2. \/ ~Creating(c, m) /\ task[c] # Idle
        \/ world.patient => Nobody
    BY TaskShape DEF PortInv
  <2> QED
    BY <1>1, <2>1, <2>2, StopsWhole
<1>5. Open(w, p)' <=> p \notin Ports(m) /\ Open(w, p)
  <2>1. Ports(m) \in SUBSET AllPorts
    BY PortsShape
  <2> QED
    BY <1>1, <1>4, <2>1, SendOpens DEF PortInv
<1>6. Stopping(p)' <=> Stopping(p) \/ p \in Ports(m)
  BY <1>2 DEF Stopping, Ports
<1>7. Returning(p) => Returning(p)' \/ p \in Ports(m)
  <2>1. \A n \in Masters : Checked(c, n) => n = m
    BY TaskShape DEF PortInv, Checked, Idle
  <2> QED
    BY <1>2, <2>1 DEF Returning, Ports
<1>8. Needed(w, p) /\ Allowed(w, p)
  BY DEF Served
<1> QED
  BY <1>1, <1>5, <1>6, <1>7, <1>8 DEF Needed, Allowed

\* A port is gone from the master.
LEMMA ServedDeleted ==
    ASSUME ClusterInv, NEW c \in Clients, NEW m \in Masters, proxy_deleted(c, m)
    PROVE  CreateOnly' /\ Served'
<1> USE DEF ClusterInv
<1>1. /\ UNCHANGED <<down, servers, wstate, world>>
      /\ proxy_ports' = proxy_ports \ ({m} \union dups[m])
  BY DEF proxy_deleted, Without, Leaving, workervars, bounds
<1>2. /\ Deleting(c, m)
      /\ \A d \in Clients, n \in Masters :
                /\ Deleting(d, n)' <=> Deleting(d, n) /\ d # c
                /\ Deleting(d, n)' => task'[d] = task[d]
                /\ Checked(d, n)' <=> \/ Checked(d, n)
                                      \/ d = c /\ n = m /\ task[c].op = "replace"
  BY DeletedMoves DEF PortInv
<1>3. CreateOnly'
  BY <1>1, <1>2 DEF CreateOnly
<1> SUFFICES ASSUME Orderly, NEW w \in Workers, NEW p \in AllPorts, wstate[w] = "up"
             PROVE  Needed(w, p)' /\ Allowed(w, p)'
  BY <1>1, <1>3, OrderlyStays DEF Served
<1>4. proxy_ports' = proxy_ports \ Ports(m)
  <2>1. Sound(m)
    BY DEF Orderly
  <2>2. {m} \union dups[m] = Ports(m)
    BY <1>2, <2>1, AllGone
  <2> QED
    BY <1>1, <2>2
<1>5. Open(w, p)' <=> Open(w, p)
  BY <1>1 DEF Open
<1>6. p \notin Ports(m) => (Stopping(p)' <=> Stopping(p))
  <2>1. \A n \in Masters : Deleting(c, n) => n = m
    BY <1>2, TaskShape DEF PortInv
  <2> QED
    BY <1>2, <2>1 DEF Stopping, Ports
<1>7. p \in Ports(m) => Stopping(p)
  BY <1>2 DEF Stopping
<1>8. Stopping(p)' => Stopping(p)
  BY <1>2 DEF Stopping, Ports
<1>9. /\ Returning(p) => Returning(p)'
      /\ world.operations = {"create"} /\ p \in Ports(m) => Returning(p)'
  <2>1. Returning(p) => Returning(p)'
    BY <1>2 DEF Returning, Ports
  <2>2. world.operations = {"create"} => task[c].op = "replace"
    BY <1>2 DEF CreateOnly
  <2> QED
    BY <1>2, <2>1, <2>2 DEF Returning, Ports
<1>10. Needed(w, p) /\ Allowed(w, p)
  BY DEF Served
<1>11. Needed(w, p)'
  BY <1>4, <1>5, <1>6, <1>10 DEF Needed
<1>12. Allowed(w, p)'
  BY <1>1, <1>4, <1>5, <1>7, <1>8, <1>9, <1>10 DEF Allowed
<1> QED
  BY <1>11, <1>12

\* A port is constructed, and every worker is told.
LEMMA ServedStart ==
    ASSUME ClusterInv, NEW c \in Clients, NEW m \in Masters, Checked(c, m),
           m \notin proxy_ports,
           proxy_ports' = proxy_ports \union Ports(m),
           down' = Send(Msgs("CREATE", Ports(m))),
           task' = [task EXCEPT ![c] = [pc |-> "creating", port |-> m]],
           UNCHANGED <<wstate, servers, world>>
    PROVE  CreateOnly' /\ Served'
<1> USE DEF ClusterInv
<1>1. /\ \A d \in Clients : d # c => task'[d] = task[d]
      /\ \A d \in Clients, n \in Masters :
                /\ Deleting(d, n)' <=> Deleting(d, n)
                /\ Checked(d, n)' <=> Checked(d, n) /\ d # c
  BY StartMoves DEF PortInv
<1>2. \A n \in Masters : ~Deleting(c, n) /\ (Checked(c, n) => n = m)
  BY TaskShape DEF PortInv
<1>3. CreateOnly'
  BY <1>1, <1>2 DEF CreateOnly
<1> SUFFICES ASSUME Orderly, NEW w \in Workers, NEW p \in AllPorts, wstate[w] = "up"
             PROVE  Needed(w, p)' /\ Allowed(w, p)'
  BY <1>3, OrderlyStays DEF Served
<1>4. Open(w, p)' <=> p \in Ports(m) \/ Open(w, p)
  BY PortsShape, SendOpens DEF PortInv
<1>5. Stopping(p)' <=> Stopping(p)
  BY <1>1 DEF Stopping, Ports
<1>6. p \in Ports(m) => ~Stopping(p)
  <2>1. \A d \in Clients : ~Deleting(d, m)
    BY DEF PortInv, Doomed
  <2> QED
    BY <2>1, PortsApart DEF Stopping
<1>7. Returning(p) => Returning(p)' \/ p \in Ports(m)
  BY <1>1, <1>2 DEF Returning, Ports
<1>8. Needed(w, p) /\ Allowed(w, p)
  BY DEF Served
<1>9. Needed(w, p)'
  BY <1>4, <1>5, <1>8 DEF Needed
<1>10. Allowed(w, p)'
  BY <1>4, <1>5, <1>6, <1>7, <1>8 DEF Allowed
<1> QED
  BY <1>9, <1>10

\* The port is on its way out already: the request ends.
LEMMA ServedDrop ==
    ASSUME ClusterInv, NEW c \in Clients, NEW m \in Masters, Checked(c, m),
           m \in deleting,
           task' = [task EXCEPT ![c] = Idle],
           UNCHANGED <<proxy_ports, down, wstate, servers, world>>
    PROVE  CreateOnly' /\ Served'
<1> USE DEF ClusterInv
<1>1. /\ \A d \in Clients : d # c => task'[d] = task[d]
      /\ \A d \in Clients, n \in Masters :
                /\ Deleting(d, n)' <=> Deleting(d, n)
                /\ Checked(d, n)' <=> Checked(d, n) /\ d # c
  BY InitMoves DEF PortInv
<1>2. \A n \in Masters : ~Deleting(c, n) /\ (Checked(c, n) => n = m)
  BY TaskShape DEF PortInv
<1>3. CreateOnly'
  BY <1>1, <1>2 DEF CreateOnly
<1> SUFFICES ASSUME Orderly, NEW w \in Workers, NEW p \in AllPorts, wstate[w] = "up"
             PROVE  Needed(w, p)' /\ Allowed(w, p)'
  BY <1>3, OrderlyStays DEF Served
<1>4. Open(w, p)' <=> Open(w, p)
  BY DEF Open
<1>5. Stopping(p)' <=> Stopping(p)
  BY <1>1 DEF Stopping, Ports
<1>6. p \in Ports(m) => p \in proxy_ports
  <2>1. m \in proxy_ports /\ Sound(m)
    BY DEF PortInv, Doomed, Orderly
  <2> QED
    BY <2>1 DEF PortInv, Whole, Together, Ports
<1>7. Returning(p) => Returning(p)' \/ p \in Ports(m)
  BY <1>1, <1>2 DEF Returning, Ports
<1>8. Needed(w, p) /\ Allowed(w, p)
  BY DEF Served
<1> QED
  BY <1>4, <1>5, <1>6, <1>7, <1>8 DEF Needed, Allowed

\* Every request keeps it.
LEMMA RequestServed ==
    ASSUME ClusterInv, NEW c \in Clients, NEW m \in Masters,
           \/ proxy_create(c, m) \/ proxy_created(c, m)
           \/ proxy_delete(c, m) \/ proxy_deleted(c, m) \/ init_proxy(c, m)
    PROVE  CreateOnly' /\ Served'
<1>1. CASE proxy_create(c, m) \/ proxy_created(c, m)
  BY <1>1, ServedQuietly
<1>2. CASE proxy_deleted(c, m)
  BY <1>2, ServedDeleted
<1>3. CASE proxy_delete(c, m)
  <2>1. PICK op \in {"delete", "replace"} : Request(op, c, m) /\ Stop(c, m, op)
    BY <1>3 DEF proxy_delete
  <2>2. /\ m \in world.ports /\ task[c] = Idle /\ (world.patient => Nobody)
        /\ world.operations = {"create"} => op = "replace"
        /\ UNCHANGED <<wstate, servers, world>>
    BY <2>1 DEF Request
  <2> QED
    BY <2>1, <2>2, ServedStop
<1>4. CASE init_proxy(c, m)
  <2>1. Checked(c, m) /\ UNCHANGED <<wstate, servers, world>>
    BY <1>4 DEF init_proxy, bounds
  <2>2. m \in world.ports
    BY <2>1, TaskShape DEF ClusterInv, PortInv
  <2>3. CASE Stop(c, m, "replace")
    BY <2>1, <2>2, <2>3, ServedStop
  <2>4. CASE /\ m \notin proxy_ports
             /\ proxy_ports' = proxy_ports \union Ports(m)
             /\ down' = Send(Msgs("CREATE", Ports(m)))
             /\ task' = [task EXCEPT ![c] = [pc |-> "creating", port |-> m]]
    BY <2>1, <2>4, ServedStart
  <2>5. CASE /\ m \in deleting
             /\ task' = [task EXCEPT ![c] = Idle]
             /\ UNCHANGED <<portvars, down>>
    BY <2>1, <2>5, ServedDrop DEF portvars
  <2> QED
    BY <1>4, <2>3, <2>4, <2>5 DEF init_proxy
<1> QED
  BY <1>1, <1>2, <1>3, <1>4

\* Steps after which the same is to be said of every worker that is up.
LEMMA ServedStays ==
    ASSUME ClusterInv, UNCHANGED <<proxy_ports, task, world>>,
           \A w \in Workers, p \in AllPorts :
              Orderly /\ wstate'[w] = "up" => Needed(w, p)' /\ Allowed(w, p)'
    PROVE  CreateOnly' /\ Served'
<1>1. \A d \in Clients, n \in Masters : Deleting(d, n)' <=> Deleting(d, n)
  BY TasksStay
<1>2. CreateOnly'
  BY <1>1 DEF ClusterInv, CreateOnly
<1> QED
  BY <1>2, OrderlyStays DEF Served

\* What is said of one worker stays true of it as long as its channel, its
\* servers, the ports of the master and the requests do.
LEMMA SameWorker ==
    ASSUME ClusterInv, Orderly, UNCHANGED <<proxy_ports, task, world>>,
           NEW w \in Workers, NEW p \in AllPorts, wstate[w] = "up",
           Open(w, p)' <=> Open(w, p)
    PROVE  Needed(w, p)' /\ Allowed(w, p)'
<1>1. (Stopping(p)' <=> Stopping(p)) /\ (Returning(p)' <=> Returning(p))
  BY TasksStay DEF Stopping, Returning, Ports
<1>2. Needed(w, p) /\ Allowed(w, p)
  BY DEF ClusterInv, Served
<1> QED
  BY <1>1, <1>2 DEF Needed, Allowed

\* A worker handles an order: it was counted on already.
LEMMA ServedHandles ==
    ASSUME ClusterInv, NEW v \in Workers, WorkerHandles(v)
    PROVE  CreateOnly' /\ Served'
<1>1. UNCHANGED <<proxy_ports, task, world, wstate>> /\ down[v] # <<>>
  BY DEF WorkerHandles, portvars, bounds
<1>2. /\ down \in [Workers -> Seq(Orders)] /\ servers \in [Workers -> SUBSET AllPorts]
  BY DEF ClusterInv, PortInv, TypeOK
<1>3. down' = [down EXCEPT ![v] = Tail(@)]
  BY DEF WorkerHandles
<1> DEFINE h == Head(down[v])
<1>4. h \in Orders /\ h.code \in {"CREATE", "STOP"}
  BY <1>1, <1>2, TailShape, OrderShape
<1>5. /\ \A w \in Workers : w # v => servers'[w] = servers[w]
      /\ servers'[v] = IF h.code = "CREATE" THEN servers[v] \union {h.port} ELSE servers[v] \ {h.port}
  <2>1. \/ h.code = "CREATE" /\ Opens(v, h.port)
        \/ h.code = "STOP" /\ Closes(v, h.port)
        \/ h.code = "STOP" /\ h.port \notin servers[v] /\ servers' = servers
    BY DEF WorkerHandles
  <2> HIDE DEF h
  <2>2. CASE h.code = "CREATE" /\ Opens(v, h.port)
    BY <1>2, <2>2 DEF Opens
  <2>3. CASE h.code = "STOP" /\ Closes(v, h.port)
    BY <1>2, <2>3 DEF Closes
  <2>4. CASE h.code = "STOP" /\ h.port \notin servers[v] /\ servers' = servers
    BY <2>4
  <2> QED
    BY <2>1, <2>2, <2>3, <2>4
<1>6. ASSUME NEW w \in Workers, NEW p \in AllPorts PROVE Open(w, p)' <=> Open(w, p)
  <2>1. CASE w = v
    <3>1. down[v] \in Seq(Orders) /\ down'[v] = Tail(down[v])
      BY <1>2, <1>3
    <3>2. EndsOpen(down[v], servers[v], p) <=> EndsOpen(Tail(down[v]), servers'[v], p)
      BY <1>1, <1>5, <3>1, EndsTail
    <3> QED
      BY <2>1, <3>1, <3>2 DEF Open
  <2>2. CASE w # v
    <3>1. down'[w] = down[w] /\ servers'[w] = servers[w]
      BY <1>2, <1>3, <1>5, <2>2
    <3> QED
      BY <3>1 DEF Open
  <2> QED
    BY <2>1, <2>2
<1> QED
  BY <1>1, <1>6, ServedStays, SameWorker

\* A new worker is sent all ports, and has none yet.
LEMMA FreshWorker ==
    ASSUME ClusterInv, Orderly, UNCHANGED <<proxy_ports, task, world, servers>>,
           NEW w \in Workers, NEW p \in AllPorts, wstate[w] # "up",
           down'[w] = Msgs("CREATE", proxy_ports),
           world.operations = {"create"} \/ ~Stopping(p)
    PROVE  Needed(w, p)' /\ Allowed(w, p)'
<1>1. servers[w] = {} /\ proxy_ports \in SUBSET AllPorts
  BY DEF ClusterInv, ProcInv, Sockets, PortInv, TypeOK
<1>2. EndsOpen(Msgs("CREATE", proxy_ports), servers[w], p) <=> p \in proxy_ports
  BY <1>1, EndsFresh
<1>3. Open(w, p)' <=> p \in proxy_ports
  BY <1>2 DEF Open
<1>4. Stopping(p)' <=> Stopping(p)
  BY TasksStay DEF Stopping, Ports
<1> QED
  BY <1>3, <1>4 DEF Needed, Allowed

\* A worker that died is replaced; where clients delete there are no crashes.
LEMMA ServedExit ==
    ASSUME ClusterInv, NEW v \in Workers, WorkerExit(v)
    PROVE  CreateOnly' /\ Served'
<1>1. /\ UNCHANGED <<proxy_ports, task, world, servers>> /\ wstate[v] = "dead"
      /\ down'[v] = Msgs("CREATE", proxy_ports)
      /\ \A w \in Workers : w # v => down'[w] = down[w] /\ wstate'[w] = wstate[w]
  BY DEF WorkerExit, Recreated, portvars, bounds, ClusterInv, PortInv, TypeOK
<1>2. Orderly => world.operations = {"create"}
  BY <1>1 DEF Orderly, ClusterInv, ProcInv, NoCrash
<1>3. ASSUME NEW w \in Workers, NEW p \in AllPorts, Orderly, wstate'[w] = "up"
      PROVE  Needed(w, p)' /\ Allowed(w, p)'
  <2>1. CASE w = v
    BY <1>1, <1>2, <1>3, <2>1, FreshWorker
  <2>2. CASE w # v
    <3>1. Open(w, p)' <=> Open(w, p)
      BY <1>1, <2>2 DEF Open
    <3> QED
      BY <1>1, <1>3, <2>2, <3>1, SameWorker
  <2> QED
    BY <2>1, <2>2
<1> QED
  BY <1>1, <1>3, ServedStays

\* All workers are forked again after a configuration from the cloud.
LEMMA ServedFork ==
    ASSUME ClusterInv, run_workers
    PROVE  CreateOnly' /\ Served'
<1>1. /\ UNCHANGED <<proxy_ports, task, world, servers>> /\ apply = "started"
      /\ \A w \in Workers : down'[w] = Msgs("CREATE", proxy_ports)
  BY DEF run_workers, portvars, bounds
<1>2. \A w \in Workers : wstate[w] # "up"
  BY <1>1 DEF ClusterInv, ProcInv, Killed
<1>3. ASSUME Orderly, NEW p \in AllPorts PROVE ~Stopping(p)
  <2>1. world.patient
    BY <1>1, <1>3 DEF Orderly, ClusterInv, ProcInv, NoSync
  <2>2. \A c \in Clients : task[c] = Idle
    BY <1>1, <2>1 DEF ClusterInv, PortInv, Alone
  <2> QED
    BY <2>2 DEF Stopping, Deleting, Idle
<1> QED
  BY <1>1, <1>2, <1>3, FreshWorker, ServedStays

\* While no worker is up there is nothing to say.
LEMMA ServedNobody ==
    ASSUME ClusterInv, world' = world, \A w \in Workers : wstate'[w] # "up",
           \A d \in Clients, n \in Masters : Deleting(d, n)' => Deleting(d, n) /\ task'[d] = task[d]
    PROVE  CreateOnly' /\ Served'
BY DEF ClusterInv, CreateOnly, Served

\* apply_cloud_config, but for run_workers.
LEMMA ServedCloud ==
    ASSUME ClusterInv,
           \/ new_conf \/ init_proxies \/ apply_ends
           \/ \E M \in SUBSET world.ports : delete_all(M) \/ delete_fails(M)
    PROVE  CreateOnly' /\ Served'
<1>1. CASE init_proxies
  <2> DEFINE started == Configured \ deleting
             G == {c \in Clients : \E m \in started : Creating(c, m)}
  <2>1. /\ \A w \in Workers : wstate'[w] # "up"
        /\ world' = world
        /\ task' = [c \in Clients |-> IF c \notin G THEN task[c]
                                      ELSE IF \E m \in started : c \in Finishing(m) THEN Idle
                                      ELSE Lost]
    BY <1>1 DEF init_proxies, workervars, ClusterInv, ProcInv, Killed
  <2>2. G \in SUBSET Clients /\ \A c \in G : \E m \in Masters : Creating(c, m)
    BY DEF Configured
  <2> HIDE DEF started, G
  <2>3. /\ task' \in [Clients -> Kinds]
        /\ \A c \in G : task'[c] = Idle \/ task'[c] = Lost
        /\ \A c \in Clients \ G : task'[c] = task[c]
    BY <2>1, <2>2 DEF ClusterInv, PortInv, Typed, Kinds
  <2>4. \A d \in Clients, n \in Masters : Deleting(d, n)' => Deleting(d, n) /\ task'[d] = task[d]
    BY <2>2, <2>3, OvertakenMoves DEF ClusterInv, PortInv
  <2> QED
    BY <2>1, <2>4, ServedNobody
<1>2. CASE \E M \in SUBSET world.ports : delete_all(M)
  <2>1. PICK F \in SUBSET UNION {Finishing(m) : m \in Masters \ Configured} :
          task' = [c \in Clients |-> IF c \in F THEN Idle ELSE task[c]]
    BY <1>2 DEF delete_all
  <2>2. /\ \A w \in Workers : wstate'[w] # "up"
        /\ world' = world
    BY <1>2 DEF delete_all, workervars, ClusterInv, ProcInv, Killed
  <2>3. F \in SUBSET Clients /\ \A c \in F : \E m \in Masters : Creating(c, m)
    BY DEF Finishing
  <2>4. /\ task' \in [Clients -> Kinds]
        /\ \A c \in F : task'[c] = Idle
        /\ \A c \in Clients \ F : task'[c] = task[c]
    BY <2>1, <2>3 DEF ClusterInv, PortInv, Typed, Kinds
  <2>5. \A d \in Clients, n \in Masters : Deleting(d, n)' => Deleting(d, n) /\ task'[d] = task[d]
    BY <2>3, <2>4, OvertakenMoves DEF ClusterInv, PortInv
  <2> QED
    BY <2>2, <2>5, ServedNobody
<1>3. CASE new_conf \/ apply_ends \/ \E M \in SUBSET world.ports : delete_fails(M)
  <2>1. UNCHANGED <<task, world>>
    BY <1>3 DEF new_conf, apply_ends, delete_fails, bounds
  <2>2. \A d \in Clients, n \in Masters : Deleting(d, n)' => Deleting(d, n) /\ task'[d] = task[d]
    BY <2>1, TasksStay
  <2>3. CASE \A w \in Workers : wstate'[w] # "up"
    BY <2>1, <2>2, <2>3, ServedNobody
  <2>4. CASE UNCHANGED <<workervars, proxy_ports>>
    <3>1. \A w \in Workers, p \in AllPorts : Open(w, p)' <=> Open(w, p)
      BY <2>4 DEF Open, workervars
    <3> QED
      BY <2>1, <2>4, <3>1, SameWorker, ServedStays DEF workervars
  <2>5. Kill => \A w \in Workers : wstate'[w] # "up"
    BY KillProcs
  <2>6. apply = "killed" => \A w \in Workers : wstate[w] # "up"
    BY DEF ClusterInv, ProcInv, Killed
  <2>7. new_conf \/ apply_ends => Kill \/ UNCHANGED <<workervars, proxy_ports>>
    BY DEF new_conf, apply_ends, Finally, portvars
  <2>8. (\E M \in SUBSET world.ports : delete_fails(M))
           => apply = "killed" /\ (Kill \/ UNCHANGED workervars)
    BY DEF delete_fails, Finally
  <2> QED
    BY <1>3, <2>3, <2>4, <2>5, <2>6, <2>7, <2>8 DEF workervars
<1> QED
  BY <1>1, <1>2, <1>3

\* Every step keeps all of it.
LEMMA StepServed == ClusterInv /\ [Next]_vars => ClusterInv'
<1> SUFFICES ASSUME ClusterInv, [Next]_vars PROVE CreateOnly' /\ Served'
  BY StepPorts, StepProcs DEF ClusterInv, PortInv
<1>1. ASSUME UNCHANGED <<proxy_ports, task, world, wstate, servers, down>>
      PROVE  CreateOnly' /\ Served'
  <2>1. \A w \in Workers, p \in AllPorts : Open(w, p)' <=> Open(w, p)
    BY <1>1 DEF Open
  <2> QED
    BY <1>1, <2>1, SameWorker, ServedStays
<1>2. CASE UNCHANGED vars
  BY <1>1, <1>2 DEF vars, portvars, workervars, bounds
<1>3. ASSUME NEW v \in Workers, MasterHandles(v) PROVE CreateOnly' /\ Served'
  BY <1>1, <1>3 DEF MasterHandles, bounds
<1>4. ASSUME NEW v \in Workers, NEW p \in AllPorts, Listening(v, p) PROVE CreateOnly' /\ Served'
  BY <1>1, <1>4 DEF Listening, portvars, bounds
<1>5. ASSUME NEW v \in Workers, Crash(v) PROVE CreateOnly' /\ Served'
  <2>1. /\ UNCHANGED <<proxy_ports, task, world>> /\ wstate'[v] = "dead"
        /\ \A w \in Workers : w # v => wstate'[w] = wstate[w]
    BY <1>5 DEF Crash, portvars, ClusterInv, PortInv, TypeOK
  <2>2. \A w \in Workers : w # v => down'[w] = down[w] /\ servers'[w] = servers[w]
    BY <1>5, GoneProcs, {v} \in SUBSET Workers DEF Crash
  <2>3. \A w \in Workers, p \in AllPorts : w # v => (Open(w, p)' <=> Open(w, p))
    BY <2>2 DEF Open
  <2> QED
    BY <2>1, <2>3, SameWorker, ServedStays
<1> QED
  BY <1>2, <1>3, <1>4, <1>5, RequestServed, ServedHandles, ServedExit, ServedFork, ServedCloud
     DEF Next, Cloud

\* When nothing is under way the workers have what they will have.
LEMMA ServedAtRest == ClusterInv => WorkersServePorts
<1> SUFFICES ASSUME ClusterInv, Orderly, Quiet, NEW w \in Workers PROVE bound[w] = proxy_ports
  BY DEF WorkersServePorts
<1>1. /\ wstate[w] = "up" /\ down[w] = <<>> /\ binding[w] = {}
      /\ \A c \in Clients : task[c] = Idle
  BY DEF Quiet, Nobody
<1>2. /\ servers[w] = bound[w] /\ proxy_ports \subseteq AllPorts /\ bound[w] \subseteq AllPorts
  BY <1>1 DEF ClusterInv, ProcInv, Sockets, PortInv, TypeOK
<1>3. \A p \in AllPorts : ~Stopping(p) /\ ~Returning(p)
  BY <1>1, TaskShape DEF Stopping, Returning, ClusterInv, PortInv
<1>4. \A p \in AllPorts : Open(w, p) <=> p \in bound[w]
  BY <1>1, <1>2, EndsEmpty DEF Open
<1>5. \A p \in AllPorts : Needed(w, p) /\ Allowed(w, p)
  BY <1>1 DEF ClusterInv, Served
<1>6. \A p \in AllPorts : p \in bound[w] <=> p \in proxy_ports
  BY <1>3, <1>4, <1>5 DEF Needed, Allowed
<1> QED
  BY <1>2, <1>6

\* Orderly worlds: when no request, message or socket is under way, every worker
\* listens on exactly the ports of the master, whatever was created, deleted,
\* replaced, killed or forked before.
THEOREM WorkersServe == Spec => []WorkersServePorts
<1>1. Spec => []ClusterInv
  BY InitServed, StepServed, PTL DEF Spec
<1> QED
  BY <1>1, ServedAtRest, PTL
=============================================================================
