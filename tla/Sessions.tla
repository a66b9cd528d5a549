------------------------------- MODULE Sessions -------------------------------
(***************************************************************************)
(* The sessions of one proxy port over the workers of a cluster: Sess_mgr  *)
(* (lib/session.js) in every worker, the pool of IPs and the session       *)
(* number that the master keeps (lib/proxy_port.js,                        *)
(* lib/mixins/mgr_proxy.js, lib/manager.js), and the retries of a request  *)
(* (lib/rules.js, lib/mixins/server_handle.js).                            *)
(*                                                                         *)
(* Messages between two processes keep their order.  A session knows the   *)
(* requests that use it, so that a session which was replaced is one that  *)
(* nobody finds any more.  "world" says how the port is configured:        *)
(*   mode    "long" (session: true), "explicit" (session: a name),         *)
(*           "sticky" (sticky_ip) or "rotate" (rotate_session)             *)
(*   pool    pool_size, and ips, the IPs the port starts with              *)
(*   rule    what its rule does with an answer: "reserve" the session,     *)
(*           "ban" the IP, "renew" (refresh_ip), and how it retries:       *)
(*           "new", "same" (retry_same), "port" (retry_port) or "no"       *)
(*   zone    the IPs that are allocated to the zone                        *)
(* and what happens besides: "own" (requests that bring their session in a *)
(* header), "api" (refresh_sessions of the API), "crash".                  *)
(***************************************************************************)
EXTENDS Naturals, Sequences, FiniteSets, SequencesExt, Lists

CONSTANTS None, Ips, Srcs, Requests,
          NumWorkers, MaxWorkers,                       \* at first; ever forked
          MaxRetry, MaxPortRetry, MaxBanRetries,        \* caps of the retries
          MaxApi,                                       \* calls of the API
          Worlds

World == [mode: {"long", "explicit", "sticky", "rotate"}, pool: Nat, ips: Seq(Ips),
          zone: SUBSET Ips,
          rule: [does: SUBSET {"reserve", "ban", "renew"},
                 retry: {"new", "same", "port", "no"}],
          besides: SUBSET {"own", "api", "crash"}]

ASSUME WorldsAssumption == Worlds \subseteq World
ASSUME NumbersAssumption ==
  /\ NumWorkers \in Nat \ {0} /\ MaxWorkers \in Nat /\ NumWorkers <= MaxWorkers
  /\ MaxRetry \in Nat /\ MaxPortRetry \in Nat /\ MaxBanRetries \in Nat
  /\ MaxApi \in Nat

VARIABLES world, api,
          stale,                            \* sessions at calls of the API (properties)
          session_id, conf, opt, banned,    \* master: Proxy_port and its conf
          renewing, zone,                   \* refresh_ip under way; the cloud
          status, listening,                \* worker processes; known to listen
          toW, toM,                         \* channels to and from every worker
          serv,                             \* Server and Sess_mgr of a worker
          req                               \* requests of clients

calls == <<api, stale>>
master == <<session_id, conf, opt, banned>>
cloud == <<renewing, zone>>
procs == <<status, listening>>
vars == <<world, calls, master, cloud, procs, toW, toM, serv, req>>

Workers == 1..MaxWorkers
Main == "main"                              \* Sess_mgr.session
Slots == Srcs \cup {Main}                   \* Sess_mgr.sticky_sessions
Live == {w \in Workers : status[w] \in {"boot", "up"}}

Session == [ord: Nat, ip: Ips \cup {None}, used: BOOLEAN, canceled: BOOLEAN,
            last: Ips \cup {None}, users: SUBSET Requests]
Server == [sid: Nat, base: Nat, ips: Seq(Ips), temp: SUBSET Ips,
           banned: SUBSET Ips, sess: [Slots -> Session \cup {None}]]

ASSUME NoneAssumption == None \notin Ips \cup Session \cup Server

ToMaster == [code: {"ADD", "REMOVE", "BANIP", "RENEW"}, ip: Ips]
            \cup [code: {"REFRESH", "LISTENING"}]
ToWorker == [code: {"CREATE"}, sid: Nat, ips: Seq(Ips), banned: SUBSET Ips]
            \cup [code: {"UPDATE"}, ips: Seq(Ips), banned: SUBSET Ips]
            \cup [code: {"REFRESH"}, sid: Nat] \cup [code: {"BANIP"}, ip: Ips]

TypeOK ==
  /\ world \in Worlds /\ api \in 0..MaxApi /\ stale \subseteq [slot: Slots, ord: Nat]
  /\ session_id \in Nat /\ conf \in Seq(Ips) /\ opt \in Seq(Ips) /\ banned \subseteq Ips
  /\ renewing \subseteq [old: Ips, new: Ips, applied: BOOLEAN]
  /\ zone \subseteq Ips /\ listening \subseteq Workers
  /\ status \in [Workers -> {"unborn", "boot", "up", "dying", "dead"}]
  /\ toW \in [Workers -> Seq(ToWorker)] /\ toM \in [Workers -> Seq(ToMaster)]
  /\ serv \in [Workers -> Server \cup {None}]
  /\ req \in [Requests -> [stage: {"new", "sent", "away", "done", "lost"},
                           at: 0..MaxWorkers, slot: Slots, own: BOOLEAN,
                           ip: Ips \cup {None},
                           retry: 0..(MaxRetry + MaxPortRetry + MaxBanRetries)]]

NoSessions == [s \in Slots |-> None]
Sess_mgr(sid, ips, bans) ==
  [sid |-> sid, base |-> sid, ips |-> ips, temp |-> {}, banned |-> bans,
   sess |-> NoSessions]

Init ==
  /\ world \in Worlds /\ api = 0 /\ stale = {}
  /\ session_id = 0 /\ conf = world.ips /\ opt = world.ips /\ banned = {}
  /\ renewing = {} /\ zone = world.zone
  /\ status = [w \in Workers |-> IF w <= NumWorkers THEN "up" ELSE "unborn"]
  /\ listening = 1..NumWorkers
  /\ toW = [w \in Workers |-> <<>>] /\ toM = toW
  /\ serv = [w \in Workers |->
               IF w <= NumWorkers THEN Sess_mgr(0, world.ips, {}) ELSE None]
  /\ req = [r \in Requests |-> [stage |-> "new", at |-> 0, slot |-> Main,
                                own |-> FALSE, ip |-> None, retry |-> 0]]

-----------------------------------------------------------------------------
(* Sess_mgr: operations on the state k of worker w *)

pool_size == IF world.mode = "explicit" THEN 1 ELSE world.pool

MutOrd(k, w) == k.sid                               \* all workers count alike

ord_id(k, w) ==
  IF world.mode = "rotate" THEN k.sid * NumWorkers + w - 1 ELSE k.sid

is_using_pool(k) == pool_size = Len(k.ips) /\ k.ips # <<>>

establish_session(k, w, s) ==
  [k EXCEPT !.sid = @ + 1,
            !.sess[s] = [ord |-> ord_id(k, w), used |-> FALSE, canceled |-> FALSE,
                         ip |-> IF is_using_pool(k)
                                THEN k.ips[(ord_id(k, w) % Len(k.ips)) + 1]
                                ELSE None,
                         last |-> None, users |-> {}]]

MutExpired(session) == session.canceled \/ session.used    \* in every mode

is_session_expired(session) ==
  session.canceled \/ (world.mode = "rotate" /\ session.used)

retrieve_session(k, w, s) ==
  IF \/ k.sess[s] = None
     \/ is_session_expired(k.sess[s])
     \/ k.sess[s].last \in k.banned                 \* is_session_banned
  THEN establish_session(k, w, s) ELSE k

request_session(k, w, r, s, own) ==
  IF own THEN [k EXCEPT !.sess[Main] = None]
  ELSE LET found == retrieve_session(k, w, s)
       IN  [found EXCEPT !.sess[s].used = TRUE,
                         !.sess[s].users = @ \cup {r}]

refresh_sessions(k, w, id) ==
  LET set == IF id = 0 THEN k ELSE [k EXCEPT !.sid = id]
  IN  IF world.mode = "sticky" THEN [set EXCEPT !.sess = NoSessions]
      ELSE IF world.mode # "explicit" /\ set.sess[Main] # None
           THEN establish_session(set, w, Main)
           ELSE set

MayReserve(k, ip) ==
  /\ pool_size > 0
  /\ Len(k.ips) < pool_size /\ ip \notin Range(k.ips)
  /\ Cardinality(k.temp) < pool_size /\ ip \notin k.temp

Using(k, r) == {s \in Slots : k.sess[s] # None /\ r \in k.sess[s].users}

Left(session, r) == [session EXCEPT !.users = @ \ {r}]

(* What request r does to the session it uses, if nobody replaced that. *)
Leave(k, r) ==
  [k EXCEPT !.sess = [s \in Slots |-> IF s \notin Using(k, r) THEN @[s]
                                      ELSE Left(@[s], r)]]

LastRes(k, r, ip) ==
  [k EXCEPT !.sess = [s \in Slots |-> IF s \notin Using(k, r) THEN @[s]
                        ELSE [@[s] EXCEPT !.last = ip]]]

Cancel(k, r) ==
  [k EXCEPT !.sess = [s \in Slots |-> IF s \notin Using(k, r) THEN @[s]
                        ELSE [@[s] EXCEPT !.canceled = TRUE]]]

-----------------------------------------------------------------------------
(* Requests *)

(* request_start: r takes a session of worker w with state k. *)
Begin(k, w, r, q) ==
  /\ serv' = [serv EXCEPT ![w] = request_session(Leave(k, r), w, r, q.slot, q.own)]
  /\ req' = [req EXCEPT ![r] =
       [q EXCEPT !.stage = "sent",
                 !.ip = IF q.own THEN None ELSE serv'[w].sess[q.slot].ip]]

Arrive(r, w) ==
  \E src \in Srcs, own \in BOOLEAN :
    /\ req[r].stage = "new" /\ status[w] = "up"
    /\ own => "own" \in world.besides
    /\ Begin(serv[w], w, r,
             [req[r] EXCEPT !.at = w, !.own = own,
                            !.slot = IF world.mode = "sticky" THEN src ELSE Main])
    /\ UNCHANGED <<world, calls, master, cloud, procs, toW, toM>>

Finish(k, w, r) ==
  /\ serv' = [serv EXCEPT ![w] = Leave(k, r)]
  /\ req' = [req EXCEPT ![r].stage = "done", ![r].ip = None]

Send(w, msgs) == toM' = [toM EXCEPT ![w] = @ \o msgs]

MutCount(q) == IF q.stage = "sent" THEN 1 ELSE q.retry      \* each port counts

Count(q) == q.retry + 1

RetryCap == IF world.rule.retry = "port" THEN MaxPortRetry ELSE MaxRetry

MutCanRetry(q) == world.rule.retry # "no"                   \* no cap

can_retry(q) == world.rule.retry # "no" /\ q.retry < RetryCap

(* Rules.post and its action, on an answer from ip or, with None, on the   *)
(* 502 that lpm_request makes of an error.                                 *)
If(condition, msg) == IF condition THEN <<msg>> ELSE <<>>

RuleAnswer(r, ip) ==
  LET w == req[r].at
      q == [req[r] EXCEPT !.retry = Count(req[r])]
      k == LastRes(serv[w], r, ip)
      own_ip == IF req[r].ip # None THEN req[r].ip ELSE ip
      reserve == "reserve" \in world.rule.does /\ own_ip # None /\ MayReserve(k, own_ip)
      ban == "ban" \in world.rule.does /\ ip # None
      drop == ban /\ req[r].ip \in Range(k.ips)
      renew == "renew" \in world.rule.does /\ ip # None /\ can_retry(req[r])
      new == world.rule.retry = "new" /\ can_retry(req[r])
      k1 == IF reserve THEN [k EXCEPT !.temp = @ \cup {own_ip}] ELSE k
      k2 == IF ban THEN [Cancel(k1, r) EXCEPT !.banned = @ \cup {ip}] ELSE k1
      k3 == IF new THEN refresh_sessions(k2, w, 0) ELSE k2
  IN  /\ Send(w, If(reserve, [code |-> "ADD", ip |-> own_ip])
                 \o If(ban, [code |-> "BANIP", ip |-> ip])
                 \o If(drop, [code |-> "REMOVE", ip |-> req[r].ip])
                 \o If(renew, [code |-> "RENEW", ip |-> ip])
                 \o If(new, [code |-> "REFRESH"]))
      /\ CASE ~can_retry(req[r]) -> Finish(k3, w, r)
           [] new -> Begin(k3, w, r, q)
           [] can_retry(req[r]) /\ world.rule.retry = "same" ->
                /\ serv' = [serv EXCEPT ![w] = k3]
                /\ req' = [req EXCEPT ![r] = q]
           [] can_retry(req[r]) /\ world.rule.retry = "port" ->
                /\ serv' = [serv EXCEPT ![w] = Leave(k3, r)]
                /\ req' = [req EXCEPT ![r] = [q EXCEPT !.stage = "away",
                                                       !.ip = None]]

(* The catch of lpm_request: the rules may still retry. *)
ErrorAnswer(r) ==
  \/ Finish(serv[req[r].at], req[r].at, r) /\ UNCHANGED toM
  \/ RuleAnswer(r, None)

(* Rules.retry with a refresh: two refreshes when an IP was banned; then   *)
(* "Too many banned IPs".                                                  *)
BannedAnswer(r) ==
  LET w == req[r].at
      k == serv[w]
  IN  IF req[r].retry < MaxBanRetries
      THEN /\ Begin(refresh_sessions(refresh_sessions(k, w, 0), w, 0), w, r,
                    [req[r] EXCEPT !.retry = Count(req[r])])
           /\ Send(w, <<[code |-> "REFRESH"], [code |-> "REFRESH"]>>)
      ELSE ErrorAnswer(r)

PlainAnswer(r, ip) ==
  LET w == req[r].at
  IN  /\ Finish(LastRes(serv[w], r, ip), w, r)
      /\ UNCHANGED toM

(* The super proxy answers from an IP: that of the session, or any; or the *)
(* request fails.                                                          *)
Answer(r) ==
  /\ req[r].stage = "sent"
  /\ \/ \E ip \in IF req[r].ip # None THEN {req[r].ip} ELSE zone :
          \/ ip \in serv[req[r].at].banned /\ BannedAnswer(r)
          \/ /\ ip \notin serv[req[r].at].banned
             /\ PlainAnswer(r, ip) \/ RuleAnswer(r, ip)
     \/ ErrorAnswer(r)
  /\ UNCHANGED <<world, calls, master, cloud, procs, toW>>

(* The other port ends the request, or its rule retries on this one; or    *)
(* the rule of this port, which sees the answer too (post in Rules.retry), *)
(* retries there again; or the other port has no server and nobody answers.*)
Elsewhere(r) ==
  LET w == req[r].at
  IN  /\ req[r].stage = "away"
      /\ \/ Finish(serv[w], w, r) /\ UNCHANGED toM
         \/ /\ can_retry(req[r])
            /\ Begin(serv[w], w, r, [req[r] EXCEPT !.retry = Count(req[r])])
            /\ UNCHANGED toM
         \/ \E ip \in zone \cup {None} : RuleAnswer(r, ip)
         \/ req' = [req EXCEPT ![r].stage = "lost"] /\ UNCHANGED <<serv, toM>>
      /\ UNCHANGED <<world, calls, master, cloud, procs, toW>>

-----------------------------------------------------------------------------
(* The master *)

Broadcast(to, msg) ==
  toW' = [w \in Workers |-> IF w \in to THEN Append(toW[w], msg) ELSE toW[w]]

ProxyRefresh ==
  /\ session_id' = session_id + 1
  /\ Broadcast(listening \cap Live, [code |-> "REFRESH", sid |-> session_id'])

(* Proxy_port.update_config *)
Update(ips) ==
  /\ conf' = ips /\ opt' = ips
  /\ Broadcast(Live, [code |-> "UPDATE", ips |-> ips, banned |-> banned])

MutAdd(ip) == ip \notin Range(conf) /\ world.pool > 0       \* no limit

MayAdd(ip) ==
  /\ ip \notin Range(conf)
  /\ world.pool > 0 /\ Len(conf) < world.pool

AddStaticIp(ip) ==
  IF MayAdd(ip) THEN Update(Append(conf, ip)) ELSE UNCHANGED <<conf, opt, toW>>

MutRemove(ip) ==                            \* the workers are not told
  /\ conf' = SeqMinus(conf, {ip}) /\ opt' = conf'
  /\ UNCHANGED toW

RemoveStaticIp(ip) ==
  IF ip \in Range(conf) THEN Update(SeqMinus(conf, {ip}))
  ELSE UNCHANGED <<conf, opt, toW>>

HandleBanip(ip) ==
  IF ip \in banned THEN UNCHANGED <<banned, toW>>
  ELSE /\ banned' = banned \cup {ip}
       /\ Broadcast(Live, [code |-> "BANIP", ip |-> ip])

(* Manager.refresh_ip asks the cloud, which may refuse. *)
StartRenew(ip) ==
  \/ UNCHANGED cloud
  \/ \E new \in Ips \ zone :
       /\ ip \in zone
       /\ zone' = (zone \ {ip}) \cup {new}
       /\ renewing' = renewing \cup {[old |-> ip, new |-> new, applied |-> FALSE]}

MasterReceives(w) ==
  /\ status[w] \in {"boot", "up", "dying"} /\ toM[w] # <<>>
  /\ toM' = [toM EXCEPT ![w] = Tail(@)]
  /\ LET m == Head(toM[w])
     IN  \/ /\ m.code = "ADD" /\ AddStaticIp(m.ip)
            /\ UNCHANGED <<session_id, banned, cloud, listening>>
         \/ /\ m.code = "REMOVE" /\ RemoveStaticIp(m.ip)
            /\ UNCHANGED <<session_id, banned, cloud, listening>>
         \/ /\ m.code = "BANIP" /\ HandleBanip(m.ip)
            /\ UNCHANGED <<session_id, conf, opt, cloud, listening>>
         \/ /\ m.code = "REFRESH" /\ ProxyRefresh
            /\ UNCHANGED <<conf, opt, banned, cloud, listening>>
         \/ /\ m.code = "RENEW" /\ StartRenew(m.ip)
            /\ UNCHANGED <<master, toW, listening>>
         \/ /\ m.code = "LISTENING" /\ listening' = listening \cup {w}
            /\ UNCHANGED <<master, toW, cloud>>
  /\ UNCHANGED <<world, calls, status, serv, req>>

Replace(ips, old, new) ==
  LET i == CHOOSE i \in DOMAIN ips : ips[i] = old /\ \A j \in 1..(i - 1) : ips[j] # old
  IN  [ips EXCEPT ![i] = new]

(* The answer of the cloud; then, after config.save, the refresh. *)
RenewApplied(p) ==
  /\ ~p.applied
  /\ IF p.old \in Range(opt) THEN Update(Replace(opt, p.old, p.new))
     ELSE UNCHANGED <<conf, opt, toW>>
  /\ renewing' = (renewing \ {p}) \cup {[p EXCEPT !.applied = TRUE]}
  /\ UNCHANGED <<session_id, banned>>

RenewDone(p) ==
  /\ p.applied
  /\ ProxyRefresh
  /\ renewing' = renewing \ {p}
  /\ UNCHANGED <<conf, opt, banned>>

Renew ==
  \E p \in renewing :
    /\ RenewApplied(p) \/ RenewDone(p)
    /\ UNCHANGED <<world, calls, zone, procs, toM, serv, req>>

InUse(w) ==
  IF serv[w] = None THEN {}
  ELSE {[slot |-> s, ord |-> serv[w].sess[s].ord] :
          s \in {t \in Slots : serv[w].sess[t] # None}}

RefreshApi ==
  /\ "api" \in world.besides /\ api < MaxApi
  /\ api' = api + 1
  /\ stale' = stale \cup UNION {InUse(w) : w \in Workers}
  /\ ProxyRefresh
  /\ UNCHANGED <<world, conf, opt, banned, cloud, procs, toM, serv, req>>

-----------------------------------------------------------------------------
(* Messages to the workers, and workers that die *)

MutUpdate(k, m) ==                          \* the Sess_mgr is kept
  [k EXCEPT !.ips = m.ips, !.banned = m.banned, !.sess = NoSessions]

UpdateConfig(k, m) == Sess_mgr(k.base, m.ips, m.banned)

WorkerReceives(w) ==
  /\ status[w] \in {"boot", "up"} /\ toW[w] # <<>>
  /\ toW' = [toW EXCEPT ![w] = Tail(@)]
  /\ LET m == Head(toW[w])
     IN  \/ /\ m.code = "CREATE"
            /\ serv' = [serv EXCEPT ![w] = Sess_mgr(m.sid, m.ips, m.banned)]
            /\ status' = [status EXCEPT ![w] = "up"]
            /\ Send(w, <<[code |-> "LISTENING"]>>)
         \/ /\ m.code = "UPDATE"
            /\ serv' = [serv EXCEPT ![w] = UpdateConfig(@, m)]
            /\ UNCHANGED <<status, toM>>
         \/ /\ m.code = "REFRESH"
            /\ serv' = [serv EXCEPT ![w] = refresh_sessions(@, w, m.sid)]
            /\ UNCHANGED <<status, toM>>
         \/ /\ m.code = "BANIP"
            /\ serv' = [serv EXCEPT ![w].banned = @ \cup {m.ip}]
            /\ UNCHANGED <<status, toM>>
  /\ UNCHANGED <<world, calls, master, cloud, listening, req>>

Forked == {w \in Workers : status[w] # "unborn"}

WorkerDies(w) ==
  /\ "crash" \in world.besides /\ status[w] = "up"
  /\ Cardinality(Forked) < MaxWorkers
  /\ status' = [status EXCEPT ![w] = "dying"]
  /\ toW' = [toW EXCEPT ![w] = <<>>]
  /\ serv' = [serv EXCEPT ![w] = None]
  /\ req' = [r \in Requests |->
               IF req[r].at = w /\ req[r].stage \in {"sent", "away"}
               THEN [req[r] EXCEPT !.stage = "lost", !.ip = None] ELSE req[r]]
  /\ UNCHANGED <<world, calls, master, cloud, listening, toM>>

(* on_worker_exit, recreate_worker and Proxy_port.setup_worker *)
ExitSeen(w) ==
  LET new == Cardinality(Forked) + 1
  IN  /\ status[w] = "dying" /\ new \in Workers
      /\ status' = [status EXCEPT ![w] = "dead", ![new] = "boot"]
      /\ listening' = listening \ {w}
      /\ toM' = [toM EXCEPT ![w] = <<>>]
      /\ toW' = [toW EXCEPT ![new] = <<[code |-> "CREATE", sid |-> session_id,
                                        ips |-> opt, banned |-> banned]>>]
      /\ UNCHANGED <<world, calls, master, cloud, serv, req>>

Progress ==
  \/ \E r \in Requests : Answer(r) \/ Elsewhere(r)
  \/ \E w \in Workers : MasterReceives(w) \/ WorkerReceives(w) \/ ExitSeen(w)
  \/ Renew

Next ==
  \/ Progress \/ RefreshApi
  \/ \E w \in Workers : WorkerDies(w) \/ \E r \in Requests : Arrive(r, w)

(* Requests are answered or time out, messages are read, an exit is seen:  *)
(* it is enough that something of all that goes on.                        *)
Fairness == WF_vars(Progress)

Spec == Init /\ [][Next]_vars /\ Fairness

-----------------------------------------------------------------------------
(* Properties *)

Quiet == renewing = {} /\ \A w \in Workers : toW[w] = <<>> /\ toM[w] = <<>>

(* When nothing is under way, the configuration, the port and all of its   *)
(* workers have the same IPs in the pool (mgr_proxy.js:111-136).           *)
PoolAgreement ==
  Quiet => \A w \in Workers : status[w] = "up" => serv[w].ips = conf /\ opt = conf

(* Workers reserve IPs without asking each other, yet the pool never grows *)
(* beyond pool_size (or what the port started with), and holds no IP twice *)
(* (session.js:31, mgr_proxy.js:111) - unless the port renews IPs: then a  *)
(* worker may reserve the new IP before it takes the place of the old one, *)
(* and two renewals whose answers cross may both put the same IP in.       *)
PoolSound ==
  /\ Len(conf) <= world.pool \/ Len(conf) <= Len(world.ips)
  /\ "renew" \notin world.rule.does /\ IsInjective(world.ips) => IsInjective(conf)

(* While a worker remembers an IP as reserved (temp_ips), its message or a *)
(* configuration that replaces its Sess_mgr is under way: a reservation    *)
(* that the master refuses does not take a place for ever (session.js:38). *)
ReservationsAnswered ==
  \A w \in Workers :
    status[w] = "up" /\ world.pool > 0 /\ serv[w].temp # {} =>
      \/ \E i \in DOMAIN toM[w] : toM[w][i].code = "ADD"
      \/ \E i \in DOMAIN toW[w] : toW[w][i].code = "UPDATE"

(* The port has one session per worker, without a pool, and nothing but a  *)
(* refresh ends it: no request brings its own, no IP is banned.            *)
Steady ==
  /\ world.mode = "long" /\ pool_size = 0 /\ world.ips = <<>>
  /\ "ban" \notin world.rule.does /\ world.besides \cap {"own", "crash"} = {}

(* A refresh by the API switches to new sessions (swagger.json:969): once  *)
(* nothing is under way, no worker of a steady port has a session that was *)
(* in use in any of them at the call, nor a number that would give it one  *)
(* (session.js:44, 76).  The workers count for themselves and the master   *)
(* sets them back to its own number (session.js:45), so this takes that    *)
(* each of them reports what it counts (rules.js:201, proxy_port.js:162).  *)
(* Without a pool and restarts no worker is behind the master then,        *)
(* whatever else the port does; but that says nothing of what was in use:  *)
(* a worker that is ahead - sticky_ip counts for every address, a ban or a *)
(* session of a request's own ends the one in use - is set back to numbers *)
(* it has given already, and a pool or restart gives it an older one.      *)
Refreshed ==
  Quiet =>
    /\ Steady => \A x \in stale, w \in Workers : status[w] = "up" =>
         /\ serv[w].sid > x.ord
         /\ serv[w].sess[x.slot] # None => serv[w].sess[x.slot].ord > x.ord
    /\ pool_size = 0 /\ world.ips = <<>> /\ "crash" \notin world.besides =>
         \A w \in Workers : status[w] = "up" =>
           /\ serv[w].sid >= session_id
           /\ \A s \in Slots : serv[w].sess[s] # None => serv[w].sess[s].ord >= session_id

(* With rotate_session no two requests under way share a session, neither  *)
(* in one worker, also not those that a refresh or a retry gave one        *)
(* (session.js:143), nor in two: the workers draw different numbers and so *)
(* walk over the pool without meeting (session.js:72), until a worker is   *)
(* replaced by one whose id is beyond their number.                        *)
RotatedApart ==
  LET live == {w \in Workers : serv[w] # None /\ serv[w].sess[Main] # None}
  IN world.mode = "rotate" =>
       /\ \A w \in live : Cardinality(serv[w].sess[Main].users) <= 1
       /\ "crash" \notin world.besides =>
            \A v, w \in live :
              v # w => serv[v].sess[Main].ord # serv[w].sess[Main].ord

(* No request is retried for ever, whatever the rules of its port and of   *)
(* the port it is retried on do: all of them count the retries of the      *)
(* request (rules.js:203, 221, server_handle.js:191).  It is answered, or  *)
(* lost: with its worker, or to a port without a server (worker.js:303).   *)
RequestsEnd ==
  \A r \in Requests :
    req[r].stage \in {"sent", "away"} ~> req[r].stage \in {"done", "lost"}
=============================================================================
