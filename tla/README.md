# Verification of the Proxy Manager

TLA+ models of the parts of the Proxy Manager (`luminati-proxy`) in which several
processes, callbacks or timers work on the same state, checked with TLC on small
instances and, where a property is worth it, proved with TLAPS for every instance.
Line numbers refer to the repository at the commit this directory is kept beside.

## 1. The system

The Proxy Manager runs HTTP proxy *ports*. One **master** process (`lib/manager.js` and
its mixins) holds the configuration, the web API and one `Proxy_port` object per port;
it forks **workers** (`lib/cluster_mgr.js`, `lib/worker.js`), and every worker listens on
every port with a `Server` of its own (`lib/server.js`). Master and workers talk over the
IPC channel of each worker: commands (`CREATE`, `UPDATE_CONFIG`, `STOP`, `BANIP`, ...)
go down, events (`READY`, `STOPPED`, `BANIP`, `REFRESH_IP`, ...) come up. A cloud service
sends configurations that replace the local one.

| component | state | operations | interacts through | what makes it correct |
|---|---|---|---|---|
| `Throttle_mgr` (`throttle_mgr.js`, `server_handle.js`) | per domain: count of requests, list of waiting tasks | throttle, release, init with a new limit | handler tasks, `complete_req`, client aborts, redirects, `update_config` | the limit holds; nobody waits for ever; nothing stays counted |
| `Ip_cache` (`ip_cache.js`) | Map of bans in insertion order, a timer per ban | add, delete, clear, expiry, hand-over to a new port | timers of Node, serialisation into messages | bounded; a timer ends its own ban, on time |
| Propagation of bans (`proxy_port.js`, `worker.js`, `server.js`, `rules.js`, API) | one list in the master and one per worker and port | ban, unban, unbanips, global ban, rule actions, update | messages both ways, worker restarts | all lists agree at rest; the user's last word counts |
| Life of ports (`mgr_proxy.js`, `proxy_port.js`, `cluster_mgr.js`) | `proxy_ports`, `proxies`, counters of `READY` and `STOPPED`, `deleting`, `dups`; servers of each worker | create, delete, crash and restart of workers | messages, events waited for by tasks | configuration, ports and sockets agree; requests are answered |
| Cloud configuration (`mgr_config.js`) | `applying_cloud_config`, `pending_cloud_config` | apply | kills and forks workers, deletes and creates all ports | one at a time; workers come back |
| Config file (`config.js`, `lpm_f.js`) | configuration in memory, file, `.backup`, copy in the cloud; time stamps | save, load, upload, pushed changes, `get_conf`, renewed connections | all of the above | a crash leaves a configuration; manager and cloud converge |
| `Sess_mgr` (`session.js`, `mgr_proxy.js`, `manager.js`) | session counter, sticky sessions, reserved IPs; in the master the pool of IPs and the session number | request, reserve, refresh, replace | requests, `ADD_STATIC_IP`, `REMOVE_STATIC_IP`, `REFRESH_SESSIONS`, `UPDATE_CONFIG` | workers share one pool; refreshes reach everybody; sessions are not shared where they must not be |
| Rules and retries (`rules.js`) | retry counters, reserved IPs | post, action | responses, other ports | retries are bounded |
| `Cloud_ip_cache` (`ip_cache.js`) | local list, list in redis | add, delete, clear, message, load | redis pub/sub, the `cmd` event | masters agree, and the store with them |
| `cluster_ipc` (`util/`) | waiting calls by key, calls without a handler | call, answer, failure of a worker | messages | each call ends once |
| `Cache` (`cache.js`, `cache_client.js`) | Map of responses, space taken, timers | set, has, get, expiry | `cluster_ipc` | space is what is stored; nothing is older than an hour |
| `Stat` (`stat.js`) | counters | count, hand over, flush | `cluster_ipc` | nothing counted twice; collecting ends |
| the rest | | | | see PROJECT.json: request pipeline, front ends, UI, migration, tables, certificates, general libraries |

Hard behaviours: the master's handlers are generators (`etask`) that other handlers run
between two `yield`s; echoes and commands of different age cross in the channels;
workers die with messages in their channels; ports are deleted while they are created;
configurations arrive while requests run; timers outlive what they were armed for.
PROJECT.json lists each as a hazard at its line, with the properties that would catch it
or a note why none does yet.

## 2. Modules

| module | models |
|---|---|
| `Limiter` | abstract: a counting semaphore per domain with a first-come first-served list |
| `Throttle` | `Throttle_mgr`, the handler around it, aborts, redirects, changes of the limit; implements `Limiter` |
| `IpCache` | class `Ip_cache` with its timers and a clock |
| `BanSync` | the ban lists of masters and workers, the messages between them, and redis between masters |
| `PortCluster` | create, delete and replace of ports, workers that die, `apply_cloud_config` |
| `ConfigSync` | the configuration in memory, on disk and in the cloud |
| `WorkersIpc` | `cluster_ipc` with the two services that use it: the cache and the statistics |
| `Sessions` | `Sess_mgr` in every worker, the pool of the master, rules that retry, ban and reserve |
| `Lists` | taking elements out of a list, for the models that do it |
| `MC...` | instances of each for TLC |
| `..._proofs` | the TLAPS proofs about a model: `Throttle_proofs`, `IpCache_proofs`, `BanSync_proofs`, `ConfigSync_proofs`, `WorkersIpc_proofs`, `PortCluster_proofs`, `Sessions_proofs` |
| `SequenceFacts` | lemmas on sequences and numbers that the proofs share |

In most modules a constant `Worlds` gives a set of *worlds*: which operations, troubles
and options a behaviour has. A behaviour chooses its world in `Init` and keeps it, so that
one run checks several combinations, each with the bounds it needs, and a property can
name the worlds it is about.

The modules do not compose into one: a ban needs nothing of the throttle, and the
protocols on the IPC channel touch in a few places only. `BanSync` and `Sessions` model
the `CREATE` and `UPDATE_CONFIG` that carry their part of the configuration; `ConfigSync`
takes `apply_cloud_config` as two steps, whose inside `PortCluster` models.

### Throttle

A request is one slot of `Requests`; `pc` says whether its handler waits in `throttle`
or has been sent. `Arrive` is `handler` up to its first yield, `Complete` and `Abandon`
are the two ways into `complete_req`, whose call of `release` is the operator `release`:
it decrements, takes the head of the list and continues it if its client is still
there. `Redirect` is `update_req_redirect`, which rewrites the `req.url` that `release`
uses later. `Update` is `Server.update_config` with another limit. Handler tasks are
reused: a slot arrives again only when no list refers to it.

### IpCache

`cache` is the order of the Map; `to_date` and `timer` are the two fields of an entry. A
timer that no entry refers to any more is a member of `strays`. Timers from `add` call
`Ip_cache.delete`; those from `create_timeouts` delete from the Map alone (`plain`), so
that the timer of a younger entry is orphaned in turn. A due timer fires before the
clock goes on. `Delay` is what Node's `setTimeout` does with a delay it cannot hold.

### BanSync

`mban` and `wban` are the lists, `down` and `up` the channels. Each API handler and each
rule action is an action; a worker sends an event back for every ban that it applies,
also one that the master commanded (`Echo`), and the master drops events that are not
news (`NewOn`). `Restart` is a crash, its detection and the `CREATE`s to the new worker
in one step: nothing that happens between them is visible in the lists, since commands
to a dead worker are lost. `lifted` is history: what users unbanned and nobody banned
since. A domain is an opaque value.

In a world with `cloud` the workers have different masters, whose lists are
`Cloud_ip_cache`s. Every change of a list is published and the list is stored (`Cmd`).
A published command reaches every master at any time and in any order (`news`); the lists
of one master are stored in their order (`sets`, `RedisSets`). A master that hears a
command, its own included, changes its list without looking and tells its workers
(`MasterHears`). `Reboot` is a master that dies with its workers and starts with empty
lists; `load_data` replaces them later.

### PortCluster

`proxy_ports`, `deleting`, `dups`, `ready`, `stopped` are the fields of that name;
`got_ready` and `got_stopped` are the events emitted. A request is a client's `task`
that is cut at its yields: `proxy_create` runs to the wait for `ready`, `proxy_created`
is the rest; `proxy_delete` and `proxy_deleted` likewise. `Send` reaches the workers
that are up; `MasterHandles` counts against the workers of this moment (`Count`), as
`handle_ready` and `handle_stopped` do. A worker's `Server` has a socket (`bound`) some
time after `CREATE` (`Listening`). `apply_cloud_config` is cut into its steps: `new_conf`
kills the workers, `delete_all` or `delete_fails`, `init_proxies`, `run_workers`,
`apply_ends`; the `finally` handler with the configuration that waited is `Finally`. A
`world` chooses what a behaviour contains: which ports, which requests, whether clients
wait for each other, how many crashes and configurations.

`delete_all` deletes the ports of the old configuration; requests that become ready while it
waits for that enter their ports into the old list, which then gives way to the new one
(`Finishing`, `Made`). `init_proxies` starts the new one. A port that it finds already there,
because a client created it, is deleted first, and that takes the entry of the *new*
configuration out of the list (`mgr_proxy.js:193-207`, `323-326`; `668-686` puts nothing
back): the port has then only the entry of a client that was ready meanwhile (`Entries`), or
none. Where a delete ends during the same wait its entry is missing and `splice(-1, 1)` takes
one of another port (`Late`). `overtaken` is history, for the properties: the ports that lost
their entry in this way.

A request to create has a stage between `proxy_check` (`Checked`) and `init_proxy`: by
then somebody else may have created the port, which is deleted first, or may be deleting
it, so that the request gives up. A request to replace (`proxy_remove_and_create`) is a
delete, `Stop` and `proxy_delete`, followed by a create.

Abstractions: `EADDRINUSE` by other processes, `no_proxy_delete`, updates of a port in
place and `refresh_sessions` are left out; a socket that Node hands out after its server
was closed is let go at once (`Closes`). `init_proxies` is one step: what was under
way may end during it, a request that comes while it waits for a delete is not modelled.

### ConfigSync

A configuration is the set of edits it contains and a time stamp. `mem` is the manager's,
`file` and `backup` are on disk, `cloud` is the other copy. `Save` is `save` with its
rename and its write, either of which may fail, `CrashInSave` a process that dies between
them, `Boot` the constructor of the manager, which loads and saves at once. `ApplyCloudConfig`
is `apply_cloud_config` up to its first yield, with the comparison of the time stamps;
`Install` and `FinishApply` are what follows. `OnJson` is a pushed message: it waits for the
apply that runs, is woken with all others (`WakeHandler`) and does not look again. `Upload`,
`UploadWakes`, `Transmit` are `update_conf`, which waits while the connection is renewed and
sends nothing while it is broken. The cloud keeps the configuration with the later stamp
and pushes to managers that are connected.

### WorkersIpc

A call is a key in `waitM` or `waitW`; `toM` and `toW` hold calls and answers, `pend` the
calls a worker got before its handlers were installed. `Serve` and `OnCall` are the two
`on_call`s, `Collect` and `OnResult` the two `on_response`s. A worker's request asks the
cache twice (`has`, then `get`), goes to the target if the answer is no, and stores what it
got. The cache is `cache_set`, `Expire` and `Tick`: every `set` has a timer of its own, which
gives back the space and drops whatever the URL holds then. A flush of the statistics is a
call to all workers (`FlushStarts`), a wait for all answers or failures (`Collect`,
`FailCalls`), and a send. `Reconf` cancels it; `Restart` is a manager that is replaced in the
same process, while the interval of the old one goes on.

### Sessions

`serv[w]` is the `Server` of a worker with its `Sess_mgr`: `sid` the next session number, `ips`
the pool it knows, `temp` the reserved IPs, `sess` its sessions (`Main`, or one per source
address with `sticky_ip`). A session has its number `ord`, its IP and the requests that use it.
The master has `session_id`, the pool twice (`conf`, what is saved, and `opt`, what new
workers get) and its bans. A request is sent with a session, the super proxy answers with
some IP of the zone, or of the pool (`Answer`), and the rule of the port reserves, bans or
refreshes the IP and retries: with a new session, the same, or on another port. `Count` is the
counter on the request. `refresh_ip` goes to the cloud and comes back (`renewing`). An error,
also "Too many banned IPs", becomes a 502 that the rules see like an answer (`ErrorAnswer`,
`server.js:914-926`), and so does the answer to a request that is retried on another port: the
rules of both ports see it (`post`, `rules.js:214`), and a port without a server loses it
(`Elsewhere`, `worker.js:303-307`). `stale` is history: the sessions that were in use at calls
of the API. `Steady` names the ports on which nothing but a refresh ends a session.

## 3. Runs

| run | instance | shows |
|---|---|---|
| `throttle_all` | 3 requests, 2 domains, limits 0-2, 1 update, aborts, redirects on or off; and 4 requests left alone | types; the list is exactly the excess over the limit; live waiters are listed under their domain; without redirects counts are backed by requests in flight and no waiter waits for ever; left alone, `Throttle` implements `Limiter` |
| `throttle_leak` | 3 requests, limit 1, redirects | *violation* of `DrainedIsFree` |
| `ip_cache_all` | 3 keys, at most 2 entries, clock to 5, at most 3 strays | types; timers match bans, which end on time, also after a hand-over; no timer is early; the bound, and the oldest ban is dropped |
| `ip_cache_stray` | the same, 2 strays | *violation* of `TimersEndOnlyExpired` |
| `ban_sync_all` | 2 workers and five worlds: bans at any time with a crash; operations one by one on 2 ports with bans for a domain; the two again for two masters and redis, with rules, and with a master that starts again | types; lists agree at rest; the store holds what the masters have; a ban spreads; echoes die out; what a user unbans stays unbanned |
| `ban_sync_unban` | a ban and an unban at any time | *violation* of `UnbansLast` |
| `port_cluster_safe` | 2 workers, 2 clients, seven worlds (`MCPortCluster`), 2.3 million states | types; configuration and ports agree at rest, except for a port that a configuration overtook; workers listen on exactly the ports of the master |
| `port_cluster_live` | a port with a duplicate, three worlds | requests are answered; workers come back |
| `config_sync` | eleven worlds, 5 edits, 2 faults, 2 breaks of the connection | a crash in a save leaves a whole copy; manager and cloud agree at rest; uploads arrive; the stamp never goes back; everything comes to rest |
| `config_sync_events` | whole configurations and single changes | *violation* of `JsonEventsWait` |
| `workers_ipc` | 2 workers (3 ever forked), 3 requests, 2 URLs, a cache of 3, 1 trouble, seven worlds | answers find their calls; nothing is counted twice; the cache keeps its limit and its hour; requests and flushes end; statistics arrive |
| `sessions` | 2 workers (3 ever forked), 3 IPs (one where no rule and no pool looks at it), 2 requests, 1 call of the API, twelve worlds, 230 thousand states | one pool, sound, and no reservation stuck; refreshes reach all workers, and switch those of a steady port to new sessions; rotating workers keep apart; every request ends |

**Bounds.** Three requests suffice for a list with two members while one is sent, two
domains for a redirect between them, four requests for two to hold and two to wait.
Three keys over a list of two evict; durations of two ticks in a clock of five let a
timer be armed, orphaned, and fire on a later ban. Two workers are needed for an echo of
one to meet a change of the other and for a counter of messages to be one short; one
restart or two, because the code keeps nothing about a worker from one crash to the
next. Five edits let a change come before, during and after an apply, and two breaks lose
both an upload and its repetition; two faults interrupt a save and the one that repairs it.
Three requests over two URLs store one URL again while the timer of its first entry runs.
Two requests are enough to share a session, three IPs to fill a pool of two and have one
left. Messages in a channel are bounded by `MaxQueue`, which only a behaviour that goes
wrong reaches. Runs say `CHECK_DEADLOCK FALSE` where a behaviour ends when its bounds are used up.

**Fairness.** Only what the runtime guarantees: messages of a live channel are delivered
(`WorkerHandles`, `MasterHandles`; redis delivers what it accepted), the exit of a process is
noticed, a socket is opened (`Listening`), a task continues when what it waits for has
happened, a request that was sent upstream ends (`socket_inactivity_timeout`), and timers
fire. `ConfigSync` and `Sessions` state it as one weak fairness of `Progress`, the disjunction
of these steps: less than fairness of each, and enough. `WorkersIpc` states one per process and
kind of step (a worker's messages and boot, its fetches, the master's messages from it, its
exit; the flushes of each manager), because another process may go on for ever. `Throttle`,
`BanSync` and `PortCluster` state it per process or action for the same reason. Users, crashes,
lost connections and the cloud's own changes are never forced.

**Disagreements with a run** are the findings of PROJECT.json:

- *Redirects leak throttle places* (`throttle_leak`): `complete_req` releases the domain
  of the rewritten `req.url`, so the domain the request was counted under stays counted
  and in the end blocks.
- *Stray timers* (`ip_cache_stray`): `clear` empties the Map but leaves its timers armed;
  they end later bans of the same IPs.
- *Ban and unban chase each other* (`ban_sync_unban`): the echo of a ban meets an unban
  that came after it, is news again, and so on without end.
- *Changes pushed during an apply are overwritten* (`config_sync_events`): a handler that
  waited for an apply does not look whether the pending configuration is being applied now.

**Seen in the models, without a run of their own.** Each is a change of an instance:

Throttle and bans:

- A client that abandons a throttled request lets another one start above the limit
  (`release` takes the head of the list also for a request that never held a place), and
  after a change of the limit, requests admitted under the old one free places that they do
  not hold in the new counts: drop `Calm` from `Throttling`.
- A ban longer than 2^31-1 ms ends at once: `ip_cache_all` with `MaxDelay = 1`
  violates `OwnTimerIsDue`.
- `unbanips` right after a ban is undone by the echo of the ban: `ban_sync_unban` with
  `{"ban", "unbans"}`.
- To lift a ban for a domain while the IP is banned for every domain is echoed for ever:
  `has` stays true in master and worker. `Settles` is about whole IPs for that reason.
- A global ban that names no ports bans nothing (`Selected`).
- A rule that bans for a domain while the IP is banned for every domain is heard by nobody: the
  worker lists the ban, the master has the IP already and drops the event (`handle_banip`), and the
  two disagree at rest. `Coherent` leaves such rules out: add `"rule"` to the world `Patient`.
- In redis, of two changes at the same time the list of the master whose `set` comes last
  remains, which may lack the other: `StoreIsCurrent` without `patient`. A master that
  starts between a `publish` and its `set` misses the change.
- `load_data` tells no worker. Those that got their `CREATE` before the list was loaded let
  every banned IP through until it is banned again, and the master will not spread that
  ban, which it has: `QuietAgreement` without `WorkersLag`.
- `Cloud_ip_cache` looks at `redis.state`; that a port created on a connection that is ready
  loads its list depends on the client having such a property.

Ports:

- A worker that dies during a delete never counts as stopped and the delete is not answered.
- A configuration that comes during a delete kills all workers and then fails, before it
  forks new ones; `health_check` restarts the process later.
- A worker forked during a delete opens the port again and keeps it: drop `Orderly` from
  `WorkersServePorts`.
- A delete while the duplicates are created leaves them running, a delete before the port
  is ready leaves the create unanswered, and two creates of one port with duplicates
  leave two entries in the configuration: an impatient world with port `p1`.
- A configuration from the cloud that has a port which a client is just creating runs it without
  an entry: `init_proxies` deletes the client's port, and with it the entry of the
  configuration that it is about to start. The port is not saved, and serves until somebody deletes
  it or the manager restarts, whatever configurations come. Drop the last disjunct of `ConfigMatchesPorts`
  (`port_cluster_safe`, world `Races`).
- A delete that ends while `init_proxies` deletes the port once more finds no entry of its port,
  and `splice(-1, 1)` takes the last entry of the list, which belongs to another port.

Configuration:

- A start never looks at `.backup`: a file that is missing or torn becomes an empty
  configuration stamped with the current time, which the constructor saves at once, so that
  the good backup is replaced by the bad file. Being younger, it is not replaced by the
  cloud's, unless the manager is one of the cloud (`zagent`), which forces it.
- An edit made while the connection is broken is never uploaded; what `auth` returns during
  a refresh is ignored; a save during an apply is overwritten; a single change pushed
  between the `get_conf` of `start` and its application is overwritten, and a `zagent` forces the
  copy it fetched although it is out of date. `CatchesUp` and `UploadsArrive` name these
  circumstances (`hasty`, `refresh`, `early`, `outage`), and fail in them.

Calls, cache and statistics:

- After `config_changed` the interval of the old `Stat` goes on in the same process and
  collects what its closed connection cannot send. New settings cancel a flush and lose
  the counts handed over. A worker that dies loses its counts.
- `has` and `get` are two calls: the entry may be gone between them. A URL stored again is
  dropped by the timer of its first entry.

Sessions:

- Sessions come back after a refresh. The API promises new ones (`lib/swagger.json:969`), but
  `REFRESH_SESSIONS` carries the number of the master, to which a worker that is ahead of it
  is set *back* (`session.js:45-46`, `76-81`): the next session has a name that was in use
  before the call. With `sticky_ip` a worker counts for every address, and two requests are
  enough; with bans, or requests that bring their session, it takes three. `Steady` excludes
  each of these: without its condition TLC finds `Refreshed` violated.
- Every configuration makes a `Sess_mgr` that starts at the number of `CREATE`, and a worker that
  is not yet seen listening is skipped by a refresh: ports with a pool, and those whose
  workers die, go on with an older session. `Refreshed` excludes them too.
- The id of a worker that replaces another is beyond their number, so two workers may draw
  the same session numbers, and IPs of the pool may go unused (`RotatedApart`).
- A port that renews IPs can hold one twice: `refresh_ip` reserves the new IP before it
  replaces the old one, and of two renewals that cross (`b` to `c` after `c` to `a`) the one
  that comes last may put in what the other has put in already. Drop the condition of
  `PoolSound` (1 worker, 3 requests, a rule with `renew`).
- A banned IP can return to the pool with an `ADD` that was under way. While the pool is not
  full a session has no IP of its own, and a ban removes nothing from the pool.
- `Server.refresh_ip` returns nothing, so that a request does not wait for the new IP, and a
  ban that retries refreshes twice. A request with `x-lpm-session` drops the session of
  the port for everybody else. An explicit session without `pool_size` keeps `temp_ips`. A
  retry to a port that has no server is lost.

## 4. Proofs

TLC checks small instances; the theorems hold for every value of the constants that the
named assumptions of the models allow. These say what the code takes for granted: bounds
are numbers, limits and durations are numbers, workers and handler tasks are finitely many,
duplicates of different ports are different ports, markers such as `None` are not data, and
`Worlds` are worlds.

Each proof follows one line. An invariant of the model is seldom inductive by itself, so the
module defines a stronger one, a conjunction of named parts that say what holds *between*
two operations: what each message under way promises, who is responsible for each pending
task. A lemma shows that `Init` implies each part, one lemma per action (or per group of
actions that change the same things) that a step keeps it, and the theorem combines them.
TLC agreed with each part before it was proved.

**Throttle** (`Throttle_proofs`; all requests, domains, limits, with aborts, redirects, updates)

- `TypeCorrect`, `WaitingListIsExcess` (`QueueMatchesExcess`), `WaitersListed`
  (`WaitersAreListed`), `ChargesAreBacked` (`NoPhantomRequests`). `QueueMatchesExcess` is not
  inductive: with the limit at 0 it says nothing, and an update to a limit above 0 would
  start from anything. `IInv` adds that a port without a limit has empty counts and lists.
- `ThrottleIsSemaphore`: `Spec => ImplementsLimiter`. In the worlds that leave it alone, every
  step is a step of `Limiter`, a semaphore with a first-come first-served list, or a stutter.

**IpCache** (`IpCache_proofs`; all keys, durations, limits)

- `TypeCorrect`, `BansEnd` (`TimersMatchBans`) and `NewestBansStay` (`NewestIsKept`): the Map, the
  ends of the bans and the timers agree after every add, eviction, expiry, clear and
  hand-over. `IInv` adds that a key is listed once, that only listed keys have an end, and that
  timers are not late.
- `BansLastTheirTime` (`OwnTimerIsDue`) for durations that `setTimeout` can hold; beyond them it
  is false, see section 3.

**BanSync** (`BanSync_proofs`; any number of masters, workers, ports, bans, operations, crashes)

- `ListsAgree` (`QuietAgreement`) and `StoreKept` (`StoreIsCurrent`), where every world is
  `Coherent`. That names the worlds in which the code keeps the lists equal: workers of one
  master, or of masters that share a list in redis; bans of rules are for whole IPs; what
  crosses in redis, which keeps no order, are only bans; and a master starts again only where
  there is a store. Outside them the property is false (section 3, and the comment at
  `Coherent`). `MCBanSync` assumes it of its worlds, so TLC confirms that they satisfy it.
- The invariant: of the messages about a ban in a channel the *last* decides whether the worker
  will list it (`Will`). Every worker will have what its master has, and more only while the
  event of a rule's ban is on its way to the master (`Follows`); a worker that has not created a
  port will be told to (`Starts`). Masters that act at the same time only ban, and a ban that one
  has every other has or is about to hear (`Gathers`). Where users wait there are lists that all
  masters, workers and the store will have, which what is under way has in them already
  (`Settled`, `Agreed`). After a master died workers may lag behind it (`Lagging`).
- `TypeCorrect`, without that hypothesis: commands and events are ones their receiver handles, and
  about ports that exist.

**ConfigSync** (`ConfigSync_proofs`; any number of edits, faults, breaks)

- `StampsNeverGoBack` (`TsNeverBack`): no configuration is older than one it replaces, because what
  is on its way has a stamp the clock has passed, and what waits to be applied was compared.
- `EditsReachTheCloud` (`UploadsArrive`): the cloud has the manager's stamp, or a younger
  configuration is on its way there (`Covered`), through every step.
- `PushesAreNotForgotten` (`CatchesUp`): of all that the cloud sent the latest is the last to be
  applied. Messages keep their order through channel, handlers and the pending slot (`Order`);
  there is a case for whole configurations (`UpToDate`), for single changes, of which each has
  one holder (`Singly`), and for the first fetch (`Beginning`, `Undisturbed`).
- `ConfigurationsSurvive` (`SurvivesCrash`): before the first fault file and memory agree
  (`FirstFault`); two configurations with one stamp are the same (`Unique`); a cloud manager that
  is up has its configuration on its way to or from the cloud (`Settled`).
- `TypeCorrect`.

**WorkersIpc** (`WorkersIpc_proofs`; any number of workers, requests, URLs, sizes)

- `AnswersFindTheirCalls` (`NoOrphanAnswer`): a dialogue of each worker says which of call,
  handler and answer exists (`Asking`, `Dialogue`), a flush waits for those it asked or was
  cancelled (`Current`), and a process that is gone has nothing (`GoneForGood`).
- `StatisticsAreExact` (`CountedOnce`): the places a request's statistics can be in are pairwise
  disjoint (`Apart`), and requests that are under way are in none.
- `CacheKeepsItsLimit` (`CacheBounded`): the space taken is the sum over the timers, of which every
  entry has its own (`Stored`).
- `TypeCorrect`.

**PortCluster** (`PortCluster_proofs`; any number of workers, clients, ports, duplicates)

- `ConfigurationMatches` (`ConfigMatchesPorts`): `PortInv` says who works on a port. One that is
  deleted is still there and one request deletes it (`Doomed`); one that starts has no entry, but
  for that of a configuration being installed, and one request that waits for it (`Busy`); every
  other has one entry, or none where a configuration overtook it (`Booked`), and runs with its
  duplicates (`Whole`). Clients that are patient do not meet (`Alone`).
- `WorkersServe` (`WorkersServePorts`): `Served` adds what the channel of each worker will leave
  open: the last `CREATE` or `STOP` of a port under way to it decides, or its servers when
  there is none (`EndsOpen`), and that agrees with the master's ports except for those that
  somebody stops or brings back. A configuration has no worker while it replaces the ports
  (`Killed`).
- `TypeCorrect`.

**Sessions** (`Sessions_proofs`; any number of workers, requests, addresses, IPs, retries)

- `PoolsAgree` (`PoolAgreement`): the last configuration under way to a worker has the pool of the
  master, or the worker has it already (`Pools`).
- `PoolStaysSound` (`PoolSound`), `ReservationsAreAnswered` (`ReservationsAnswered`): what a worker
  reserved is on its way to the master, which has room for it, unless a configuration that
  makes the worker forget is on its way (`Reserved`).
- `RefreshReachesAll` (`Refreshed`): the last refresh under way has the master's number
  (`Numbered`). That says nothing yet of what was in use. A worker of a steady port counts only
  where it also reports to the master, so none of them is further than the master will be
  once it has read the reports that are under way; what was in use at a call is behind that,
  and the refreshes that follow pass it (`Ahead`).
- `RequestsRotateApart` (`RotatedApart`): while nobody dies the workers draw their numbers from
  classes apart (`NumbersApart`), and a session is left before another request uses it.
- `TypeCorrect`. `Moves` classifies the steps by who moves, and every part is proved against it.

Every invariant and action property that a passing run checks is stated by one of these theorems;
the rest is liveness.

**Not proved, and why.** Liveness under fairness (`WaiterIsServed`, `BansSpread`, `UnbansLast`, both
`Settles`, both `RequestsEnd`, `WorkersReturn`, `CallsEnd`, `StatsArrive`) is out of the prover's
reach and stays with TLC. So do induction over data as a schema and recursive operators: the
models use recursive functions, and the few inductions that the proofs need are over a set of
numbers (`Induction`, `LeastNumber` in `SequenceFacts`).

## 5. Plan

Modelled so far: the components of section 1 with a module. Next, most important first:

1. An abstract specification of `BanSync` (one list that workers follow) and of
   `PortCluster` (a set of ports), and the refinements.
2. `PortCluster`: updates in place; a configuration that fails half way.
3. The certificate of a host that several requests of a worker wait for
   (`get_proxy_cert_ipc`), and the idle tracking of `Server`.
4. `util/rate_limit.js` and `util/queue.js` as pure algorithms.

## 6. Not modelled

- Request pipeline: what `Throttle` and `Sessions` do not have of it is the transport of
  bytes, headers and logs; `Context` and `https_agent` keep state per request only.
- Manager start, stop and upgrade: one sequence of steps before the ports run. The parts
  that meet other components, the constructor's save, `get_conf` and `stop`, are in
  `ConfigSync`.
- Web API and user interface: the handlers that change ports, bans and sessions are actions
  of the modules above; the others read. `src/bin/pub` holds generated bundles of the UI.
- Migrations, tables of zones and locations, front ends that pipe bytes, general libraries
  (`util/`): no state of this program.
- The connection to the cloud: the repository has one side of the protocol. `ConfigSync` has
  the calls and messages that concern the configuration.
- Inside modelled components: see the notes of PROJECT.json (triggers, `vips`, `ext_proxies`,
  `asn`, the raw editor of the file, posts of `cluster_ipc`, request logs).
