------------------------------ MODULE Throttle ------------------------------
(***************************************************************************)
(* The request throttle of one proxy port in one worker: Throttle_mgr      *)
(* (lib/throttle_mgr.js) driven by the request handler and complete_req    *)
(* (lib/mixins/server_handle.js) and by Server.update_config.              *)
(*                                                                         *)
(* A request is a slot of Requests.  Its handler task is "idle" before the *)
(* request arrives and after complete_req, "queued" while it waits in      *)
(* Throttle_mgr.throttle, "running" once lpm_request was entered.          *)
(***************************************************************************)
EXTENDS Integers, Sequences, FiniteSets

CONSTANTS
    Requests,       \* handler tasks
    Domains,        \* what url2domain returns
    Limits,         \* values of the port option "throttle", 0 is off
    Worlds          \* what may happen, see World

\* What a behaviour may contain, chosen when it starts.
World == [slots : SUBSET Requests,  \* the handler tasks that are used
          limits : SUBSET Limits,   \* the limits it may start with
          follow : BOOLEAN,         \* the port option follow_redirect
          aborts : BOOLEAN,         \* clients may close their connection early
          updates : Nat]            \* bound on the configuration updates

ASSUME RequestsAssumption == IsFiniteSet(Requests)
ASSUME LimitsAssumption == Limits \subseteq Nat
ASSUME WorldsAssumption == Worlds \subseteq World

VARIABLES
    limit,      \* opt.throttle; throttle_mgr exists iff it is not 0
    world,      \* does not change
    active,     \* throttle_mgr.active: requests per domain
    throttled,  \* throttle_mgr.throttled: waiting tasks per domain
    pc,         \* where each handler task is
    url,        \* the domain of req.url, which a redirect rewrites
    aborted,    \* req.aborted
    updates     \* configuration updates so far, for the bound only

vars == <<limit, world, active, throttled, pc, url, aborted, updates>>

TaskState == {"idle", "queued", "running"}

Nobody == [d \in Domains |-> 0]
NoTasks == [d \in Domains |-> <<>>]

Init == /\ world \in Worlds
        /\ limit \in world.limits
        /\ active = Nobody
        /\ throttled = NoTasks
        /\ pc = [r \in Requests |-> "idle"]
        /\ url \in [Requests -> Domains]
        /\ aborted = [r \in Requests |-> FALSE]
        /\ updates = 0

(***************************************************************************)
(* Throttle_mgr's helpers.                                                 *)
(***************************************************************************)

\* The task is referenced by a waiting list (possibly after it completed).
Listed(r) == \E d \in Domains : \E i \in DOMAIN throttled[d] : throttled[d][i] = r

\* _increase_active
Increased(d) == [active EXCEPT ![d] = @ + 1]

\* _decrease_active: an absent entry stays absent
MutDecreased(d) == [active EXCEPT ![d] = @ - 1]
Decreased(d) == [active EXCEPT ![d] = IF @ = 0 THEN 0 ELSE @ - 1]

\* throttle() returns at once if the request just counted is within the limit
MustWait(d) == Increased(d)[d] > limit

\* _throttle_task
MutEnlisted(d, r) == [throttled EXCEPT ![d] = <<r>> \o @]
Enlisted(d, r) == [throttled EXCEPT ![d] = Append(@, r)]

\* _get_next_task: the list without its head
MutShifted(d) ==
    [throttled EXCEPT ![d] = IF @ = <<>> \/ active[d] <= limit + 1 THEN @ ELSE Tail(@)]
Shifted(d) == [throttled EXCEPT ![d] = IF @ = <<>> THEN <<>> ELSE Tail(@)]

\* The head's request is alive; continue() is a no-op on a completed task.
CanContinue(r) == pc[r] = "queued" /\ ~aborted[r]

\* Is q the task that a release for domain d continues?
MutIsContinued(d, q) == /\ throttled[d] # <<>>
                        /\ q = Head(throttled[d])
                        /\ CanContinue(q)
                        /\ active[d] <= limit
IsContinued(d, q) == /\ throttled[d] # <<>>
                     /\ q = Head(throttled[d])
                     /\ CanContinue(q)

(***************************************************************************)
(* complete_req of task r: release, then the handler is gone.              *)
(***************************************************************************)
release(r) ==
    LET d == url[r] IN
    /\ IF limit = 0
       THEN /\ pc' = [pc EXCEPT ![r] = "idle"]
            /\ UNCHANGED <<active, throttled>>
       ELSE /\ active' = Decreased(d)
            /\ throttled' = Shifted(d)
            /\ pc' = [q \in Requests |->
                         IF q = r THEN "idle"
                         ELSE IF IsContinued(d, q) THEN "running"
                         ELSE pc[q]]
    /\ UNCHANGED <<limit, world, url, aborted, updates>>

(***************************************************************************)
(* Steps of the handler task.                                              *)
(***************************************************************************)

\* handler up to the first yield: with throttling on the request is counted
\* first and waits if that makes it one too many.
Arrive(r, d) ==
    /\ r \in world.slots /\ pc[r] = "idle"
    /\ ~Listed(r)
    /\ url' = [url EXCEPT ![r] = d]
    /\ aborted' = [aborted EXCEPT ![r] = FALSE]
    /\ \/ /\ limit = 0
          /\ pc' = [pc EXCEPT ![r] = "running"]
          /\ UNCHANGED <<active, throttled>>
       \/ /\ limit > 0
          /\ active' = Increased(d)
          /\ IF MustWait(d)
             THEN /\ pc' = [pc EXCEPT ![r] = "queued"]
                  /\ throttled' = Enlisted(d, r)
             ELSE /\ pc' = [pc EXCEPT ![r] = "running"]
                  /\ UNCHANGED throttled
    /\ UNCHANGED <<limit, world, updates>>

\* lpm_request returned or threw
Complete(r) == pc[r] = "running" /\ release(r)

\* The client closed the connection: req.aborted is set at once, the handler
\* is returned from a timer.
Abort(r) ==
    /\ world.aborts
    /\ pc[r] # "idle"
    /\ ~aborted[r]
    /\ aborted' = [aborted EXCEPT ![r] = TRUE]
    /\ UNCHANGED <<limit, world, active, throttled, pc, url, updates>>

\* this.return() of a handler that still waits in throttle
Abandon(r) == pc[r] = "queued" /\ aborted[r] /\ release(r)

\* redirect_req: update_req_redirect rewrites req.url and the request goes on
Redirect(r, d) ==
    /\ world.follow
    /\ pc[r] = "running"
    /\ d # url[r]
    /\ url' = [url EXCEPT ![r] = d]
    /\ UNCHANGED <<limit, world, active, throttled, pc, aborted, updates>>

(***************************************************************************)
(* Throttle_mgr.init, called by Server.update_config with another limit.   *)
(* Turning throttling off resumes the waiting tasks, a new limit aborts    *)
(* them (et_info.canceled: their complete_req does not release).  Requests *)
(* that were aborted by their client are left to their own timer.          *)
(***************************************************************************)
MutUpdate(l) ==
    /\ updates < world.updates
    /\ l # limit
    /\ limit' = l
    /\ throttled' = NoTasks
    /\ pc' = [r \in Requests |->
                 IF Listed(r) /\ CanContinue(r)
                 THEN IF l = 0 THEN "running" ELSE "idle"
                 ELSE pc[r]]
    /\ updates' = updates + 1
    /\ UNCHANGED <<world, active, url, aborted>>
Update(l) ==
    /\ updates < world.updates
    /\ l # limit
    /\ limit' = l
    /\ active' = Nobody
    /\ throttled' = NoTasks
    /\ pc' = [r \in Requests |->
                 IF Listed(r) /\ CanContinue(r)
                 THEN IF l = 0 THEN "running" ELSE "idle"
                 ELSE pc[r]]
    /\ updates' = updates + 1
    /\ UNCHANGED <<world, url, aborted>>

Next == \/ \E r \in Requests, d \in Domains : Arrive(r, d) \/ Redirect(r, d)
        \/ \E r \in Requests : Complete(r) \/ Abort(r) \/ Abandon(r)
        \/ \E l \in Limits : Update(l)

Spec == Init /\ [][Next]_vars

\* Every request that was sent ends (socket_inactivity_timeout), and the
\* timer of a closed connection fires.
Fairness == \A r \in Requests : WF_vars(Complete(r)) /\ WF_vars(Abandon(r))

FairSpec == Spec /\ Fairness

-----------------------------------------------------------------------------
(***************************************************************************)
(* Properties.                                                             *)
(***************************************************************************)

\* Types: counts are natural numbers and waiting lists hold handler tasks.
TypeOK == /\ world \in Worlds
          /\ limit \in Limits
          /\ active \in [Domains -> Nat]
          /\ throttled \in [Domains -> Seq(Requests)]
          /\ pc \in [Requests -> TaskState]
          /\ url \in [Requests -> Domains]
          /\ aborted \in [Requests -> BOOLEAN]
          /\ updates \in Nat

Running(d) == {r \in Requests : pc[r] = "running" /\ url[r] = d}
InFlight(d) == {r \in Requests : pc[r] # "idle" /\ url[r] = d}

\* The waiting list of a domain holds exactly the requests counted above the
\* limit, whatever clients, redirects and configuration updates do: an
\* admission or a release that forgets the list would leave a waiting task
\* with nobody to wake it.
QueueMatchesExcess ==
    limit > 0 => \A d \in Domains :
        Len(throttled[d]) = IF active[d] > limit THEN active[d] - limit ELSE 0

\* A live task waits only where a release can find it: one that queues for a
\* limit that is gone, or in the list of another domain, would hang for ever.
WaitersAreListed ==
    \A r \in Requests : CanContinue(r) =>
        \E i \in DOMAIN throttled[url[r]] : throttled[url[r]][i] = r

\* A port that does not follow redirects charges no domain for a request that
\* is gone: the count never exceeds the handlers that will still release it.
NoPhantomRequests ==
    ~world.follow => \A d \in Domains : active[d] <= Cardinality(InFlight(d))

\* Nobody aborts, redirects or reconfigures.
Calm == ~world.aborts /\ ~world.follow /\ world.updates = 0

\* When every request has completed, the domain is free again.
DrainedIsFree ==
    (\A r \in Requests : pc[r] = "idle") => active = Nobody

\* README: "Throttle requests above given number".  Left alone by clients,
\* redirects and updates, the port is a semaphore per domain: the requests sent upstream hold the places, the waiting lists are
\* its queues.  (Where it is not left alone the mapping shows an idle one.)
Throttling == Calm /\ limit > 0
Semaphore == INSTANCE Limiter WITH
    capacity <- IF Throttling THEN limit ELSE 1,
    holders  <- [d \in Domains |-> IF Throttling THEN Running(d) ELSE {}],
    waiting  <- IF Throttling THEN throttled ELSE NoTasks

ImplementsLimiter == Semaphore!Spec

\* Where no redirect is followed a throttled request is eventually sent, unless
\* its client gives up or the limit is changed.
WaiterIsServed ==
    \A r \in Requests :
        (pc[r] = "queued" /\ ~world.follow) ~> (pc[r] # "queued")
=============================================================================
