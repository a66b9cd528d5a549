--------------------------- MODULE Throttle_proofs ---------------------------
(***************************************************************************)
(* Proofs about Throttle for any number of requests, domains, limits and   *)
(* configuration updates, with client aborts and redirects.                *)
(***************************************************************************)
EXTENDS Throttle, SequenceFacts, FiniteSetTheorems, TLAPS

\* A port without a limit has no throttle_mgr, or one that was just cleared.
OffMeansEmpty == limit = 0 => active = Nobody /\ throttled = NoTasks

\* The excess invariant speaks of lists and counts of the right type only,
\* and an update from "off" starts from empty ones.
IInv == TypeOK /\ OffMeansEmpty /\ QueueMatchesExcess

\* What one release does to the count and the list of a domain: both shrink
\* by one together, except that the list stops at empty (release,
\* _decrease_active and _get_next_task in lib/throttle_mgr.js).
LEMMA ReleaseShape ==
    ASSUME TypeOK, NEW d \in Domains
    PROVE  /\ Decreased(d) \in [Domains -> Nat]
           /\ Shifted(d) \in [Domains -> Seq(Requests)]
           /\ \A e \in Domains :
                 /\ Decreased(d)[e] = IF e # d \/ active[e] = 0 THEN active[e]
                                      ELSE active[e] - 1
                 /\ Len(Shifted(d)[e]) = IF e # d \/ throttled[e] = <<>>
                                         THEN Len(throttled[e])
                                         ELSE Len(throttled[e]) - 1
<1>1. active[d] \in Nat /\ throttled[d] \in Seq(Requests)
  BY DEF TypeOK
<1>2. Decreased(d) \in [Domains -> Nat]
  BY <1>1 DEF Decreased, TypeOK
<1>3. throttled[d] # <<>> =>
         /\ Tail(throttled[d]) \in Seq(Requests)
         /\ Len(Tail(throttled[d])) = Len(throttled[d]) - 1
  BY <1>1
<1>4. Shifted(d) \in [Domains -> Seq(Requests)]
  BY <1>1, <1>3 DEF Shifted, TypeOK
<1>5. ASSUME NEW e \in Domains
      PROVE  Decreased(d)[e] = IF e # d \/ active[e] = 0 THEN active[e]
                               ELSE active[e] - 1
  BY <1>1 DEF Decreased, TypeOK
<1>6. ASSUME NEW e \in Domains
      PROVE  Len(Shifted(d)[e]) = IF e # d \/ throttled[e] = <<>>
                                  THEN Len(throttled[e])
                                  ELSE Len(throttled[e]) - 1
  BY <1>1, <1>3 DEF Shifted, TypeOK
<1> QED
  BY <1>2, <1>4, <1>5, <1>6

\* A handler that ends, from upstream or from the waiting list, keeps the
\* invariant: complete_req of lib/mixins/server_handle.js.
LEMMA ReleaseKeepsIInv ==
    ASSUME IInv, NEW r \in Requests, release(r)
    PROVE  IInv'
<1> DEFINE d == url[r]
<1>1. TypeOK /\ OffMeansEmpty /\ QueueMatchesExcess
  BY DEF IInv
<1>2. d \in Domains /\ limit \in Nat
  BY <1>1, LimitsAssumption DEF TypeOK
<1>3. CASE limit = 0
  <2>1. /\ pc' = [pc EXCEPT ![r] = "idle"]
        /\ UNCHANGED <<active, throttled, limit, world, url, aborted, updates>>
    BY <1>3 DEF release
  <2>2. TypeOK'
    BY <1>1, <2>1 DEF TypeOK, TaskState
  <2>3. OffMeansEmpty' /\ QueueMatchesExcess'
    BY <1>1, <2>1, <1>3 DEF OffMeansEmpty, QueueMatchesExcess, Nobody, NoTasks
  <2> QED
    BY <2>2, <2>3 DEF IInv
<1>4. CASE limit > 0
  <2>1. /\ active' = Decreased(d)
        /\ throttled' = Shifted(d)
        /\ pc' \in [Requests -> TaskState]
        /\ UNCHANGED <<limit, world, url, aborted, updates>>
    BY <1>1, <1>2, <1>4 DEF release, TypeOK, TaskState
  <2>2. TypeOK'
    BY <1>1, <1>2, <2>1, ReleaseShape DEF TypeOK
  <2>3. QueueMatchesExcess'
    <3> SUFFICES ASSUME NEW e \in Domains
                 PROVE  Len(throttled'[e]) = IF active'[e] > limit
                                             THEN active'[e] - limit ELSE 0
      BY <2>1 DEF QueueMatchesExcess
    <3>1. active[e] \in Nat /\ throttled[e] \in Seq(Requests)
      BY <1>1 DEF TypeOK
    <3>2. Len(throttled[e]) \in Nat /\ (throttled[e] = <<>> <=> Len(throttled[e]) = 0)
      BY <3>1
    <3>3. Len(throttled[e]) = IF active[e] > limit THEN active[e] - limit ELSE 0
      BY <1>1, <1>4 DEF QueueMatchesExcess
    <3>4. active'[e] = IF e # d \/ active[e] = 0 THEN active[e] ELSE active[e] - 1
      BY <1>1, <1>2, <2>1, ReleaseShape
    <3>5. Len(throttled'[e]) = IF e # d \/ throttled[e] = <<>> THEN Len(throttled[e])
                               ELSE Len(throttled[e]) - 1
      BY <1>1, <1>2, <2>1, ReleaseShape
    <3> QED
      BY <1>2, <1>4, <3>1, <3>2, <3>3, <3>4, <3>5
  <2>4. OffMeansEmpty'
    BY <1>4, <2>1 DEF OffMeansEmpty
  <2> QED
    BY <2>2, <2>3, <2>4 DEF IInv
<1> QED
  BY <1>2, <1>3, <1>4

\* An arriving request is counted, and listed exactly when that makes it one
\* too many: throttle of lib/throttle_mgr.js.
LEMMA ArriveKeepsIInv ==
    ASSUME IInv, NEW r \in Requests, NEW d \in Domains, Arrive(r, d)
    PROVE  IInv'
<1>1. TypeOK /\ OffMeansEmpty /\ QueueMatchesExcess
  BY DEF IInv
<1>2. /\ limit \in Nat
      /\ active[d] \in Nat
      /\ throttled[d] \in Seq(Requests)
  BY <1>1, LimitsAssumption DEF TypeOK
<1>3. /\ UNCHANGED <<limit, world, updates>>
      /\ url' \in [Requests -> Domains]
      /\ aborted' \in [Requests -> BOOLEAN]
      /\ pc' \in [Requests -> TaskState]
  BY <1>1 DEF Arrive, TypeOK, TaskState
<1>4. CASE limit = 0 /\ UNCHANGED <<active, throttled>>
  <2>1. TypeOK'
    BY <1>1, <1>3, <1>4 DEF TypeOK
  <2>2. OffMeansEmpty' /\ QueueMatchesExcess'
    BY <1>1, <1>3, <1>4 DEF OffMeansEmpty, QueueMatchesExcess, Nobody, NoTasks
  <2> QED
    BY <2>1, <2>2 DEF IInv
<1>5. CASE /\ limit > 0
           /\ active' = Increased(d)
           /\ \/ MustWait(d) /\ throttled' = Enlisted(d, r)
              \/ ~MustWait(d) /\ UNCHANGED throttled
  <2>1. /\ active' \in [Domains -> Nat]
        /\ \A e \in Domains : active'[e] = IF e = d THEN active[e] + 1 ELSE active[e]
    BY <1>1, <1>2, <1>5 DEF Increased, TypeOK
  <2>2. MustWait(d) <=> active[d] + 1 > limit
    BY <1>1, <1>2 DEF MustWait, Increased, TypeOK
  <2>3. /\ throttled' \in [Domains -> Seq(Requests)]
        /\ \A e \in Domains :
              Len(throttled'[e]) = IF e = d /\ MustWait(d)
                                   THEN Len(throttled[e]) + 1 ELSE Len(throttled[e])
    <3>1. /\ Append(throttled[d], r) \in Seq(Requests)
          /\ Len(Append(throttled[d], r)) = Len(throttled[d]) + 1
      BY <1>2
    <3>2. throttled \in [Domains -> Seq(Requests)]
      BY <1>1 DEF TypeOK
    <3>3. CASE MustWait(d) /\ throttled' = Enlisted(d, r)
      BY <3>1, <3>2, <3>3 DEF Enlisted
    <3>4. CASE ~MustWait(d) /\ UNCHANGED throttled
      BY <3>2, <3>4
    <3> QED
      BY <1>5, <3>3, <3>4
  <2>4. TypeOK'
    BY <1>1, <1>3, <2>1, <2>3 DEF TypeOK
  <2>5. QueueMatchesExcess'
    <3> SUFFICES ASSUME NEW e \in Domains
                 PROVE  Len(throttled'[e]) = IF active'[e] > limit
                                             THEN active'[e] - limit ELSE 0
      BY <1>3 DEF QueueMatchesExcess
    <3>1. active[e] \in Nat
      BY <1>1 DEF TypeOK
    <3>2. Len(throttled[e]) = IF active[e] > limit THEN active[e] - limit ELSE 0
      BY <1>1, <1>5 DEF QueueMatchesExcess
    <3>3. limit \in Nat /\ limit' = limit
      BY <1>2, <1>3
    <3>4. CASE e # d
      BY <2>1, <2>3, <3>2, <3>4
    <3>5. CASE e = d /\ MustWait(d)
      <4>1. active'[e] = active[e] + 1 /\ active[e] + 1 > limit
        BY <2>1, <2>2, <3>5
      <4>2. Len(throttled'[e]) = Len(throttled[e]) + 1
        BY <2>3, <3>5
      <4> QED
        BY <3>1, <3>2, <3>3, <4>1, <4>2
    <3>6. CASE e = d /\ ~MustWait(d)
      <4>1. active'[e] = active[e] + 1 /\ ~(active[e] + 1 > limit)
        BY <2>1, <2>2, <3>6
      <4>2. Len(throttled'[e]) = Len(throttled[e])
        BY <2>3, <3>6
      <4> QED
        BY <3>1, <3>2, <3>3, <4>1, <4>2
    <3> QED
      BY <3>4, <3>5, <3>6
  <2>6. OffMeansEmpty'
    BY <1>3, <1>5 DEF OffMeansEmpty
  <2> QED
    BY <2>4, <2>5, <2>6 DEF IInv
<1> QED
  BY <1>4, <1>5 DEF Arrive

\* It holds at the start.
LEMMA InitIInv == Init => IInv
<1> SUFFICES ASSUME Init PROVE IInv
  OBVIOUS
<1>1. active \in [Domains -> Nat] /\ throttled \in [Domains -> Seq(Requests)]
  BY DEF Init, Nobody, NoTasks
<1>a. limit \in Limits
  BY WorldsAssumption DEF Init, World
<1>2. TypeOK
  BY <1>1, <1>a DEF Init, TypeOK, TaskState
<1>3. OffMeansEmpty
  BY DEF Init, OffMeansEmpty
<1>4. QueueMatchesExcess
  BY <1>a, LimitsAssumption DEF Init, QueueMatchesExcess, Nobody, NoTasks
<1> QED
  BY <1>2, <1>3, <1>4 DEF IInv

\* Every step keeps it.
LEMMA StepIInv == IInv /\ [Next]_vars => IInv'
<1> SUFFICES ASSUME IInv, [Next]_vars PROVE IInv'
  OBVIOUS
<1>1. TypeOK /\ OffMeansEmpty /\ QueueMatchesExcess
  BY DEF IInv
<1>2. ASSUME NEW r \in Requests, NEW d \in Domains, Arrive(r, d)
      PROVE  IInv'
  BY <1>2, ArriveKeepsIInv
<1>3. ASSUME NEW r \in Requests, NEW d \in Domains, Redirect(r, d)
      PROVE  IInv'
  BY <1>1, <1>3 DEF Redirect, IInv, TypeOK, OffMeansEmpty, QueueMatchesExcess,
     Nobody, NoTasks
<1>4. ASSUME NEW r \in Requests, Complete(r) \/ Abandon(r)
      PROVE  IInv'
  BY <1>4, ReleaseKeepsIInv DEF Complete, Abandon
<1>5. ASSUME NEW r \in Requests, Abort(r)
      PROVE  IInv'
  BY <1>1, <1>5 DEF Abort, IInv, TypeOK, OffMeansEmpty, QueueMatchesExcess,
     Nobody, NoTasks
<1>6. ASSUME NEW l \in Limits, Update(l)
      PROVE  IInv'
  <2>1. /\ limit' = l /\ active' = Nobody /\ throttled' = NoTasks
        /\ updates' = updates + 1
        /\ UNCHANGED <<world, url, aborted>>
        /\ pc' \in [Requests -> TaskState]
    BY <1>1, <1>6 DEF Update, TypeOK, TaskState
  <2>2. Nobody \in [Domains -> Nat] /\ NoTasks \in [Domains -> Seq(Requests)]
    BY DEF Nobody, NoTasks
  <2>3. TypeOK'
    BY <1>1, <2>1, <2>2 DEF TypeOK
  <2>4. OffMeansEmpty'
    BY <2>1 DEF OffMeansEmpty, Nobody, NoTasks
  <2>5. QueueMatchesExcess'
    BY <2>1, LimitsAssumption DEF QueueMatchesExcess, Nobody, NoTasks
  <2> QED
    BY <2>3, <2>4, <2>5 DEF IInv
<1>7. CASE UNCHANGED vars
  BY <1>1, <1>7 DEF vars, IInv, TypeOK, OffMeansEmpty, QueueMatchesExcess,
     Nobody, NoTasks
<1> QED
  BY <1>2, <1>3, <1>4, <1>5, <1>6, <1>7 DEF Next

\* Type correctness of the throttle in every reachable state.
THEOREM TypeCorrect == Spec => []TypeOK
<1>1. IInv => TypeOK
  BY DEF IInv
<1> QED
  BY InitIInv, StepIInv, <1>1, PTL DEF Spec

\* For every number of requests, domains, limits and updates, with aborts and
\* redirects, the waiting list of a domain holds exactly the requests counted
\* above the limit: throttle() and release() of lib/throttle_mgr.js agree.
THEOREM WaitingListIsExcess == Spec => []QueueMatchesExcess
<1>1. IInv => QueueMatchesExcess
  BY DEF IInv
<1> QED
  BY InitIInv, StepIInv, <1>1, PTL DEF Spec

-----------------------------------------------------------------------------
(***************************************************************************)
(* A live waiting task is always found by the release of its domain.       *)
(***************************************************************************)

InList(r, s) == \E i \in DOMAIN s : s[i] = r

\* The property in these words.
LEMMA WaitersAlt ==
    WaitersAreListed <=> \A r \in Requests : CanContinue(r) => InList(r, throttled[url[r]])
BY DEF WaitersAreListed, InList

\* Who is in a list stays there when another task is appended, ...
LEMMA InAppend ==
    ASSUME NEW s \in Seq(Requests), NEW q \in Requests, NEW r \in Requests
    PROVE  /\ InList(q, Append(s, q))
           /\ InList(r, s) => InList(r, Append(s, q))
<1>1. /\ Append(s, q) \in Seq(Requests)
      /\ Len(Append(s, q)) = Len(s) + 1
      /\ Append(s, q)[Len(s) + 1] = q
      /\ \A i \in 1 .. Len(s) : Append(s, q)[i] = s[i]
  OBVIOUS
<1>2. DOMAIN s = 1 .. Len(s) /\ DOMAIN Append(s, q) = 1 .. Len(s) + 1 /\ Len(s) \in Nat
  BY <1>1
<1>3. Len(s) + 1 \in DOMAIN Append(s, q)
  BY <1>2
<1>4. InList(q, Append(s, q))
  BY <1>1, <1>3 DEF InList
<1>5. ASSUME InList(r, s) PROVE InList(r, Append(s, q))
  <2>1. PICK i \in 1 .. Len(s) : s[i] = r
    BY <1>2, <1>5 DEF InList
  <2>2. i \in DOMAIN Append(s, q) /\ Append(s, q)[i] = r
    BY <1>1, <1>2, <2>1
  <2> QED
    BY <2>2 DEF InList
<1> QED
  BY <1>4, <1>5

\* ... and when the head, another one, is shifted out.
LEMMA InTail ==
    ASSUME NEW s \in Seq(Requests), s # <<>>, NEW r \in Requests,
           InList(r, s), r # Head(s)
    PROVE  InList(r, Tail(s))
<1>1. /\ Len(s) \in Nat /\ Len(s) > 0
      /\ DOMAIN s = 1 .. Len(s)
      /\ DOMAIN Tail(s) = 1 .. Len(s) - 1
      /\ \A i \in 1 .. Len(s) - 1 : Tail(s)[i] = s[i + 1]
      /\ Head(s) = s[1]
  OBVIOUS
<1>2. PICK i \in 1 .. Len(s) : s[i] = r
  BY <1>1 DEF InList
<1>3. i # 1
  BY <1>1, <1>2
<1>4. i - 1 \in 1 .. Len(s) - 1
  BY <1>1, <1>2, <1>3
<1>5. Tail(s)[i - 1] = r
  <2>1. Tail(s)[i - 1] = s[(i - 1) + 1]
    BY <1>1, <1>4
  <2>2. (i - 1) + 1 = i
    BY <1>1, <1>2
  <2> QED
    BY <1>2, <2>1, <2>2
<1> QED
  BY <1>1, <1>4, <1>5 DEF InList

\* A release continues the head of its list if it is alive; everybody else
\* keeps the place.
LEMMA ReleaseKeepsWaiters ==
    ASSUME IInv, WaitersAreListed, NEW q \in Requests, release(q)
    PROVE  WaitersAreListed'
<1> DEFINE d == url[q]
<1>1. TypeOK /\ OffMeansEmpty /\ d \in Domains /\ limit \in Nat
  BY LimitsAssumption DEF IInv, TypeOK
<1> SUFFICES ASSUME NEW r \in Requests, CanContinue(r)'
             PROVE  InList(r, throttled'[url[r]])
  BY WaitersAlt, <1>1 DEF WaitersAreListed, InList, release
<1>2. pc'[r] = "queued" /\ ~aborted[r]
  BY DEF CanContinue, release
<1>3. r # q /\ pc[r] = "queued"
  BY <1>1, <1>2 DEF release, TypeOK
<1>4. CanContinue(r) /\ InList(r, throttled[url[r]]) /\ url[r] \in Domains
  BY <1>1, <1>2, <1>3, WaitersAlt DEF CanContinue, TypeOK
<1>5. CASE limit = 0
  BY <1>4, <1>5 DEF release
<1>6. CASE limit > 0
  <2>1. throttled' = Shifted(d)
    BY <1>1, <1>6 DEF release
  <2>2. ~IsContinued(d, r)
    BY <1>1, <1>2, <1>3, <1>6 DEF release, TypeOK
  <2>3. throttled[d] \in Seq(Requests)
    BY <1>1 DEF TypeOK
  <2>4. CASE url[r] # d \/ throttled[d] = <<>>
    BY <1>1, <1>4, <2>1, <2>4 DEF Shifted, TypeOK
  <2>5. CASE url[r] = d /\ throttled[d] # <<>>
    <3>1. r # Head(throttled[d])
      BY <1>4, <2>2, <2>5 DEF IsContinued
    <3>2. throttled'[d] = Tail(throttled[d])
      BY <1>1, <2>1, <2>5 DEF Shifted, TypeOK
    <3> QED
      BY <1>4, <2>3, <2>5, <3>1, <3>2, InTail
  <2> QED
    BY <2>4, <2>5
<1> QED
  BY <1>1, <1>5, <1>6

\* An arriving task that has to wait is appended to the list of its domain.
LEMMA ArriveKeepsWaiters ==
    ASSUME IInv, WaitersAreListed, NEW q \in Requests, NEW d \in Domains, Arrive(q, d)
    PROVE  WaitersAreListed'
<1>1. TypeOK
  BY DEF IInv
<1>2. /\ url' = [url EXCEPT ![q] = d] /\ url' \in [Requests -> Domains]
      /\ aborted' = [aborted EXCEPT ![q] = FALSE]
  BY <1>1 DEF Arrive, TypeOK
<1> SUFFICES ASSUME NEW r \in Requests, CanContinue(r)'
             PROVE  InList(r, throttled'[url'[r]])
  BY DEF WaitersAreListed, InList
<1>3. pc'[r] = "queued" /\ ~aborted'[r]
  BY DEF CanContinue
<1>4. CASE r = q
  <2>1. throttled' = Enlisted(d, q) /\ url'[q] = d
    BY <1>1, <1>2, <1>3, <1>4 DEF Arrive, TypeOK
  <2>2. throttled'[d] = Append(throttled[d], q) /\ throttled[d] \in Seq(Requests)
    BY <1>1, <2>1 DEF Enlisted, TypeOK
  <2> QED
    BY <1>4, <2>1, <2>2, InAppend
<1>5. CASE r # q
  <2>1. pc[r] = "queued" /\ ~aborted[r] /\ url'[r] = url[r]
    BY <1>1, <1>2, <1>3, <1>5 DEF Arrive, TypeOK
  <2>2. InList(r, throttled[url[r]]) /\ url[r] \in Domains
    BY <1>1, <2>1, WaitersAlt DEF CanContinue, TypeOK
  <2>3. throttled[url[r]] \in Seq(Requests)
    BY <1>1, <2>2 DEF TypeOK
  <2>4. CASE UNCHANGED throttled
    BY <2>1, <2>2, <2>4
  <2>5. CASE throttled' = Enlisted(d, q)
    <3>1. throttled'[url[r]] = IF url[r] = d THEN Append(throttled[url[r]], q)
                               ELSE throttled[url[r]]
      BY <1>1, <2>2, <2>5 DEF Enlisted, TypeOK
    <3> QED
      BY <2>1, <2>2, <2>3, <3>1, InAppend
  <2> QED
    BY <2>4, <2>5 DEF Arrive
<1> QED
  BY <1>4, <1>5

\* Every step keeps those who wait on their lists.
LEMMA StepWaiters == IInv /\ WaitersAreListed /\ [Next]_vars => WaitersAreListed'
<1> SUFFICES ASSUME IInv, WaitersAreListed, [Next]_vars PROVE WaitersAreListed'
  OBVIOUS
<1>1. TypeOK
  BY DEF IInv
<1>2. ASSUME NEW r \in Requests, NEW d \in Domains, Arrive(r, d)
      PROVE  WaitersAreListed'
  BY <1>2, ArriveKeepsWaiters
<1>3. ASSUME NEW r \in Requests, NEW d \in Domains, Redirect(r, d)
      PROVE  WaitersAreListed'
  BY <1>1, <1>3 DEF Redirect, WaitersAreListed, CanContinue, TypeOK
<1>4. ASSUME NEW r \in Requests, Complete(r) \/ Abandon(r)
      PROVE  WaitersAreListed'
  BY <1>4, ReleaseKeepsWaiters DEF Complete, Abandon
<1>5. ASSUME NEW r \in Requests, Abort(r)
      PROVE  WaitersAreListed'
  BY <1>1, <1>5 DEF Abort, WaitersAreListed, CanContinue, TypeOK
<1>6. ASSUME NEW l \in Limits, Update(l)
      PROVE  WaitersAreListed'
  <2> SUFFICES ASSUME NEW r \in Requests, CanContinue(r)' PROVE FALSE
    BY DEF WaitersAreListed
  <2>1. pc'[r] = "queued" /\ ~aborted[r]
    BY <1>6 DEF CanContinue, Update
  <2>2. pc[r] = "queued" /\ ~(Listed(r) /\ CanContinue(r))
    BY <1>1, <1>6, <2>1 DEF Update, TypeOK
  <2>3. Listed(r) /\ CanContinue(r)
    BY <1>1, <2>1, <2>2 DEF CanContinue, WaitersAreListed, Listed, TypeOK
  <2> QED
    BY <2>2, <2>3
<1>7. CASE UNCHANGED vars
  BY <1>7 DEF vars, WaitersAreListed, CanContinue
<1> QED
  BY <1>2, <1>3, <1>4, <1>5, <1>6, <1>7 DEF Next

\* No live task is ever forgotten in the throttle, whatever is aborted,
\* redirected or reconfigured: it is in the very list that a release for its
\* domain looks into.  The step uses IInv, of which only the types matter.
THEOREM WaitersListed == Spec => []WaitersAreListed
<1>1. Init => WaitersAreListed
  BY DEF Init, WaitersAreListed, CanContinue
<1> QED
  BY InitIInv, StepIInv, StepWaiters, <1>1, PTL DEF Spec

-----------------------------------------------------------------------------
(***************************************************************************)
(* The count of a domain is backed by requests that will release it.       *)
(***************************************************************************)

\* Both numbers are numbers: there are finitely many handler tasks.
LEMMA InFlightFinite ==
    ASSUME NEW d \in Domains
    PROVE  IsFiniteSet(InFlight(d)) /\ Cardinality(InFlight(d)) \in Nat
<1>1. InFlight(d) \subseteq Requests
  BY DEF InFlight
<1>2. IsFiniteSet(InFlight(d))
  BY <1>1, RequestsAssumption, FS_Subset
<1> QED
  BY <1>2, FS_CardinalityType

\* Who arrives is one more request in flight.
LEMMA ArriveKeepsCharges ==
    ASSUME IInv, NoPhantomRequests, NEW q \in Requests, NEW e \in Domains, Arrive(q, e)
    PROVE  NoPhantomRequests'
<1>1. TypeOK
  BY DEF IInv
<1> SUFFICES ASSUME ~world.follow, NEW d \in Domains
             PROVE  active'[d] <= Cardinality(InFlight(d)')
  BY DEF NoPhantomRequests, Arrive
<1>2. pc[q] = "idle" /\ pc'[q] # "idle" /\ url'[q] = e
  BY <1>1 DEF Arrive, TypeOK
<1>3. \A r \in Requests \ {q} : pc'[r] = pc[r] /\ url'[r] = url[r]
  BY <1>1 DEF Arrive, TypeOK
<1>4. InFlight(d)' = IF d = e THEN InFlight(d) \union {q} ELSE InFlight(d)
  BY <1>2, <1>3 DEF InFlight
<1>5. q \notin InFlight(d)
  BY <1>2 DEF InFlight
<1>6. active[d] \in Nat /\ active[d] <= Cardinality(InFlight(d))
  BY <1>1 DEF NoPhantomRequests, TypeOK
<1>7. active'[d] = active[d] \/ (d = e /\ active'[d] = active[d] + 1)
  BY <1>1 DEF Arrive, Increased, TypeOK
<1>8. Cardinality(InFlight(d) \union {q}) = Cardinality(InFlight(d)) + 1
  BY <1>5, InFlightFinite, FS_AddElement
<1>9. CASE d = e
  BY <1>4, <1>6, <1>7, <1>8, <1>9, InFlightFinite
<1>10. CASE d # e
  BY <1>4, <1>6, <1>7, <1>10
<1> QED
  BY <1>9, <1>10

\* Who leaves takes its charge along; the one that is continued stays.
LEMMA ReleaseKeepsCharges ==
    ASSUME IInv, NoPhantomRequests, NEW q \in Requests, pc[q] # "idle", release(q)
    PROVE  NoPhantomRequests'
<1>1. TypeOK /\ OffMeansEmpty /\ limit \in Nat
  BY LimitsAssumption DEF IInv, TypeOK
<1> SUFFICES ASSUME ~world.follow, NEW d \in Domains
             PROVE  active'[d] <= Cardinality(InFlight(d)')
  BY DEF NoPhantomRequests, release
<1>2. url' = url /\ pc'[q] = "idle"
  BY <1>1 DEF release, TypeOK
<1>3. \A r \in Requests \ {q} : pc'[r] = "idle" <=> pc[r] = "idle"
  BY <1>1 DEF release, IsContinued, CanContinue, TypeOK
<1>4. InFlight(d)' = InFlight(d) \ {q}
  BY <1>2, <1>3 DEF InFlight
<1>5. q \in InFlight(d) <=> url[q] = d
  BY DEF InFlight
<1>6. active[d] \in Nat /\ active[d] <= Cardinality(InFlight(d))
  BY <1>1 DEF NoPhantomRequests, TypeOK
<1>7. CASE url[q] # d
  <2>1. InFlight(d)' = InFlight(d)
    BY <1>4, <1>5, <1>7
  <2>2. active'[d] = active[d]
    BY <1>1, <1>7 DEF release, Decreased, TypeOK
  <2> QED
    BY <1>6, <2>1, <2>2
<1>8. CASE url[q] = d
  <2>1. Cardinality(InFlight(d)') = Cardinality(InFlight(d)) - 1
    BY <1>4, <1>5, <1>8, InFlightFinite, FS_RemoveElement
  <2>2. Cardinality(InFlight(d)) \in Nat \ {0}
    BY <1>5, <1>8, InFlightFinite, FS_EmptySet
  <2>3. CASE limit = 0
    <3>1. active'[d] = 0
      BY <1>1, <2>3 DEF release, OffMeansEmpty, Nobody
    <3> QED
      BY <2>1, <2>2, <3>1
  <2>4. CASE limit > 0
    <3>1. active'[d] = IF active[d] = 0 THEN 0 ELSE active[d] - 1
      BY <1>1, <1>8, <2>4 DEF release, Decreased, TypeOK
    <3> QED
      BY <1>6, <2>1, <2>2, <3>1
  <2> QED
    BY <1>1, <2>3, <2>4
<1> QED
  BY <1>7, <1>8

\* Every step keeps the charges backed.
LEMMA StepCharges == IInv /\ NoPhantomRequests /\ [Next]_vars => NoPhantomRequests'
<1> SUFFICES ASSUME IInv, NoPhantomRequests, [Next]_vars PROVE NoPhantomRequests'
  OBVIOUS
<1>1. TypeOK
  BY DEF IInv
<1>2. ASSUME NEW r \in Requests, NEW d \in Domains, Arrive(r, d)
      PROVE  NoPhantomRequests'
  BY <1>2, ArriveKeepsCharges
<1>3. ASSUME NEW r \in Requests, NEW d \in Domains, Redirect(r, d)
      PROVE  NoPhantomRequests'
  BY <1>3 DEF Redirect, NoPhantomRequests
<1>4. ASSUME NEW r \in Requests, Complete(r) \/ Abandon(r)
      PROVE  NoPhantomRequests'
  BY <1>4, ReleaseKeepsCharges DEF Complete, Abandon
<1>5. ASSUME NEW r \in Requests, Abort(r)
      PROVE  NoPhantomRequests'
  BY <1>5 DEF Abort, NoPhantomRequests, InFlight
<1>6. ASSUME NEW l \in Limits, Update(l)
      PROVE  NoPhantomRequests'
  <2> SUFFICES ASSUME NEW d \in Domains PROVE active'[d] <= Cardinality(InFlight(d)')
    BY DEF NoPhantomRequests
  <2>1. active'[d] = 0
    BY <1>6 DEF Update, Nobody
  <2>2. InFlight(d)' \subseteq Requests
    BY DEF InFlight
  <2>3. Cardinality(InFlight(d)') \in Nat
    BY <2>2, RequestsAssumption, FS_Subset, FS_CardinalityType
  <2> QED
    BY <2>1, <2>3
<1>7. CASE UNCHANGED vars
  BY <1>7 DEF vars, NoPhantomRequests, InFlight
<1> QED
  BY <1>2, <1>3, <1>4, <1>5, <1>6, <1>7 DEF Next

\* Where no redirect is followed, no domain stays charged for a request that is
\* gone: complete_req of lib/mixins/server_handle.js releases what handler took,
\* also for clients that gave up and across changes of the limit.
THEOREM ChargesAreBacked == Spec => []NoPhantomRequests
<1>1. Init => NoPhantomRequests
  <2> SUFFICES ASSUME Init, NEW d \in Domains
               PROVE  active[d] <= Cardinality(InFlight(d))
    BY DEF NoPhantomRequests
  <2>1. active[d] = 0
    BY DEF Init, Nobody
  <2> QED
    BY <2>1, InFlightFinite
<1> QED
  BY InitIInv, StepIInv, StepCharges, <1>1, PTL DEF Spec

-----------------------------------------------------------------------------
(***************************************************************************)
(* Left alone, the throttle is a semaphore per domain.                     *)
(***************************************************************************)

\* Who is listed waits, for this domain, and once; the places are taken by as
\* many as are counted, up to the limit.
WaitingInLine == \A d \in Domains : \A i \in DOMAIN throttled[d] :
                    pc[throttled[d][i]] = "queued" /\ url[throttled[d][i]] = d
ListedOnce == \A d \in Domains : Distinct(throttled[d])
PlacesTaken == \A d \in Domains :
                  Cardinality(Running(d)) = IF active[d] < limit THEN active[d] ELSE limit
LeftAlone == Throttling => /\ \A r \in Requests : ~aborted[r]
                           /\ WaitingInLine /\ ListedOnce /\ PlacesTaken

\* There are finitely many requests upstream.
LEMMA RunningFinite ==
    \A d : IsFiniteSet(Running(d)) /\ Cardinality(Running(d)) \in Nat
<1> SUFFICES ASSUME NEW d PROVE IsFiniteSet(Running(d)) /\ Cardinality(Running(d)) \in Nat
  OBVIOUS
<1>1. Running(d) \subseteq Requests
  BY DEF Running
<1>2. IsFiniteSet(Running(d))
  BY <1>1, RequestsAssumption, FS_Subset
<1> QED
  BY <1>2, FS_CardinalityType

\* Whether the port is left alone, with a limit, does not change.
LEMMA CalmStays ==
    ASSUME IInv, [Next]_vars
    PROVE  /\ Throttling' <=> Throttling
           /\ Throttling => limit' = limit /\ limit \in Nat \ {0}
<1>1. /\ limit \in Nat /\ updates \in Nat /\ world \in World
      /\ world.updates \in Nat
  BY LimitsAssumption, WorldsAssumption DEF IInv, TypeOK, World
<1>2. CASE world' = world /\ limit' = limit
  BY <1>1, <1>2 DEF Throttling, Calm
<1>3. ASSUME NEW l \in Limits, Update(l)
      PROVE  world' = world /\ world.updates # 0
  BY <1>1, <1>3 DEF Update
<1>4. (world' = world /\ limit' = limit) \/ \E l \in Limits : Update(l)
  BY DEF Next, vars, Arrive, Redirect, Complete, Abort, Abandon, release
<1>5. CASE \E l \in Limits : Update(l)
  BY <1>3, <1>5 DEF Throttling, Calm
<1> QED
  BY <1>2, <1>4, <1>5

\* The steps of a port that is left alone are arrivals and completions.
LEMMA CalmSteps ==
    ASSUME IInv, LeftAlone, Throttling, [Next]_vars
    PROVE  \/ \E r \in Requests, d \in Domains : Arrive(r, d)
           \/ \E r \in Requests : Complete(r)
           \/ UNCHANGED vars
<1>1. updates \in Nat /\ world.updates = 0 /\ ~world.aborts /\ ~world.follow
  BY DEF IInv, TypeOK, Throttling, Calm
<1>2. \A r \in Requests : ~Abort(r) /\ ~Abandon(r)
  BY <1>1 DEF LeftAlone, Abort, Abandon
<1>3. \A r \in Requests, d \in Domains : ~Redirect(r, d)
  BY <1>1 DEF Redirect
<1>4. \A l \in Limits : ~Update(l)
  BY <1>1 DEF Update
<1> QED
  BY <1>2, <1>3, <1>4 DEF Next

\* What an arrival does to the places and the list of its domain.
LEMMA CalmArrive ==
    ASSUME IInv, LeftAlone, Throttling, NEW r \in Requests, NEW d \in Domains, Arrive(r, d)
    PROVE  /\ LeftAlone'
           /\ \/ /\ Cardinality(Running(d)) < limit /\ throttled' = throttled
                 /\ \A e \in Domains :
                      Running(e)' = IF e = d THEN Running(d) \cup {r} ELSE Running(e)
              \/ /\ ~(Cardinality(Running(d)) < limit)
                 /\ throttled' = [throttled EXCEPT ![d] = Append(@, r)]
                 /\ \A e \in Domains : Running(e)' = Running(e)
<1>1. /\ TypeOK /\ limit \in Nat \ {0} /\ limit > 0
      /\ \A q \in Requests : ~aborted[q]
      /\ WaitingInLine /\ ListedOnce /\ PlacesTaken
  BY LimitsAssumption DEF IInv, TypeOK, LeftAlone, Throttling
<1>2. /\ active \in [Domains -> Nat] /\ throttled \in [Domains -> Seq(Requests)]
      /\ pc \in [Requests -> TaskState] /\ url \in [Requests -> Domains]
      /\ aborted \in [Requests -> BOOLEAN]
  BY <1>1 DEF TypeOK
<1>3. /\ pc[r] = "idle" /\ ~Listed(r) /\ limit' = limit
      /\ url' = [url EXCEPT ![r] = d] /\ aborted' = [aborted EXCEPT ![r] = FALSE]
      /\ active' = Increased(d)
      /\ \/ /\ MustWait(d) /\ pc' = [pc EXCEPT ![r] = "queued"]
            /\ throttled' = Enlisted(d, r)
         \/ /\ ~MustWait(d) /\ pc' = [pc EXCEPT ![r] = "running"]
            /\ throttled' = throttled
  BY <1>1 DEF Arrive
<1>4. /\ \A q \in Requests : url'[q] = IF q = r THEN d ELSE url[q]
      /\ \A q \in Requests \ {r} : pc'[q] = pc[q]
      /\ pc'[r] = IF MustWait(d) THEN "queued" ELSE "running"
      /\ \A q \in Requests : ~aborted'[q]
  BY <1>1, <1>2, <1>3
<1>5. \A e \in Domains : active'[e] = IF e = d THEN active[d] + 1 ELSE active[e]
  BY <1>2, <1>3 DEF Increased
<1>6. MustWait(d) <=> ~(active[d] < limit)
  BY <1>1, <1>2 DEF MustWait, Increased
<1>7. Cardinality(Running(d)) < limit <=> active[d] < limit
  BY <1>1, <1>2 DEF PlacesTaken
<1>8. \A e \in Domains : r \notin Running(e)
  BY <1>3 DEF Running
<1>9. \A e \in Domains : \A q \in Requests :
         q \in Running(e)' <=> IF q = r THEN e = d /\ ~MustWait(d) ELSE q \in Running(e)
  BY <1>4 DEF Running
<1>10. \A e \in Domains :
         Running(e)' = IF e = d /\ ~MustWait(d) THEN Running(d) \cup {r} ELSE Running(e)
  <2> SUFFICES ASSUME NEW e \in Domains
               PROVE  Running(e)' = IF e = d /\ ~MustWait(d) THEN Running(d) \cup {r} ELSE Running(e)
    OBVIOUS
  <2>1. Running(e)' \subseteq Requests /\ Running(e) \subseteq Requests /\ Running(d) \subseteq Requests
    BY DEF Running
  <2> QED
    BY <1>8, <1>9, <2>1
<1>11. PlacesTaken'
  <2> SUFFICES ASSUME NEW e \in Domains
               PROVE  Cardinality(Running(e)') = IF active'[e] < limit THEN active'[e] ELSE limit
    BY <1>3 DEF PlacesTaken
  <2>1. Cardinality(Running(e)) = IF active[e] < limit THEN active[e] ELSE limit
    BY <1>1 DEF PlacesTaken
  <2>2. active[e] \in Nat /\ limit \in Nat
    BY <1>1, <1>2
  <2>3. CASE e = d /\ ~MustWait(d)
    <3>1. Cardinality(Running(d) \cup {r}) = Cardinality(Running(d)) + 1
      BY <1>8, RunningFinite, FS_AddElement
    <3> QED
      <4>1. Cardinality(Running(d)') = Cardinality(Running(d)) + 1 /\ active'[d] = active[d] + 1
        BY <1>5, <1>10, <2>3, <3>1
      <4>2. active[d] < limit
        BY <1>6, <2>3
      <4> QED
        BY <4>1, <4>2, <2>1, <2>2, <2>3
  <2>4. CASE e = d /\ MustWait(d)
    BY <1>5, <1>6, <1>10, <2>1, <2>2, <2>4
  <2>5. CASE e # d
    BY <1>5, <1>10, <2>1, <2>5
  <2> QED
    BY <2>3, <2>4, <2>5
<1>12. ASSUME MustWait(d)
       PROVE  throttled' = [throttled EXCEPT ![d] = Append(@, r)] /\ WaitingInLine' /\ ListedOnce'
  <2> DEFINE s == throttled[d]
  <2>1. throttled' = [throttled EXCEPT ![d] = Append(@, r)]
    BY <1>3, <1>12 DEF Enlisted
  <2>2. /\ s \in Seq(Requests)
        /\ \A e \in Domains : throttled'[e] = IF e = d THEN Append(s, r) ELSE throttled[e]
    BY <1>2, <2>1
  <2>3. /\ Len(s) \in Nat /\ DOMAIN s = 1 .. Len(s) /\ DOMAIN Append(s, r) = 1 .. Len(s) + 1
        /\ Append(s, r)[Len(s) + 1] = r
        /\ \A i \in 1 .. Len(s) : Append(s, r)[i] = s[i]
    BY <2>2, AppendShape
  <2>4. \A e \in Domains : \A i \in DOMAIN throttled[e] :
          /\ throttled[e][i] # r /\ throttled[e][i] \in Requests
          /\ pc[throttled[e][i]] = "queued" /\ url[throttled[e][i]] = e
    BY <1>1, <1>2, <1>3 DEF Listed, WaitingInLine
  <2> HIDE DEF s
  <2>5. WaitingInLine'
    <3> SUFFICES ASSUME NEW e \in Domains, NEW i \in DOMAIN throttled'[e]
                 PROVE  pc'[throttled'[e][i]] = "queued" /\ url'[throttled'[e][i]] = e
      BY DEF WaitingInLine
    <3>1. CASE e = d /\ i = Len(s) + 1
      BY <1>4, <1>12, <2>2, <2>3, <3>1
    <3>2. CASE ~(e = d /\ i = Len(s) + 1)
      <4>1. i \in DOMAIN throttled[e] /\ throttled'[e][i] = throttled[e][i]
        <5>1. CASE e = d
          <6>1. i \in 1 .. Len(s) + 1 /\ i # Len(s) + 1
            BY <2>2, <2>3, <3>2, <5>1
          <6>2. i \in 1 .. Len(s)
            BY <6>1, <2>3
          <6>3. throttled'[e] = Append(s, r)
            BY <2>2, <5>1
          <6>4. throttled'[e][i] = s[i]
            BY <6>2, <6>3, <2>3
          <6> QED
            BY <6>2, <6>4, <2>3, <5>1 DEF s
        <5>2. CASE e # d
          BY <2>2, <5>2
        <5> QED
          BY <5>1, <5>2
      <4> QED
        BY <4>1, <2>4, <1>4
    <3> QED
      BY <3>1, <3>2
  <2>6. Distinct(s) /\ \A i \in 1 .. Len(s) : s[i] # r
    BY <1>1, <2>3, <2>4 DEF ListedOnce, s
  <2>7. Distinct(Append(s, r))
    <3> SUFFICES ASSUME NEW i \in 1 .. Len(s) + 1, NEW j \in 1 .. Len(s) + 1,
                        Append(s, r)[i] = Append(s, r)[j]
                 PROVE  i = j
      BY <2>3 DEF Distinct
    <3>1. CASE i \in 1 .. Len(s) /\ j \in 1 .. Len(s)
      BY <2>3, <2>6, <3>1 DEF Distinct
    <3>2. CASE i = Len(s) + 1 \/ j = Len(s) + 1
      BY <2>3, <2>6, <3>2
    <3> QED
      BY <2>3, <3>1, <3>2
  <2>8. ListedOnce'
    BY <1>1, <2>2, <2>7 DEF ListedOnce
  <2> QED
    BY <2>1, <2>5, <2>8
<1>13. ASSUME ~MustWait(d) PROVE throttled' = throttled /\ WaitingInLine' /\ ListedOnce'
  <2>1. throttled' = throttled
    BY <1>3, <1>13
  <2>2. \A e \in Domains : \A i \in DOMAIN throttled[e] :
          /\ throttled[e][i] # r /\ throttled[e][i] \in Requests
          /\ pc[throttled[e][i]] = "queued" /\ url[throttled[e][i]] = e
    BY <1>1, <1>2, <1>3 DEF Listed, WaitingInLine
  <2>3. WaitingInLine'
    BY <1>4, <2>1, <2>2 DEF WaitingInLine
  <2> QED
    BY <1>1, <2>1, <2>3 DEF ListedOnce
<1>14. LeftAlone'
  BY <1>4, <1>11, <1>12, <1>13 DEF LeftAlone
<1> QED
  BY <1>6, <1>7, <1>10, <1>12, <1>13, <1>14

\* What a completion does to them: its place goes to the head of the list.
LEMMA CalmComplete ==
    ASSUME IInv, LeftAlone, Throttling, NEW r \in Requests, Complete(r),
           NEW d \in Domains, d = url[r]
    PROVE  /\ LeftAlone' /\ r \in Running(d)
           /\ \/ /\ throttled[d] = <<>> /\ throttled' = throttled
                 /\ \A e \in Domains :
                      Running(e)' = IF e = d THEN Running(d) \ {r} ELSE Running(e)
              \/ /\ throttled[d] # <<>>
                 /\ throttled' = [throttled EXCEPT ![d] = Tail(@)]
                 /\ \A e \in Domains :
                      Running(e)' = IF e = d THEN (Running(d) \ {r}) \cup {Head(throttled[d])}
                                    ELSE Running(e)
<1> DEFINE s == throttled[d]
<1>1. /\ TypeOK /\ limit \in Nat \ {0} /\ limit > 0
      /\ \A q \in Requests : ~aborted[q]
      /\ WaitingInLine /\ ListedOnce /\ PlacesTaken /\ QueueMatchesExcess
  BY LimitsAssumption DEF IInv, TypeOK, LeftAlone, Throttling
<1>2. /\ active \in [Domains -> Nat] /\ throttled \in [Domains -> Seq(Requests)]
      /\ pc \in [Requests -> TaskState] /\ url \in [Requests -> Domains] /\ d \in Domains
  BY <1>1 DEF TypeOK
<1>3. /\ pc[r] = "running" /\ active' = Decreased(d) /\ throttled' = Shifted(d)
      /\ pc' = [q \in Requests |-> IF q = r THEN "idle"
                                   ELSE IF IsContinued(d, q) THEN "running" ELSE pc[q]]
      /\ limit' = limit /\ url' = url /\ aborted' = aborted
  BY <1>1 DEF Complete, release
<1>4. r \in Running(d)
  BY <1>3 DEF Running
<1>5. s \in Seq(Requests) /\ active[d] \in Nat /\ limit \in Nat /\ Len(s) \in Nat
  BY <1>1, <1>2
<1>6. Len(s) = IF active[d] > limit THEN active[d] - limit ELSE 0
  BY <1>1, <1>2 DEF QueueMatchesExcess
<1>7. Cardinality(Running(d)) = IF active[d] < limit THEN active[d] ELSE limit
  BY <1>1, <1>2 DEF PlacesTaken
<1>8. Cardinality(Running(d)) \in Nat \ {0}
  BY <1>4, RunningFinite, FS_EmptySet
<1>9. \A e \in Domains : active'[e] = IF e = d THEN active[d] - 1 ELSE active[e]
  <2>1. active[d] # 0
    BY <1>5, <1>7, <1>8, <1>1
  <2> QED
    BY <1>2, <1>3, <2>1 DEF Decreased
<1>10. Cardinality(Running(d) \ {r}) = Cardinality(Running(d)) - 1
  BY <1>4, RunningFinite, FS_RemoveElement
<1>11. \A e \in Domains : \A i \in DOMAIN throttled[e] :
          /\ throttled[e][i] \in Requests
          /\ pc[throttled[e][i]] = "queued" /\ url[throttled[e][i]] = e
  BY <1>1, <1>2 DEF WaitingInLine
<1>12. CASE s = <<>>
  <2>1. throttled' = throttled
    BY <1>2, <1>3, <1>12 DEF Shifted
  <2>2. \A q \in Requests : pc'[q] = IF q = r THEN "idle" ELSE pc[q]
    BY <1>3, <1>12 DEF IsContinued
  <2>3. ASSUME NEW e \in Domains
        PROVE  Running(e)' = IF e = d THEN Running(d) \ {r} ELSE Running(e)
    BY <1>3, <2>2 DEF Running
  <2>4. WaitingInLine'
    BY <1>3, <1>11, <2>1, <2>2 DEF WaitingInLine
  <2>5. PlacesTaken'
    <3>1. active[d] <= limit
      BY <1>5, <1>6, <1>12
    <3>2. Cardinality(Running(d)) = active[d]
      BY <1>5, <1>7, <3>1
    <3>3. active[d] - 1 < limit /\ Cardinality(Running(d)') = active[d] - 1
      <4>1. Running(d)' = Running(d) \ {r}
        BY <1>2, <2>3
      <4>2. Cardinality(Running(d)') = active[d] - 1
        BY <4>1, <1>10, <3>2
      <4> QED
        BY <4>2, <1>5, <3>1
    <3> QED
      BY <1>1, <1>3, <1>9, <2>3, <3>3 DEF PlacesTaken
  <2>6. LeftAlone'
    BY <1>1, <1>3, <2>1, <2>4, <2>5 DEF LeftAlone, ListedOnce
  <2> QED
    BY <1>2, <1>4, <1>12, <2>1, <2>3, <2>6
<1>13. CASE s # <<>>
  <2> DEFINE h == Head(s)
  <2>1. /\ h \in Requests /\ Tail(s) \in Seq(Requests) /\ h = s[1] /\ 1 \in DOMAIN s
        /\ DOMAIN s = 1 .. Len(s) /\ DOMAIN Tail(s) = 1 .. Len(s) - 1
        /\ \A i \in 1 .. Len(s) - 1 : Tail(s)[i] = s[i + 1]
    BY <1>5, <1>13, TailShape
  <2>2. pc[h] = "queued" /\ url[h] = d /\ h # r /\ ~aborted[h]
    BY <1>1, <1>2, <1>3, <1>11, <2>1
  <2>3. throttled' = [throttled EXCEPT ![d] = Tail(@)]
    BY <1>3, <1>13 DEF Shifted
  <2>4. \A e \in Domains : throttled'[e] = IF e = d THEN Tail(s) ELSE throttled[e]
    BY <1>2, <2>3
  <2>5. \A q \in Requests : pc'[q] = IF q = r THEN "idle" ELSE IF q = h THEN "running" ELSE pc[q]
    BY <1>3, <1>13, <2>2 DEF IsContinued, CanContinue
  <2> HIDE DEF h
  <2>6. ASSUME NEW e \in Domains
        PROVE  Running(e)' = IF e = d THEN (Running(d) \ {r}) \cup {h} ELSE Running(e)
    BY <1>3, <2>1, <2>2, <2>5 DEF Running
  <2>7. \A i \in DOMAIN Tail(s) : i + 1 \in DOMAIN s /\ i + 1 # 1 /\ Tail(s)[i] = s[i + 1]
    BY <1>5, <2>1
  <2>8. Distinct(s)
    BY <1>1, <1>2 DEF ListedOnce
  <2>9. \A i \in DOMAIN Tail(s) : Tail(s)[i] # h
    BY <2>1, <2>7, <2>8 DEF Distinct
  <2>10. Distinct(Tail(s))
    <3> SUFFICES ASSUME NEW i \in DOMAIN Tail(s), NEW j \in DOMAIN Tail(s),
                        Tail(s)[i] = Tail(s)[j]
                 PROVE  i = j
      BY DEF Distinct
    <3>1. i + 1 = j + 1
      BY <2>7, <2>8 DEF Distinct
    <3> QED
      BY <3>1, <2>1, <1>5
  <2>11. ListedOnce'
    BY <1>1, <2>4, <2>10 DEF ListedOnce
  <2>12. WaitingInLine'
    <3> SUFFICES ASSUME NEW e \in Domains, NEW i \in DOMAIN throttled'[e]
                 PROVE  pc'[throttled'[e][i]] = "queued" /\ url'[throttled'[e][i]] = e
      BY DEF WaitingInLine
    <3>1. CASE e = d
      <4>1. throttled'[e][i] = s[i + 1] /\ s[i + 1] # h /\ i + 1 \in DOMAIN s
        <5>1. throttled'[e] = Tail(s) /\ i \in DOMAIN Tail(s)
          BY <2>4, <3>1
        <5> QED
          BY <5>1, <2>7, <2>9
      <4> QED
        BY <4>1, <1>2, <1>3, <1>11, <2>5, <3>1
    <3>2. CASE e # d
      <4>1. i \in DOMAIN throttled[e] /\ throttled'[e][i] = throttled[e][i]
        BY <2>4, <3>2
      <4>2. url[throttled[e][i]] = e /\ pc[throttled[e][i]] = "queued" /\ throttled[e][i] \in Requests
        BY <4>1, <1>11
      <4> QED
        BY <4>1, <4>2, <1>3, <2>2, <2>5, <3>2
    <3> QED
      BY <3>1, <3>2
  <2>13. PlacesTaken'
    <3>1. h \notin Running(d) \ {r} /\ IsFiniteSet(Running(d) \ {r})
      BY <2>2, RunningFinite, FS_Subset DEF Running
    <3>2. Cardinality((Running(d) \ {r}) \cup {h}) = Cardinality(Running(d) \ {r}) + 1
      BY <3>1, FS_AddElement
    <3>3. Len(s) # 0
      BY <1>5, <1>13
    <3>4. active[d] > limit /\ Cardinality(Running(d)) = limit
      BY <1>5, <1>6, <1>7, <3>3
    <3>5. Cardinality(Running(d)') = limit /\ ~(active[d] - 1 < limit)
      <4>1. Running(d)' = (Running(d) \ {r}) \cup {h}
        BY <1>2, <2>6
      <4>2. Cardinality(Running(d)') = limit - 1 + 1
        BY <4>1, <1>10, <3>2, <3>4
      <4> QED
        BY <4>2, <1>5, <3>4
    <3> QED
      BY <1>1, <1>3, <1>9, <2>6, <3>5 DEF PlacesTaken
  <2>14. LeftAlone'
    BY <1>1, <1>3, <2>11, <2>12, <2>13 DEF LeftAlone
  <2> QED
    BY <1>2, <1>4, <1>13, <2>3, <2>6, <2>14 DEF h
<1> QED
  BY <1>12, <1>13

\* Initially nobody is there.
LEMMA InitLeftAlone == Init => LeftAlone
<1> SUFFICES ASSUME Init PROVE LeftAlone
  OBVIOUS
<1>1. limit \in Nat
  BY LimitsAssumption, WorldsAssumption DEF Init, World
<1>2. \A r \in Requests : ~aborted[r]
  BY DEF Init
<1>3. \A d \in Domains : throttled[d] = <<>> /\ active[d] = 0 /\ Running(d) = {}
  BY DEF Init, NoTasks, Nobody, Running
<1>4. WaitingInLine /\ ListedOnce
  BY <1>3 DEF WaitingInLine, ListedOnce, Distinct
<1>5. Throttling => PlacesTaken
  BY <1>1, <1>3, FS_EmptySet DEF PlacesTaken, Throttling
<1> QED
  BY <1>2, <1>4, <1>5 DEF LeftAlone

\* Every step keeps it.
LEMMA StepLeftAlone == IInv /\ LeftAlone /\ [Next]_vars => LeftAlone'
<1> SUFFICES ASSUME IInv, LeftAlone, [Next]_vars, Throttling' PROVE LeftAlone'
  BY DEF LeftAlone
<1>1. Throttling
  BY CalmStays
<1>2. CASE UNCHANGED vars
  BY <1>1, <1>2 DEF vars, LeftAlone, WaitingInLine, ListedOnce, PlacesTaken, Running, Throttling, Calm
<1>3. ASSUME NEW r \in Requests, Complete(r) PROVE LeftAlone'
  <2>1. url[r] \in Domains
    BY DEF IInv, TypeOK
  <2> QED
    BY <1>1, <1>3, <2>1, CalmComplete
<1> QED
  BY <1>1, <1>2, <1>3, CalmSteps, CalmArrive

\* The state of the semaphore.
Capacity == IF Throttling THEN limit ELSE 1
Holders == [d \in Domains |-> IF Throttling THEN Running(d) ELSE {}]
Waiting == IF Throttling THEN throttled ELSE NoTasks

\* Both modules mean the same by the size of a set.
LEMMA SameSizes == \A S : Semaphore!Cardinality(S) = Cardinality(S)
BY DEF Semaphore!Cardinality, Cardinality

\* A step of the throttle is one of the semaphore, or leaves it as it is.
LEMMA StepRefines ==
    ASSUME IInv, LeftAlone, [Next]_vars
    PROVE  [Semaphore!Next]_(Semaphore!vars)
<1>1. CASE ~Throttling
  <2>1. ~Throttling'
    BY <1>1, CalmStays
  <2>2. Capacity' = Capacity /\ Holders' = Holders /\ Waiting' = Waiting
    BY <1>1, <2>1 DEF Capacity, Holders, Waiting, NoTasks
  <2> QED
    BY <2>2 DEF Semaphore!vars, Capacity, Holders, Waiting
<1>2. CASE Throttling
  <2>1. Throttling' /\ limit' = limit /\ limit \in Nat \ {0} /\ TypeOK
    BY <1>2, CalmStays DEF IInv
  <2>2. /\ Capacity = limit /\ Capacity' = Capacity
        /\ Holders = [d \in Domains |-> Running(d)]
        /\ Holders' = [d \in Domains |-> Running(d)']
        /\ Waiting = throttled /\ Waiting' = throttled'
    BY <1>2, <2>1 DEF Capacity, Holders, Waiting
  <2>3. ASSUME NEW r \in Requests, NEW d \in Domains, Arrive(r, d)
        PROVE  Semaphore!Enter(r, d) \/ Semaphore!Wait(r, d)
    <3>1. CASE /\ Cardinality(Running(d)) < limit /\ throttled' = throttled
               /\ \A e \in Domains :
                    Running(e)' = IF e = d THEN Running(d) \cup {r} ELSE Running(e)
      <4>1. Holders' = [Holders EXCEPT ![d] = @ \cup {r}]
        BY <2>2, <3>1
      <4>2. ~(Cardinality(Holders[d]) >= Capacity)
        BY <2>1, <2>2, <3>1, RunningFinite
      <4>3. ~Semaphore!Full(d)
        BY <4>2, SameSizes DEF Semaphore!Full, Capacity, Holders
      <4>4. Capacity' = Capacity /\ Waiting' = Waiting
        BY <2>2, <3>1
      <4> QED
        BY <4>1, <4>3, <4>4 DEF Semaphore!Enter, Capacity, Holders, Waiting
    <3>2. CASE /\ ~(Cardinality(Running(d)) < limit)
               /\ throttled' = [throttled EXCEPT ![d] = Append(@, r)]
               /\ \A e \in Domains : Running(e)' = Running(e)
      <4>1. Holders' = Holders
        BY <2>2, <3>2
      <4>2. Cardinality(Holders[d]) >= Capacity
        BY <2>1, <2>2, <3>2, RunningFinite
      <4>3. Semaphore!Full(d)
        BY <4>2, SameSizes DEF Semaphore!Full, Capacity, Holders
      <4>4. Capacity' = Capacity /\ Waiting' = [Waiting EXCEPT ![d] = Append(@, r)]
        BY <2>2, <3>2
      <4> QED
        BY <4>1, <4>3, <4>4 DEF Semaphore!Wait, Capacity, Holders, Waiting
    <3> QED
      BY <1>2, <2>3, <3>1, <3>2, CalmArrive
  <2>4. ASSUME NEW r \in Requests, Complete(r)
        PROVE  url[r] \in Domains /\ Semaphore!Leave(r, url[r])
    <3>0. url[r] \in Domains
      BY <2>1 DEF TypeOK
    <3> SUFFICES ASSUME NEW d \in Domains, d = url[r] PROVE Semaphore!Leave(r, d)
      BY <3>0
    <3>1. r \in Running(d)
      BY <1>2, <2>4, CalmComplete
    <3>2. CASE /\ throttled[d] = <<>> /\ throttled' = throttled
               /\ \A e \in Domains :
                    Running(e)' = IF e = d THEN Running(d) \ {r} ELSE Running(e)
      <4>1. Holders' = [Holders EXCEPT ![d] = @ \ {r}] /\ r \in Holders[d]
        BY <2>2, <3>1, <3>2
      <4>2. Semaphore!Leave(r, d)
        BY <2>2, <3>2, <4>1 DEF Semaphore!Leave, Capacity, Holders, Waiting
      <4> QED
        BY <4>2
    <3>3. CASE /\ throttled[d] # <<>>
               /\ throttled' = [throttled EXCEPT ![d] = Tail(@)]
               /\ \A e \in Domains :
                    Running(e)' = IF e = d THEN (Running(d) \ {r}) \cup {Head(throttled[d])}
                                  ELSE Running(e)
      <4>1. /\ Holders' = [Holders EXCEPT ![d] = (@ \ {r}) \cup {Head(Waiting[d])}]
            /\ r \in Holders[d]
        BY <2>2, <3>1, <3>3
      <4>2. Semaphore!Leave(r, d)
        BY <2>2, <3>3, <4>1 DEF Semaphore!Leave, Capacity, Holders, Waiting
      <4> QED
        BY <4>2
    <3> QED
      BY <1>2, <2>4, <3>2, <3>3, CalmComplete
  <2>5. CASE UNCHANGED vars
    <3>1. Holders' = Holders
      BY <2>2, <2>5 DEF vars, Running
    <3>2. Waiting' = Waiting
      BY <2>2, <2>5 DEF vars
    <3> QED
      BY <2>2, <3>1, <3>2 DEF Semaphore!vars, Capacity, Holders, Waiting
  <2>6. (\E r \in Requests, d \in Domains : Arrive(r, d)) => Semaphore!Next
    BY <2>3 DEF Semaphore!Next
  <2>7. (\E r \in Requests : Complete(r)) => Semaphore!Next
    BY <2>4 DEF Semaphore!Next
  <2> QED
    BY <1>2, <2>5, <2>6, <2>7, CalmSteps
<1> QED
  BY <1>1, <1>2

\* The first state is one of the semaphore.
LEMMA InitRefines == Init => Semaphore!Init
<1> SUFFICES ASSUME Init PROVE Semaphore!Init
  OBVIOUS
<1>1. limit \in Nat
  BY LimitsAssumption, WorldsAssumption DEF Init, World
<1>2. Capacity \in Nat \ {0}
  BY <1>1 DEF Capacity, Throttling
<1>3. \A d \in Domains : Running(d) = {}
  BY DEF Init, Running
<1>4. Holders = [d \in Domains |-> {}]
  BY <1>3 DEF Holders
<1>5. Waiting = [d \in Domains |-> <<>>]
  BY DEF Init, Waiting, NoTasks
<1> QED
  BY <1>2, <1>4, <1>5 DEF Semaphore!Init, Capacity, Holders, Waiting

\* A throttled port whose clients, redirects and configuration leave it alone is a
\* semaphore per domain, with a waiting list served in the order of arrival, for
\* any number of requests and domains and any limit: throttle and release of
\* lib/throttle_mgr.js implement what the README says of the option "throttle".
THEOREM ThrottleIsSemaphore == Spec => ImplementsLimiter
<1>1. Init => IInv /\ LeftAlone
  BY InitIInv, InitLeftAlone
<1>2. IInv /\ LeftAlone /\ [Next]_vars => IInv' /\ LeftAlone'
  BY StepIInv, StepLeftAlone
<1>3. IInv /\ LeftAlone /\ [Next]_vars => [Semaphore!Next]_(Semaphore!vars)
  BY StepRefines
<1> QED
  BY <1>1, <1>2, <1>3, InitRefines, PTL DEF Spec, ImplementsLimiter, Semaphore!Spec
=============================================================================
