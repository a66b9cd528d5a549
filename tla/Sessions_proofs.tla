--------------------------- MODULE Sessions_proofs ---------------------------
(***************************************************************************)
(* Proofs about Sessions for any number of workers, requests, addresses    *)
(* and IPs, any configuration of the port and any caps of the retries.     *)
(***************************************************************************)
EXTENDS Sessions, SequenceFacts, FiniteSetTheorems

-----------------------------------------------------------------------------
(***************************************************************************)
(* Arithmetic.                                                             *)
(***************************************************************************)

\* Products of numbers, where the SMT solver needs them one at a time.
LEMMA Products ==
    ASSUME NEW a \in Nat, NEW n \in Nat \ {0}
    PROVE  a * n \in Nat /\ a * n >= a /\ (a + 1) * n = a * n + n
OBVIOUS

\* A product keeps the order.
LEMMA ProductsGrow ==
    ASSUME NEW a \in Nat, NEW b \in Nat, a < b, NEW n \in Nat \ {0}
    PROVE  a * n + n <= b * n
<1>1. PICK d \in Nat : b = (a + 1) + d
  <2> WITNESS b - (a + 1) \in Nat
  <2> QED
    OBVIOUS
<1>2. b * n = (a + 1) * n + d * n
  BY <1>1
<1>3. d * n \in Nat /\ (a + 1) * n = a * n + n /\ a * n \in Nat
  BY Products
<1> QED
  BY <1>2, <1>3

\* Workers that draw their numbers from their own id never draw the same.
LEMMA NumbersApart ==
    ASSUME NEW v \in 1 .. NumWorkers, NEW w \in 1 .. NumWorkers, v # w,
           NEW a \in Nat, NEW b \in Nat
    PROVE  a * NumWorkers + v - 1 # b * NumWorkers + w - 1
<1>1. NumWorkers \in Nat \ {0}
  BY NumbersAssumption
<1>2. a * NumWorkers \in Nat /\ b * NumWorkers \in Nat
  BY <1>1, Products
<1>3. CASE a = b
  BY <1>1, <1>2, <1>3
<1>4. CASE a < b
  <2>1. a * NumWorkers + NumWorkers <= b * NumWorkers
    BY <1>1, <1>4, ProductsGrow
  <2> QED
    BY <1>1, <1>2, <2>1
<1>5. CASE b < a
  <2>1. b * NumWorkers + NumWorkers <= a * NumWorkers
    BY <1>1, <1>5, ProductsGrow
  <2> QED
    BY <1>1, <1>2, <2>1
<1> QED
  BY <1>3, <1>4, <1>5

\* The place of a number in a list that is gone through again and again.
LEMMA Cyclic ==
    ASSUME NEW x \in Nat, NEW n \in Nat \ {0}
    PROVE  (x % n) + 1 \in 1 .. n
OBVIOUS

-----------------------------------------------------------------------------
(***************************************************************************)
(* What the operations of Sess_mgr make of its state.                      *)
(***************************************************************************)

\* Sessions per source address are there for sticky_ip only.
MainOnly(k) == world.mode # "sticky" => \A s \in Slots \ {Main} : k.sess[s] = None

\* With rotate_session the session has a number of its worker, and one user
\* at most, which has made it a used one.
Drawn(session, w) == \E n \in Nat : session.ord = n * NumWorkers + w - 1
Alone(session) == \/ session.users = {}
                  \/ session.used /\ \E r \in Requests : session.users = {r}
Apart(k, w) ==
  /\ MainOnly(k)
  /\ world.mode = "rotate" /\ k.sess[Main] # None
       => Drawn(k.sess[Main], w) /\ Alone(k.sess[Main])

\* Nothing is older than number n.
Fresh(k, n) ==
  k.sid >= n /\ \A s \in Slots : k.sess[s] # None => k.sess[s].ord >= n

\* What every operation on sessions keeps.
Evolves(k, e, w) ==
  /\ e \in Server /\ e.ips = k.ips /\ e.base = k.base
  /\ Apart(e, w)
  /\ \A n \in Nat : Fresh(k, n) => Fresh(e, n)

\* The session of a steady port has number n at most, and the next one n + 1;
\* nothing has ended it, and no IP is banned.
Within(k, n) ==
  /\ k.banned = {} /\ k.sid <= n + 1
  /\ IF k.sess[Main] = None THEN k.sid <= n
     ELSE k.sess[Main].ord <= n /\ ~k.sess[Main].canceled

\* In a steady port the numbers grow by c at most.
Raises(k, e, c) == Steady => \A n \in Nat : Within(k, n) => Within(e, n + c)

\* The slot that a request may use.
Fits(s) == s \in Slots /\ (world.mode # "sticky" => s = Main)

\* The fields of a Sess_mgr and of a session.
LEMMA ServerShape ==
    ASSUME NEW k \in Server
    PROVE  /\ k.sid \in Nat /\ k.base \in Nat /\ k.ips \in Seq(Ips)
           /\ k.temp \in SUBSET Ips /\ k.banned \in SUBSET Ips
           /\ k.sess \in [Slots -> Session \cup {None}]
           /\ \A s \in Slots : k.sess[s] # None =>
                /\ k.sess[s] \in Session /\ k.sess[s].ord \in Nat
                /\ k.sess[s].ip \in Ips \cup {None} /\ k.sess[s].last \in Ips \cup {None}
                /\ k.sess[s].users \subseteq Requests
                /\ k.sess[s].used \in BOOLEAN /\ k.sess[s].canceled \in BOOLEAN
<1>1. k.sess \in [Slots -> Session \cup {None}]
  BY DEF Server
<1>2. ASSUME NEW s \in Slots, k.sess[s] # None PROVE k.sess[s] \in Session
  BY <1>1, <1>2
<1> QED
  BY <1>1, <1>2 DEF Server, Session

\* Main is a slot, and no session is None.
LEMMA MainIsSlot == Main \in Slots /\ \A x \in Session : x # None
BY NoneAssumption DEF Slots

\* Other sessions in the same Sess_mgr.
LEMMA SessReplaced ==
    ASSUME NEW k \in Server, NEW f \in [Slots -> Session \cup {None}]
    PROVE  LET e == [k EXCEPT !.sess = f]
           IN  /\ e \in Server /\ e.sess = f /\ e.sid = k.sid /\ e.ips = k.ips
               /\ e.temp = k.temp /\ e.banned = k.banned /\ e.base = k.base
BY DEF Server

\* The number that ord_id gives.
LEMMA NumberShape ==
    ASSUME NEW k \in Server, NEW w \in Workers
    PROVE  /\ ord_id(k, w) \in Nat /\ ord_id(k, w) >= k.sid
           /\ world.mode = "rotate" => ord_id(k, w) = k.sid * NumWorkers + w - 1
<1>1. k.sid \in Nat /\ NumWorkers \in Nat \ {0} /\ w \in Nat \ {0} /\ MaxWorkers \in Nat
  BY ServerShape, NumbersAssumption DEF Workers
<1>2. k.sid * NumWorkers \in Nat /\ k.sid * NumWorkers >= k.sid
  BY <1>1, Products
<1> DEFINE p == k.sid * NumWorkers
<1>3. p \in Nat /\ p >= k.sid
  BY <1>2
<1> HIDE DEF p
<1>4. p + w - 1 \in Nat /\ p + w - 1 >= k.sid
  BY <1>1, <1>3
<1> QED
  BY <1>1, <1>4 DEF ord_id, p

\* establish_session puts a new session with the next number into slot s.
LEMMA Established ==
    ASSUME NEW k \in Server, NEW w \in Workers, NEW s \in Slots
    PROVE  LET e == establish_session(k, w, s)
           IN  /\ e \in Server /\ e.sid = k.sid + 1 /\ e.base = k.base /\ e.ips = k.ips
               /\ e.temp = k.temp /\ e.banned = k.banned
               /\ e.sess[s] \in Session /\ e.sess[s].ord = ord_id(k, w)
               /\ ~e.sess[s].used /\ ~e.sess[s].canceled /\ e.sess[s].users = {}
               /\ \A t \in Slots \ {s} : e.sess[t] = k.sess[t]
<1> DEFINE ip == IF is_using_pool(k) THEN k.ips[(ord_id(k, w) % Len(k.ips)) + 1] ELSE None
           new == [ord |-> ord_id(k, w), used |-> FALSE, canceled |-> FALSE,
                   ip |-> ip, last |-> None, users |-> {}]
<1>1. ip \in Ips \cup {None}
  <2>1. k.ips \in Seq(Ips) /\ ord_id(k, w) \in Nat
    BY ServerShape, NumberShape
  <2>2. CASE is_using_pool(k)
    <3>1. Len(k.ips) \in Nat \ {0} /\ DOMAIN k.ips = 1 .. Len(k.ips)
      BY <2>1, <2>2, TailShape DEF is_using_pool
    <3>2. (ord_id(k, w) % Len(k.ips)) + 1 \in DOMAIN k.ips
      BY <2>1, <3>1, Cyclic
    <3>3. \A i \in DOMAIN k.ips : k.ips[i] \in Ips
      BY <2>1
    <3> QED
      BY <2>2, <3>2, <3>3
  <2> QED
    BY <2>2
<1> HIDE DEF ip
<1>2. new \in Session
  BY <1>1, NumberShape DEF Session
<1>3. establish_session(k, w, s) = [k EXCEPT !.sid = @ + 1, !.sess[s] = new]
  BY DEF establish_session, ip
<1>4. /\ new.ord = ord_id(k, w) /\ new.used = FALSE /\ new.canceled = FALSE /\ new.users = {}
  OBVIOUS
<1> HIDE DEF new
<1> DEFINE sess == [k.sess EXCEPT ![s] = new]
           num == k.sid + 1
           e == [k EXCEPT !.sid = num, !.sess = sess]
<1>5. k.sess \in [Slots -> Session \cup {None}] /\ k.sid \in Nat /\ num \in Nat
  BY ServerShape
<1>6. /\ sess \in [Slots -> Session \cup {None}] /\ sess[s] = new
      /\ \A t \in Slots \ {s} : sess[t] = k.sess[t]
  BY <1>2, <1>5
<1>7. establish_session(k, w, s) = e
  BY <1>3 DEF Server
<1> HIDE DEF sess, num
<1>8. /\ e \in Server /\ e.sid = num /\ e.base = k.base /\ e.ips = k.ips
      /\ e.temp = k.temp /\ e.banned = k.banned /\ e.sess = sess
  BY <1>5, <1>6 DEF Server
<1>9. num = k.sid + 1
  BY DEF num
<1> QED
  BY <1>2, <1>4, <1>6, <1>7, <1>8, <1>9

\* It keeps workers and requests apart and brings nothing old.
LEMMA EstablishEvolves ==
    ASSUME NEW k \in Server, NEW w \in Workers, Apart(k, w), NEW s, Fits(s)
    PROVE  /\ Evolves(k, establish_session(k, w, s), w)
           /\ \A n \in Nat : k.sid >= n /\ world.mode # "sticky" => Fresh(establish_session(k, w, s), n)
<1> DEFINE e == establish_session(k, w, s)
<1>1. s \in Slots /\ (world.mode # "sticky" => s = Main)
  BY DEF Fits
<1>2. /\ e \in Server /\ e.sid = k.sid + 1 /\ e.base = k.base /\ e.ips = k.ips
      /\ e.sess[s] \in Session /\ e.sess[s].ord = ord_id(k, w) /\ e.sess[s].users = {}
      /\ \A t \in Slots \ {s} : e.sess[t] = k.sess[t]
  BY <1>1, Established
<1>3. k.sid \in Nat /\ ord_id(k, w) \in Nat /\ ord_id(k, w) >= k.sid
  BY ServerShape, NumberShape
<1> HIDE DEF e
<1>4. Apart(e, w)
  <2>1. MainOnly(e)
    BY <1>1, <1>2 DEF Apart, MainOnly
  <2>2. world.mode = "rotate" => Drawn(e.sess[Main], w) /\ Alone(e.sess[Main])
    BY <1>1, <1>2, <1>3, NumberShape DEF Drawn, Alone
  <2> QED
    BY <2>1, <2>2 DEF Apart
<1>5. ASSUME NEW n \in Nat, Fresh(k, n) PROVE Fresh(e, n)
  <2>1. e.sid >= n
    BY <1>2, <1>3, <1>5 DEF Fresh
  <2>2. ord_id(k, w) >= n
    BY <1>3, <1>5 DEF Fresh
  <2> QED
    BY <1>2, <1>5, <2>1, <2>2 DEF Fresh
<1>6. ASSUME NEW n \in Nat, k.sid >= n, world.mode # "sticky"
      PROVE  Fresh(e, n)
  <2>1. e.sid >= n /\ ord_id(k, w) >= n
    BY <1>2, <1>3, <1>6
  <2>2. \A t \in Slots \ {s} : e.sess[t] = None
    BY <1>1, <1>2, <1>6 DEF Apart, MainOnly
  <2> QED
    BY <1>2, <2>1, <2>2 DEF Fresh
<1> QED
  BY <1>2, <1>4, <1>5, <1>6 DEF Evolves, e

\* What keeps the state in one step after the other keeps it in both.
LEMMA EvolvesOn ==
    ASSUME NEW k, NEW e, NEW f, NEW w, Evolves(k, e, w), Evolves(e, f, w)
    PROVE  Evolves(k, f, w)
BY DEF Evolves

\* Nothing happens.
LEMMA EvolvesNot ==
    ASSUME NEW k \in Server, NEW w, Apart(k, w)
    PROVE  Evolves(k, k, w)
BY DEF Evolves

\* Sessions that stay, with the same number and no new users.
LEMMA TouchedEvolves ==
    ASSUME NEW k \in Server, NEW w, Apart(k, w), NEW f \in [Slots -> Session \cup {None}],
           \A s \in Slots : k.sess[s] = None => f[s] = None,
           \A s \in Slots : k.sess[s] # None =>
              /\ f[s].ord = k.sess[s].ord /\ f[s].used = k.sess[s].used
              /\ f[s].users \subseteq k.sess[s].users
    PROVE  Evolves(k, [k EXCEPT !.sess = f], w)
<1> DEFINE e == [k EXCEPT !.sess = f]
<1>1. /\ e \in Server /\ e.sess = f /\ e.sid = k.sid /\ e.ips = k.ips /\ e.base = k.base
  BY SessReplaced
<1> HIDE DEF e
<1>2. Apart(e, w)
  <2>1. MainOnly(e)
    BY <1>1 DEF Apart, MainOnly
  <2>2. ASSUME world.mode = "rotate", e.sess[Main] # None
        PROVE  Drawn(e.sess[Main], w) /\ Alone(e.sess[Main])
    <3>1. Drawn(k.sess[Main], w) /\ Alone(k.sess[Main]) /\ k.sess[Main] # None
      BY <1>1, <2>2, MainIsSlot DEF Apart
    <3>2. /\ f[Main].ord = k.sess[Main].ord /\ f[Main].used = k.sess[Main].used
          /\ f[Main].users \subseteq k.sess[Main].users
      BY <3>1, MainIsSlot
    <3>3. Drawn(e.sess[Main], w)
      BY <1>1, <3>1, <3>2 DEF Drawn
    <3>4. f[Main].users = {} \/ f[Main].users = k.sess[Main].users
      BY <3>1, <3>2 DEF Alone
    <3> QED
      BY <1>1, <3>1, <3>2, <3>3, <3>4 DEF Alone
  <2> QED
    BY <2>1, <2>2 DEF Apart
<1>3. ASSUME NEW n \in Nat, Fresh(k, n) PROVE Fresh(e, n)
  BY <1>1, <1>3 DEF Fresh
<1> QED
  BY <1>1, <1>2, <1>3 DEF Evolves, e

\* One of the sessions that r uses is changed, or all of them.
LEMMA LeaveEvolves ==
    ASSUME NEW k \in Server, NEW w, Apart(k, w), NEW r
    PROVE  /\ Evolves(k, Leave(k, r), w)
           /\ Leave(k, r).temp = k.temp /\ Leave(k, r).banned = k.banned
<1> DEFINE f == [s \in Slots |-> IF s \notin Using(k, r) THEN k.sess[s]
                                 ELSE Left(k.sess[s], r)]
<1>1. ASSUME NEW s \in Slots
      PROVE  /\ f[s] \in Session \cup {None} /\ (k.sess[s] = None => f[s] = None)
             /\ k.sess[s] # None => /\ f[s].ord = k.sess[s].ord /\ f[s].used = k.sess[s].used
                                    /\ f[s].users \subseteq k.sess[s].users
  <2>1. CASE s \notin Using(k, r)
    BY <2>1, ServerShape
  <2>2. CASE s \in Using(k, r)
    <3>1. k.sess[s] \in Session
      BY <2>2, ServerShape DEF Using
    <3> QED
      BY <2>2, <3>1 DEF Session, Using, Left
  <2> QED
    BY <2>1, <2>2
<1>2. f \in [Slots -> Session \cup {None}]
  BY <1>1
<1>3. Leave(k, r) = [k EXCEPT !.sess = f]
  BY DEF Leave
<1> HIDE DEF f
<1>4. Evolves(k, [k EXCEPT !.sess = f], w)
  BY <1>1, <1>2, TouchedEvolves
<1> QED
  BY <1>2, <1>3, <1>4, SessReplaced

\* The IP of the last answer is noted.
LEMMA LastResEvolves ==
    ASSUME NEW k \in Server, NEW w, Apart(k, w), NEW r, NEW ip \in Ips \cup {None}
    PROVE  /\ Evolves(k, LastRes(k, r, ip), w)
           /\ LastRes(k, r, ip).temp = k.temp /\ LastRes(k, r, ip).banned = k.banned
<1> DEFINE f == [s \in Slots |-> IF s \notin Using(k, r) THEN k.sess[s]
                                 ELSE [k.sess[s] EXCEPT !.last = ip]]
<1>1. ASSUME NEW s \in Slots
      PROVE  /\ f[s] \in Session \cup {None} /\ (k.sess[s] = None => f[s] = None)
             /\ k.sess[s] # None => /\ f[s].ord = k.sess[s].ord /\ f[s].used = k.sess[s].used
                                    /\ f[s].users \subseteq k.sess[s].users
  <2>1. CASE s \notin Using(k, r)
    BY <2>1, ServerShape
  <2>2. CASE s \in Using(k, r)
    <3>1. k.sess[s] \in Session
      BY <2>2, ServerShape DEF Using
    <3> QED
      BY <2>2, <3>1 DEF Session, Using
  <2> QED
    BY <2>1, <2>2
<1>2. f \in [Slots -> Session \cup {None}]
  BY <1>1
<1>3. LastRes(k, r, ip) = [k EXCEPT !.sess = f]
  BY DEF LastRes
<1> HIDE DEF f
<1>4. Evolves(k, [k EXCEPT !.sess = f], w)
  BY <1>1, <1>2, TouchedEvolves
<1> QED
  BY <1>2, <1>3, <1>4, SessReplaced

\* The session is canceled.
LEMMA CancelEvolves ==
    ASSUME NEW k \in Server, NEW w, Apart(k, w), NEW r
    PROVE  /\ Evolves(k, Cancel(k, r), w)
           /\ Cancel(k, r).temp = k.temp /\ Cancel(k, r).banned = k.banned
<1> DEFINE f == [s \in Slots |-> IF s \notin Using(k, r) THEN k.sess[s]
                                 ELSE [k.sess[s] EXCEPT !.canceled = TRUE]]
<1>1. ASSUME NEW s \in Slots
      PROVE  /\ f[s] \in Session \cup {None} /\ (k.sess[s] = None => f[s] = None)
             /\ k.sess[s] # None => /\ f[s].ord = k.sess[s].ord /\ f[s].used = k.sess[s].used
                                    /\ f[s].users \subseteq k.sess[s].users
  <2>1. CASE s \notin Using(k, r)
    BY <2>1, ServerShape
  <2>2. CASE s \in Using(k, r)
    <3>1. k.sess[s] \in Session
      BY <2>2, ServerShape DEF Using
    <3> QED
      BY <2>2, <3>1 DEF Session, Using
  <2> QED
    BY <2>1, <2>2
<1>2. f \in [Slots -> Session \cup {None}]
  BY <1>1
<1>3. Cancel(k, r) = [k EXCEPT !.sess = f]
  BY DEF Cancel
<1> HIDE DEF f
<1>4. Evolves(k, [k EXCEPT !.sess = f], w)
  BY <1>1, <1>2, TouchedEvolves
<1> QED
  BY <1>2, <1>3, <1>4, SessReplaced

\* A reservation or a ban is remembered.
LEMMA MarkedEvolves ==
    ASSUME NEW k \in Server, NEW w, Apart(k, w), NEW T \in SUBSET Ips
    PROVE  /\ Evolves(k, [k EXCEPT !.temp = T], w) /\ [k EXCEPT !.temp = T].temp = T
           /\ Evolves(k, [k EXCEPT !.banned = T], w)
           /\ [k EXCEPT !.banned = T].temp = k.temp
<1> DEFINE e == [k EXCEPT !.temp = T]
           f == [k EXCEPT !.banned = T]
<1>1. /\ e \in Server /\ e.ips = k.ips /\ e.base = k.base /\ e.sid = k.sid
      /\ e.sess = k.sess /\ e.temp = T
  BY DEF Server
<1>2. /\ f \in Server /\ f.ips = k.ips /\ f.base = k.base /\ f.sid = k.sid
      /\ f.sess = k.sess /\ f.temp = k.temp
  BY DEF Server
<1> HIDE DEF e, f
<1>3. Evolves(k, e, w)
  BY <1>1 DEF Evolves, Apart, MainOnly, Fresh
<1>4. Evolves(k, f, w)
  BY <1>2 DEF Evolves, Apart, MainOnly, Fresh
<1> QED
  BY <1>1, <1>2, <1>3, <1>4 DEF e, f

\* The number of a refresh.
LEMMA NumberSet ==
    ASSUME NEW k \in Server, NEW n \in Nat
    PROVE  LET e == [k EXCEPT !.sid = n]
           IN  /\ e \in Server /\ e.ips = k.ips /\ e.base = k.base /\ e.sid = n
               /\ e.sess = k.sess /\ e.temp = k.temp /\ e.banned = k.banned
BY DEF Server

\* No session at all.
LEMMA NoSessionsShape ==
    /\ NoSessions \in [Slots -> Session \cup {None}]
    /\ \A s \in Slots : NoSessions[s] = None
BY DEF NoSessions

\* A request finds a session in its slot, one that no other uses if the port
\* rotates its sessions.
LEMMA RetrieveEvolves ==
    ASSUME NEW k \in Server, NEW w \in Workers, Apart(k, w), NEW s, Fits(s)
    PROVE  LET e == retrieve_session(k, w, s)
           IN  /\ Evolves(k, e, w) /\ e.temp = k.temp /\ e.banned = k.banned
               /\ e.sess[s] \in Session
               /\ world.mode = "rotate" => e.sess[s].users = {}
<1>1. s \in Slots /\ (world.mode = "rotate" => s = Main)
  BY DEF Fits
<1> DEFINE fits == k.sess[s] # None /\ ~is_session_expired(k.sess[s])
                   /\ k.sess[s].last \notin k.banned
<1>2. CASE ~fits
  <2>1. retrieve_session(k, w, s) = establish_session(k, w, s)
    BY <1>2 DEF retrieve_session
  <2>2. Evolves(k, establish_session(k, w, s), w)
    BY EstablishEvolves
  <2> QED
    BY <1>1, <2>1, <2>2, Established
<1>3. CASE fits
  <2>1. retrieve_session(k, w, s) = k
    BY <1>3 DEF retrieve_session
  <2>2. k.sess[s] \in Session
    BY <1>1, <1>3, ServerShape
  <2>3. ASSUME world.mode = "rotate" PROVE k.sess[s].users = {}
    <3>1. s = Main /\ ~k.sess[s].used
      BY <1>1, <1>3, <2>3 DEF is_session_expired
    <3> QED
      BY <1>3, <2>3, <3>1 DEF Apart, Alone
  <2> QED
    BY <2>1, <2>2, <2>3, EvolvesNot
<1> QED
  BY <1>2, <1>3

\* The session in slot s gets a user.
LEMMA UserAdded ==
    ASSUME NEW k \in Server, NEW w, Apart(k, w), NEW s, Fits(s), k.sess[s] \in Session,
           NEW r \in Requests,
           world.mode = "rotate" => k.sess[s].users = {}
    PROVE  LET e == [k EXCEPT !.sess[s].used = TRUE, !.sess[s].users = @ \cup {r}]
           IN  /\ Evolves(k, e, w) /\ e.temp = k.temp /\ e.banned = k.banned
               /\ e.sess[s] \in Session
<1>1. s \in Slots /\ (world.mode # "sticky" => s = Main)
  BY DEF Fits
<1>2. k.sess \in [Slots -> Session \cup {None}] /\ k.sess[s].users \subseteq Requests
  BY <1>1, ServerShape DEF Session
<1> DEFINE new == [k.sess[s] EXCEPT !.used = TRUE, !.users = k.sess[s].users \cup {r}]
           f == [k.sess EXCEPT ![s] = new]
           e == [k EXCEPT !.sess = f]
<1>3. /\ new \in Session /\ new.ord = k.sess[s].ord /\ new.used = TRUE
      /\ new.users = k.sess[s].users \cup {r}
  BY <1>2 DEF Session
<1>4. [k EXCEPT !.sess[s].used = TRUE, !.sess[s].users = @ \cup {r}] = e
  BY <1>1, <1>2 DEF Server, Session
<1> HIDE DEF new
<1>5. /\ f \in [Slots -> Session \cup {None}] /\ f[s] = new
      /\ \A t \in Slots \ {s} : f[t] = k.sess[t]
  BY <1>1, <1>2, <1>3
<1> HIDE DEF f
<1>6. /\ e \in Server /\ e.sess = f /\ e.sid = k.sid /\ e.ips = k.ips
      /\ e.temp = k.temp /\ e.banned = k.banned /\ e.base = k.base
  BY <1>5, SessReplaced
<1> HIDE DEF e
<1>7. k.sess[s] # None /\ new # None
  BY <1>3, MainIsSlot
<1>8. Apart(e, w)
  <2>1. MainOnly(e)
    BY <1>1, <1>5, <1>6 DEF Apart, MainOnly
  <2>2. ASSUME world.mode = "rotate"
        PROVE  Drawn(e.sess[Main], w) /\ Alone(e.sess[Main])
    <3>1. s = Main /\ k.sess[s].users = {} /\ Drawn(k.sess[s], w)
      BY <1>1, <1>7, <2>2 DEF Apart
    <3>2. e.sess[Main].users = {r} /\ e.sess[Main].used /\ e.sess[Main].ord = k.sess[s].ord
      BY <1>3, <1>5, <1>6, <3>1
    <3> QED
      BY <3>1, <3>2 DEF Drawn, Alone
  <2> QED
    BY <2>1, <2>2 DEF Apart
<1>9. ASSUME NEW n \in Nat, Fresh(k, n) PROVE Fresh(e, n)
  <2>1. k.sess[s].ord >= n
    BY <1>1, <1>7, <1>9 DEF Fresh
  <2>2. \A t \in Slots : e.sess[t] # None => e.sess[t].ord >= n
    BY <1>3, <1>5, <1>6, <1>9, <2>1 DEF Fresh
  <2> QED
    BY <1>6, <1>9, <2>2 DEF Fresh
<1>10. Evolves(k, e, w)
  BY <1>6, <1>8, <1>9 DEF Evolves
<1> QED
  BY <1>3, <1>4, <1>5, <1>6, <1>10

\* A session is dropped.
LEMMA Dropped ==
    ASSUME NEW k \in Server, NEW w, Apart(k, w), NEW s \in Slots
    PROVE  LET e == [k EXCEPT !.sess[s] = None]
           IN  Evolves(k, e, w) /\ e.temp = k.temp /\ e.banned = k.banned
<1> DEFINE f == [k.sess EXCEPT ![s] = None]
<1>1. k.sess \in [Slots -> Session \cup {None}]
  BY ServerShape
<1>2. [k EXCEPT !.sess[s] = None] = [k EXCEPT !.sess = f]
  BY DEF Server
<1>3. /\ f \in [Slots -> Session \cup {None}] /\ f[s] = None
      /\ \A t \in Slots \ {s} : f[t] = k.sess[t]
  BY <1>1
<1> HIDE DEF f
<1> DEFINE e == [k EXCEPT !.sess = f]
<1>4. /\ e \in Server /\ e.sess = f /\ e.sid = k.sid /\ e.ips = k.ips
      /\ e.temp = k.temp /\ e.banned = k.banned /\ e.base = k.base
  BY <1>3, SessReplaced
<1> HIDE DEF e
<1>5. Apart(e, w)
  <2>1. MainOnly(e)
    BY <1>3, <1>4 DEF Apart, MainOnly
  <2>2. e.sess[Main] # None => e.sess[Main] = k.sess[Main]
    BY <1>3, <1>4, MainIsSlot
  <2> QED
    BY <2>1, <2>2 DEF Apart
<1>6. ASSUME NEW n \in Nat, Fresh(k, n) PROVE Fresh(e, n)
  BY <1>3, <1>4, <1>6 DEF Fresh
<1>7. Evolves(k, e, w)
  BY <1>4, <1>5, <1>6 DEF Evolves
<1> QED
  BY <1>2, <1>4, <1>7 DEF e

\* A request takes its session.
LEMMA RequestEvolves ==
    ASSUME NEW k \in Server, NEW w \in Workers, Apart(k, w), NEW s, Fits(s),
           NEW r \in Requests, NEW own \in BOOLEAN
    PROVE  LET e == request_session(k, w, r, s, own)
           IN  /\ Evolves(k, e, w) /\ e.temp = k.temp /\ e.banned = k.banned
               /\ ~own => e.sess[s] \in Session
<1>1. CASE own
  BY <1>1, Dropped, MainIsSlot DEF request_session
<1>2. CASE ~own
  <2> DEFINE f == retrieve_session(k, w, s)
             e == [f EXCEPT !.sess[s].used = TRUE, !.sess[s].users = @ \cup {r}]
  <2>1. request_session(k, w, r, s, own) = e
    BY <1>2 DEF request_session
  <2>2. /\ Evolves(k, f, w) /\ f.temp = k.temp /\ f.banned = k.banned
        /\ f.sess[s] \in Session
        /\ world.mode = "rotate" => f.sess[s].users = {}
    BY RetrieveEvolves
  <2> HIDE DEF f
  <2>3. /\ Evolves(f, e, w) /\ e.temp = f.temp /\ e.banned = f.banned
        /\ e.sess[s] \in Session
    BY <2>2, UserAdded DEF Evolves
  <2> HIDE DEF e
  <2> QED
    BY <1>2, <2>1, <2>2, <2>3, EvolvesOn
<1> QED
  BY <1>1, <1>2

\* A refresh takes the number that is sent along, and no session is older.
LEMMA RefreshEvolves ==
    ASSUME NEW k \in Server, NEW w \in Workers, Apart(k, w)
    PROVE  LET e == refresh_sessions(k, w, 0)
           IN  Evolves(k, e, w) /\ e.temp = k.temp /\ e.banned = k.banned
<1>1. CASE world.mode = "sticky"
  <2> DEFINE e == [k EXCEPT !.sess = NoSessions]
  <2>1. refresh_sessions(k, w, 0) = e
    BY <1>1 DEF refresh_sessions
  <2>2. Evolves(k, e, w)
    BY <1>1, NoSessionsShape, SessReplaced, MainIsSlot DEF Evolves, Apart, MainOnly, Fresh
  <2>3. e.temp = k.temp /\ e.banned = k.banned
    BY NoSessionsShape, SessReplaced
  <2> QED
    BY <2>1, <2>2, <2>3
<1>2. CASE world.mode # "sticky" /\ world.mode # "explicit" /\ k.sess[Main] # None
  <2>1. refresh_sessions(k, w, 0) = establish_session(k, w, Main)
    BY <1>2 DEF refresh_sessions
  <2>2. Fits(Main)
    BY MainIsSlot DEF Fits
  <2> QED
    BY <2>1, <2>2, EstablishEvolves, Established, MainIsSlot
<1>3. CASE world.mode # "sticky" /\ ~(world.mode # "explicit" /\ k.sess[Main] # None)
  <2>1. refresh_sessions(k, w, 0) = k
    BY <1>3 DEF refresh_sessions
  <2> QED
    BY <2>1, EvolvesNot
<1> QED
  BY <1>1, <1>2, <1>3

\* After a refresh by the master nothing is older than its number; a port whose
\* session has a name keeps it.
LEMMA RefreshedTo ==
    ASSUME NEW k \in Server, NEW w \in Workers, Apart(k, w), NEW n \in Nat
    PROVE  LET e == refresh_sessions(k, w, n)
           IN  /\ e \in Server /\ Apart(e, w) /\ e.ips = k.ips /\ e.base = k.base
               /\ e.temp = k.temp /\ e.banned = k.banned
               /\ world.mode # "explicit" => Fresh(e, n)
<1> DEFINE set == IF n = 0 THEN k ELSE [k EXCEPT !.sid = n]
           e == refresh_sessions(k, w, n)
<1>1. /\ set \in Server /\ set.ips = k.ips /\ set.base = k.base /\ set.sid >= n
      /\ set.sess = k.sess /\ set.temp = k.temp /\ set.banned = k.banned
  BY NumberSet, ServerShape
<1>2. e = IF world.mode = "sticky" THEN [set EXCEPT !.sess = NoSessions]
          ELSE IF world.mode # "explicit" /\ set.sess[Main] # None
               THEN establish_session(set, w, Main)
               ELSE set
  BY DEF refresh_sessions
<1> HIDE DEF set, e
<1>3. Apart(set, w)
  BY <1>1 DEF Apart, MainOnly
<1>4. CASE world.mode = "sticky"
  <2>1. /\ e \in Server /\ e.sess = NoSessions /\ e.sid = set.sid /\ e.ips = set.ips
        /\ e.temp = set.temp /\ e.banned = set.banned /\ e.base = set.base
    BY <1>1, <1>2, <1>4, NoSessionsShape, SessReplaced
  <2>2. Apart(e, w) /\ Fresh(e, n)
    BY <1>1, <1>4, <2>1, NoSessionsShape DEF Apart, MainOnly, Fresh
  <2> QED
    BY <1>1, <2>1, <2>2 DEF e
<1>5. CASE world.mode # "sticky" /\ world.mode # "explicit" /\ set.sess[Main] # None
  <2>1. e = establish_session(set, w, Main)
    BY <1>2, <1>5
  <2>2. Fits(Main)
    BY MainIsSlot DEF Fits
  <2>3. Evolves(set, e, w) /\ Fresh(e, n)
    BY <1>1, <1>3, <1>5, <2>1, <2>2, EstablishEvolves
  <2>4. e.temp = set.temp /\ e.banned = set.banned
    BY <1>1, <2>1, Established, MainIsSlot
  <2> QED
    BY <1>1, <2>3, <2>4 DEF e, Evolves
<1>6. CASE world.mode # "sticky" /\ ~(world.mode # "explicit" /\ set.sess[Main] # None)
  <2>1. e = set
    BY <1>2, <1>6
  <2>2. world.mode # "explicit" => Fresh(set, n)
    <3>1. ASSUME world.mode # "explicit", NEW s \in Slots PROVE set.sess[s] = None
      BY <1>3, <1>6, <3>1 DEF Apart, MainOnly
    <3> QED
      BY <1>1, <3>1 DEF Fresh
  <2> QED
    BY <1>1, <1>3, <2>1, <2>2 DEF e
<1> QED
  BY <1>4, <1>5, <1>6

\* Numbers that grow twice.
LEMMA RaisesOn ==
    ASSUME NEW k, NEW e, NEW f, NEW c \in Nat, NEW d \in Nat, Raises(k, e, c), Raises(e, f, d)
    PROVE  Raises(k, f, c + d)
<1> SUFFICES ASSUME Steady, NEW n \in Nat, Within(k, n) PROVE Within(f, n + (c + d))
  BY DEF Raises
<1>1. Within(e, n + c) /\ n + c \in Nat /\ (n + c) + d = n + (c + d)
  BY DEF Raises
<1> QED
  BY <1>1 DEF Raises

\* Nothing happens to the numbers.
LEMMA RaisesNot == ASSUME NEW k PROVE Raises(k, k, 0)
<1>1. \A n \in Nat : n + 0 = n
  OBVIOUS
<1> QED
  BY <1>1 DEF Raises

\* Sessions whose number stays and which are not canceled, and other
\* reservations.
LEMMA TouchedRaises ==
    ASSUME NEW k \in Server, NEW e, e.sid = k.sid, e.banned = k.banned,
           k.sess[Main] = None <=> e.sess[Main] = None,
           k.sess[Main] # None => /\ e.sess[Main].ord = k.sess[Main].ord
                                  /\ e.sess[Main].canceled = k.sess[Main].canceled
    PROVE  Raises(k, e, 0)
<1>1. \A n \in Nat : n + 0 = n
  OBVIOUS
<1> QED
  BY <1>1 DEF Raises, Within

\* The same for one session after the other.
LEMMA SessRaises ==
    ASSUME NEW k \in Server, NEW f \in [Slots -> Session \cup {None}],
           \A s \in Slots : k.sess[s] = None <=> f[s] = None,
           \A s \in Slots : k.sess[s] # None =>
              f[s].ord = k.sess[s].ord /\ f[s].canceled = k.sess[s].canceled
    PROVE  Raises(k, [k EXCEPT !.sess = f], 0)
<1> DEFINE e == [k EXCEPT !.sess = f]
<1>1. e.sess = f /\ e.sid = k.sid /\ e.banned = k.banned
  BY SessReplaced
<1> HIDE DEF e
<1>2. Raises(k, e, 0)
  BY <1>1, MainIsSlot, TouchedRaises
<1> QED
  BY <1>2 DEF e

\* A request that leaves, or has its answer, changes no number.
LEMMA AnsweredRaises ==
    ASSUME NEW k \in Server, NEW r \in Requests, NEW ip \in Ips \cup {None}
    PROVE  Raises(k, Leave(k, r), 0) /\ Raises(k, LastRes(k, r, ip), 0)
<1>1. /\ k.sess \in [Slots -> Session \cup {None}]
      /\ \A s \in Using(k, r) : k.sess[s] # None /\ k.sess[s] \in Session
  BY ServerShape DEF Using
<1>2. Raises(k, Leave(k, r), 0)
  <2> DEFINE f == [s \in Slots |-> IF s \notin Using(k, r) THEN k.sess[s]
                                   ELSE Left(k.sess[s], r)]
  <2>1. ASSUME NEW x \in Session
        PROVE  Left(x, r) \in Session /\ Left(x, r).ord = x.ord /\ Left(x, r).canceled = x.canceled
    BY DEF Left, Session
  <2>2. /\ f \in [Slots -> Session \cup {None}]
        /\ \A s \in Slots : k.sess[s] = None <=> f[s] = None
        /\ \A s \in Slots : k.sess[s] # None =>
              f[s].ord = k.sess[s].ord /\ f[s].canceled = k.sess[s].canceled
    BY <1>1, <2>1, MainIsSlot
  <2>3. Leave(k, r) = [k EXCEPT !.sess = f]
    BY DEF Leave, Server
  <2> HIDE DEF f
  <2> QED
    BY <2>2, <2>3, SessRaises
<1>3. Raises(k, LastRes(k, r, ip), 0)
  <2> DEFINE f == [s \in Slots |-> IF s \notin Using(k, r) THEN k.sess[s]
                                   ELSE [k.sess[s] EXCEPT !.last = ip]]
  <2>1. ASSUME NEW x \in Session
        PROVE  /\ [x EXCEPT !.last = ip] \in Session /\ [x EXCEPT !.last = ip].ord = x.ord
               /\ [x EXCEPT !.last = ip].canceled = x.canceled
    BY DEF Session
  <2>2. /\ f \in [Slots -> Session \cup {None}]
        /\ \A s \in Slots : k.sess[s] = None <=> f[s] = None
        /\ \A s \in Slots : k.sess[s] # None =>
              f[s].ord = k.sess[s].ord /\ f[s].canceled = k.sess[s].canceled
    BY <1>1, <2>1, MainIsSlot
  <2>3. LastRes(k, r, ip) = [k EXCEPT !.sess = f]
    BY DEF LastRes, Server
  <2> HIDE DEF f
  <2> QED
    BY <2>2, <2>3, SessRaises
<1> QED
  BY <1>2, <1>3

\* Nor does a reservation.
LEMMA ReservedRaises ==
    ASSUME NEW k \in Server, NEW temp
    PROVE  Raises(k, [k EXCEPT !.temp = temp], 0)
<1> DEFINE e == [k EXCEPT !.temp = temp]
<1>1. e.sess = k.sess /\ e.sid = k.sid /\ e.banned = k.banned
  BY DEF Server
<1> HIDE DEF e
<1>2. Raises(k, e, 0)
  BY <1>1, TouchedRaises
<1> QED
  BY <1>2 DEF e

\* A new session of a steady port takes the next number.
LEMMA EstablishWithin ==
    ASSUME Steady, NEW k \in Server, NEW w \in Workers, NEW n \in Nat,
           k.banned = {}, k.sid <= n
    PROVE  Within(establish_session(k, w, Main), n)
<1> DEFINE e == establish_session(k, w, Main)
<1>1. /\ e.sid = k.sid + 1 /\ e.banned = k.banned /\ e.sess[Main] \in Session
      /\ e.sess[Main].ord = ord_id(k, w) /\ ~e.sess[Main].canceled
  BY Established, MainIsSlot
<1>2. ord_id(k, w) = k.sid /\ k.sid \in Nat
  BY ServerShape DEF ord_id, Steady
<1> HIDE DEF e
<1>3. Within(e, n)
  BY <1>1, <1>2, MainIsSlot DEF Within
<1> QED
  BY <1>3 DEF e

\* A request keeps the session of a steady port, or takes the next one.
LEMMA RequestRaises ==
    ASSUME NEW k \in Server, NEW w \in Workers, Apart(k, w), NEW s, Fits(s), NEW r \in Requests
    PROVE  Raises(k, request_session(k, w, r, s, FALSE), 0)
<1> SUFFICES ASSUME Steady, NEW n \in Nat, Within(k, n)
             PROVE  Within(request_session(k, w, r, s, FALSE), n)
  <2>1. \A n \in Nat : n + 0 = n
    OBVIOUS
  <2> QED
    BY <2>1 DEF Raises
<1>1. s = Main /\ world.mode = "long"
  BY DEF Fits, Steady
<1> DEFINE f == retrieve_session(k, w, Main)
<1>2. Within(f, n)
  <2>1. CASE k.sess[Main] = None
    <3>1. f = establish_session(k, w, Main)
      BY <2>1 DEF retrieve_session
    <3> QED
      BY <2>1, <3>1, EstablishWithin DEF Within
  <2>2. CASE k.sess[Main] # None
    <3>1. f = k
      BY <1>1, <2>2 DEF retrieve_session, is_session_expired, Within
    <3> QED
      BY <3>1
  <2> QED
    BY <2>1, <2>2
<1>3. f \in Server /\ f.sess[Main] \in Session
  BY <1>1, RetrieveEvolves DEF Evolves
<1> DEFINE e == [f EXCEPT !.sess[Main].used = TRUE, !.sess[Main].users = @ \cup {r}]
<1>4. request_session(k, w, r, s, FALSE) = e
  BY <1>1 DEF request_session
<1> HIDE DEF f
<1>5. /\ e.sid = f.sid /\ e.banned = f.banned /\ e.sess[Main] # None
      /\ e.sess[Main].ord = f.sess[Main].ord /\ e.sess[Main].canceled = f.sess[Main].canceled
  <2>1. f.sess \in [Slots -> Session \cup {None}] /\ f.sess[Main].users \subseteq Requests
    BY <1>3, ServerShape, MainIsSlot
  <2> DEFINE x == f.sess[Main]
             y == [x EXCEPT !.used = TRUE, !.users = x.users \cup {r}]
  <2>2. y \in Session /\ y.ord = x.ord /\ y.canceled = x.canceled
    BY <1>3, <2>1 DEF Session
  <2>3. e = [f EXCEPT !.sess = [f.sess EXCEPT ![Main] = y]]
    BY <1>3, <2>1, MainIsSlot DEF Server, Session
  <2> HIDE DEF y
  <2>4. e.sess[Main] = y /\ e.sid = f.sid /\ e.banned = f.banned
    BY <1>3, <2>1, <2>3, MainIsSlot DEF Server
  <2> QED
    BY <2>2, <2>4, MainIsSlot
<1> HIDE DEF e
<1>6. f.sess[Main] # None
  BY <1>3, MainIsSlot
<1> QED
  BY <1>2, <1>4, <1>5, <1>6 DEF Within

\* A refresh by the worker takes one number more.
LEMMA RefreshRaises ==
    ASSUME NEW k \in Server, NEW w \in Workers
    PROVE  Raises(k, refresh_sessions(k, w, 0), 1)
<1> SUFFICES ASSUME Steady, NEW n \in Nat, Within(k, n)
             PROVE  Within(refresh_sessions(k, w, 0), n + 1)
  BY DEF Raises
<1>1. world.mode = "long" /\ n + 1 \in Nat /\ k.sid \in Nat
  BY ServerShape DEF Steady
<1>2. CASE k.sess[Main] = None
  <2>1. refresh_sessions(k, w, 0) = k
    BY <1>1, <1>2 DEF refresh_sessions
  <2> QED
    BY <1>1, <1>2, <2>1 DEF Within
<1>3. CASE k.sess[Main] # None
  <2>1. refresh_sessions(k, w, 0) = establish_session(k, w, Main)
    BY <1>1, <1>3 DEF refresh_sessions
  <2> QED
    BY <1>1, <2>1, EstablishWithin DEF Within
<1> QED
  BY <1>2, <1>3

\* One by the master takes its number.
LEMMA RefreshedWithin ==
    ASSUME Steady, NEW k \in Server, NEW w \in Workers, NEW n \in Nat, NEW m \in 1 .. n,
           k.banned = {}
    PROVE  Within(refresh_sessions(k, w, m), n)
<1> DEFINE set == [k EXCEPT !.sid = m]
<1>1. m \in Nat /\ m # 0 /\ m <= n /\ world.mode = "long"
  BY DEF Steady
<1>2. set \in Server /\ set.sid = m /\ set.sess = k.sess /\ set.banned = {}
  BY <1>1 DEF Server
<1>3. refresh_sessions(k, w, m) = IF set.sess[Main] # None
                                  THEN establish_session(set, w, Main) ELSE set
  BY <1>1 DEF refresh_sessions
<1> HIDE DEF set
<1>4. CASE set.sess[Main] # None
  BY <1>1, <1>2, <1>3, <1>4, EstablishWithin
<1>5. CASE set.sess[Main] = None
  BY <1>1, <1>2, <1>3, <1>5 DEF Within
<1> QED
  BY <1>4, <1>5

-----------------------------------------------------------------------------
(***************************************************************************)
(* Types and processes.                                                    *)
(***************************************************************************)

Request == [stage: {"new", "sent", "away", "done", "lost"},
            at: 0..MaxWorkers, slot: Slots, own: BOOLEAN, ip: Ips \cup {None},
            retry: 0..(MaxRetry + MaxPortRetry + MaxBanRetries)]

\* Messages of kind C are not in a channel, or the last of them is in P.
Free(s, C) == \A i \in DOMAIN s : s[i].code \notin C
Ends(s, C, P) ==
  \A i \in DOMAIN s :
    s[i].code \in C /\ (\A j \in DOMAIN s : j > i => s[j].code \notin C) => s[i] \in P

\* A server is there when its process is up, after the CREATE.
Servers ==
  \A w \in Workers :
    /\ status[w] = "up" => serv[w] \in Server /\ Apart(serv[w], w)
    /\ status[w] # "up" => serv[w] = None

\* CREATE is the first message of a worker and comes once.
Created ==
  \A w \in Workers :
    /\ status[w] = "boot" => /\ toW[w] # <<>> /\ Head(toW[w]).code = "CREATE"
                             /\ Free(Tail(toW[w]), {"CREATE"})
    /\ status[w] = "up" => Free(toW[w], {"CREATE"})

\* A request that is under way is one of a worker that is up.
Placed ==
  \A r \in Requests :
    /\ Fits(req[r].slot)
    /\ req[r].stage \in {"sent", "away"} => req[r].at \in Workers /\ status[req[r].at] = "up"

\* Workers are forked in the order of their ids.
ForkedInOrder ==
  \E n \in NumWorkers .. MaxWorkers : \A w \in Workers : status[w] # "unborn" <=> w <= n

Base == TypeOK /\ Servers /\ Created /\ Placed /\ ForkedInOrder

\* Nobody dies.
Immortal ==
  "crash" \notin world.besides =>
    /\ \A w \in Workers : status[w] = IF w <= NumWorkers THEN "up" ELSE "unborn"
    /\ listening = 1 .. NumWorkers

\* The types by themselves.
LEMMA Typed ==
    ASSUME TypeOK
    PROVE  /\ world \in World /\ world.pool \in Nat /\ world.ips \in Seq(Ips)
           /\ pool_size \in Nat
           /\ \A w \in Workers : /\ toW[w] \in Seq(ToWorker) /\ toM[w] \in Seq(ToMaster)
                                 /\ serv[w] \in Server \cup {None}
           /\ \A r \in Requests : req[r] \in Request
<1>1. world \in World
  BY WorldsAssumption DEF TypeOK
<1>2. pool_size \in Nat
  BY <1>1 DEF World, pool_size
<1> QED
  BY <1>1, <1>2 DEF World, TypeOK, Request

\* The head of a channel leaves it.
LEMMA EndsTail ==
    ASSUME NEW S, NEW s \in Seq(S), s # <<>>, NEW C, NEW P
    PROVE  /\ Ends(s, C, P) => Ends(Tail(s), C, P)
           /\ Ends(s, C, P) /\ Free(Tail(s), C) /\ Head(s).code \in C => Head(s) \in P
           /\ Free(Tail(s), C) /\ Head(s).code \notin C => Free(s, C)
           /\ Free(s, C) => Free(Tail(s), C) /\ Head(s).code \notin C
<1>1. /\ Len(s) \in Nat \ {0} /\ DOMAIN s = 1 .. Len(s) /\ Head(s) = s[1]
      /\ DOMAIN Tail(s) = 1 .. Len(s) - 1
      /\ \A i \in 1 .. Len(s) - 1 : Tail(s)[i] = s[i + 1]
  BY TailShape
<1>2. \A j \in DOMAIN s : j # 1 => j - 1 \in DOMAIN Tail(s) /\ Tail(s)[j - 1] = s[j]
  <2> SUFFICES ASSUME NEW j \in DOMAIN s, j # 1
               PROVE  j - 1 \in DOMAIN Tail(s) /\ Tail(s)[j - 1] = s[j]
    OBVIOUS
  <2>1. j - 1 \in 1 .. Len(s) - 1 /\ (j - 1) + 1 = j
    BY <1>1
  <2> QED
    BY <1>1, <2>1
<1>3. \A i \in DOMAIN Tail(s) : i + 1 \in DOMAIN s /\ Tail(s)[i] = s[i + 1]
  BY <1>1
<1>4. ASSUME Ends(s, C, P) PROVE Ends(Tail(s), C, P)
  <2> SUFFICES ASSUME NEW i \in DOMAIN Tail(s), Tail(s)[i].code \in C,
                      \A j \in DOMAIN Tail(s) : j > i => Tail(s)[j].code \notin C
               PROVE  Tail(s)[i] \in P
    BY DEF Ends
  <2>1. \A j \in DOMAIN s : j > i + 1 => j - 1 \in DOMAIN Tail(s) /\ j - 1 > i /\ Tail(s)[j - 1] = s[j]
    BY <1>1, <1>2
  <2>2. \A j \in DOMAIN s : j > i + 1 => s[j].code \notin C
    BY <2>1
  <2> QED
    BY <1>3, <1>4, <2>2 DEF Ends
<1>5. ASSUME Ends(s, C, P), Free(Tail(s), C), Head(s).code \in C PROVE Head(s) \in P
  <2>1. 1 \in DOMAIN s /\ \A j \in DOMAIN s : j > 1 => s[j].code \notin C
    <3>1. 1 \in DOMAIN s /\ \A j \in DOMAIN s : j > 1 => j # 1
      BY <1>1
    <3> QED
      BY <1>2, <1>5, <3>1 DEF Free
  <2> QED
    BY <1>1, <1>5, <2>1 DEF Ends
<1>6. ASSUME Free(Tail(s), C), Head(s).code \notin C PROVE Free(s, C)
  BY <1>1, <1>2, <1>6 DEF Free
<1>7. ASSUME Free(s, C) PROVE Free(Tail(s), C) /\ Head(s).code \notin C
  BY <1>1, <1>3, <1>7 DEF Free
<1> QED
  BY <1>4, <1>5, <1>6, <1>7

\* A message is sent.
LEMMA EndsAppend ==
    ASSUME NEW S, NEW s \in Seq(S), NEW e \in S, NEW C, NEW P
    PROVE  /\ Free(Append(s, e), C) <=> Free(s, C) /\ e.code \notin C
           /\ e.code \notin C /\ Ends(s, C, P) => Ends(Append(s, e), C, P)
           /\ e.code \in C /\ e \in P => Ends(Append(s, e), C, P)
<1> DEFINE t == Append(s, e)
<1>1. /\ Len(s) \in Nat /\ DOMAIN s = 1 .. Len(s) /\ DOMAIN t = 1 .. Len(s) + 1
      /\ t[Len(s) + 1] = e /\ \A i \in 1 .. Len(s) : t[i] = s[i]
  BY AppendShape
<1> HIDE DEF t
<1>2. \A i \in DOMAIN t : i = Len(s) + 1 \/ i \in DOMAIN s
  BY <1>1
<1>3. DOMAIN s \subseteq DOMAIN t /\ Len(s) + 1 \in DOMAIN t
  BY <1>1
<1>4. Free(t, C) <=> Free(s, C) /\ e.code \notin C
  BY <1>1, <1>2, <1>3 DEF Free
<1>5. ASSUME e.code \notin C, Ends(s, C, P) PROVE Ends(t, C, P)
  BY <1>1, <1>2, <1>3, <1>5 DEF Ends
<1>6. ASSUME e.code \in C, e \in P PROVE Ends(t, C, P)
  <2>1. \A i \in DOMAIN s : Len(s) + 1 > i
    BY <1>1
  <2> QED
    BY <1>1, <1>2, <1>3, <1>6, <2>1 DEF Ends
<1> QED
  BY <1>4, <1>5, <1>6 DEF t

\* A new Sess_mgr has no sessions.
LEMMA NewManager ==
    ASSUME NEW sid \in Nat, NEW ips \in Seq(Ips), NEW bans \in SUBSET Ips, NEW w
    PROVE  LET e == Sess_mgr(sid, ips, bans)
           IN  /\ e \in Server /\ Apart(e, w) /\ e.ips = ips /\ e.temp = {} /\ Fresh(e, sid)
               /\ e.sess[Main] = None
<1> DEFINE e == Sess_mgr(sid, ips, bans)
<1>1. /\ e \in Server /\ e.ips = ips /\ e.temp = {} /\ e.sid = sid /\ e.sess = NoSessions
  BY NoSessionsShape DEF Sess_mgr, Server
<1> HIDE DEF e
<1>2. Apart(e, w) /\ Fresh(e, sid) /\ e.sess[Main] = None
  BY <1>1, NoSessionsShape, MainIsSlot DEF Apart, MainOnly, Fresh
<1> QED
  BY <1>1, <1>2 DEF e

\* The base and what follows from nobody dying hold at first.
LEMMA InitBase == Init => Base /\ Immortal
<1> SUFFICES ASSUME Init PROVE Base /\ Immortal
  OBVIOUS
<1>1. /\ world \in World /\ world.ips \in Seq(Ips) /\ world.zone \subseteq Ips
      /\ NumWorkers \in Nat \ {0} /\ MaxWorkers \in Nat /\ NumWorkers <= MaxWorkers
      /\ MaxRetry \in Nat /\ MaxPortRetry \in Nat /\ MaxBanRetries \in Nat /\ MaxApi \in Nat
  BY WorldsAssumption, NumbersAssumption DEF Init, World
<1>2. \A w \in Workers : /\ Sess_mgr(0, world.ips, {}) \in Server
                         /\ Apart(Sess_mgr(0, world.ips, {}), w)
  BY <1>1, NewManager
<1>3. serv \in [Workers -> Server \cup {None}] /\ Servers
  BY <1>2 DEF Init, Servers
<1>4. toW \in [Workers -> Seq(ToWorker)] /\ toM \in [Workers -> Seq(ToMaster)]
  BY DEF Init
<1>5. req \in [Requests -> Request]
  <2>1. 0 \in 0 .. MaxWorkers /\ 0 \in 0 .. MaxRetry + MaxPortRetry + MaxBanRetries
    BY <1>1
  <2>2. Main \in Slots
    BY MainIsSlot
  <2> HIDE DEF Request
  <2>3. [stage |-> "new", at |-> 0, slot |-> Main, own |-> FALSE, ip |-> None, retry |-> 0] \in Request
    BY <2>1, <2>2 DEF Request
  <2> QED
    BY <2>3 DEF Init
<1>6. TypeOK
  <2>1. 0 \in 0 .. MaxApi /\ 1 .. NumWorkers \subseteq Workers
    BY <1>1 DEF Workers
  <2> QED
    BY <1>1, <1>3, <1>4, <1>5, <2>1 DEF Init, TypeOK, Request
<1>7. Created
  BY DEF Init, Created, Free
<1>8. Placed
  BY MainIsSlot DEF Init, Placed, Fits
<1>9. ForkedInOrder
  <2>1. NumWorkers \in NumWorkers .. MaxWorkers
    BY <1>1
  <2> QED
    BY <1>1, <2>1 DEF Init, ForkedInOrder
<1>10. Immortal
  BY DEF Init, Immortal
<1> QED
  BY <1>3, <1>6, <1>7, <1>8, <1>9, <1>10 DEF Base

-----------------------------------------------------------------------------
(***************************************************************************)
(* What a request does to its worker, whatever the answer and the rule:    *)
(* the sessions evolve, at most one IP is reserved and reported, and what  *)
(* a steady port adds to its numbers is reported too.                      *)
(***************************************************************************)
Owed(s) == Cardinality({i \in DOMAIN s : s[i].code = "REFRESH"})

\* A request that does not bring a session of its own.
Regular(r) == Steady /\ ~req[r].own

RequestMoves(w, r) ==
  /\ w \in Workers /\ status[w] = "up"
  /\ UNCHANGED <<world, calls, master, cloud, procs, toW>>
  /\ \E e \in Server, q \in Request, msgs \in Seq(ToMaster) :
       /\ Evolves(serv[w], e, w) /\ serv' = [serv EXCEPT ![w] = e]
       /\ Fits(q.slot) /\ (q.stage \in {"sent", "away"} => q.at = w)
       /\ req' = [req EXCEPT ![r] = q]
       /\ toM' = [toM EXCEPT ![w] = @ \o msgs]
       /\ "renew" \notin world.rule.does => Free(msgs, {"RENEW"})
       /\ Steady => Free(msgs, {"BANIP"})
       /\ Regular(r) => ~q.own /\ Raises(serv[w], e, Owed(msgs))
       /\ \/ e.temp = serv[w].temp
          \/ \E ip \in Ips : /\ MayReserve(serv[w], ip)
                             /\ e.temp = serv[w].temp \cup {ip}
                             /\ [code |-> "ADD", ip |-> ip] \in Range(msgs)

\* The part of the sessions and the request; T is what is reserved then, and
\* the numbers grow by c at most.
Acted(w, r, T, c) ==
  \E e \in Server, p \in Request :
     /\ Evolves(serv[w], e, w) /\ serv' = [serv EXCEPT ![w] = e]
     /\ Fits(p.slot) /\ (p.stage \in {"sent", "away"} => p.at = w)
     /\ req' = [req EXCEPT ![r] = p]
     /\ e.temp = T
     /\ Regular(r) => ~p.own /\ Raises(serv[w], e, c)

\* The part of the messages.
Sent(w, msgs, T, c) ==
  /\ msgs \in Seq(ToMaster) /\ toM' = [toM EXCEPT ![w] = @ \o msgs]
  /\ "renew" \notin world.rule.does => Free(msgs, {"RENEW"})
  /\ Steady => Free(msgs, {"BANIP"}) /\ Owed(msgs) = c
  /\ \/ T = serv[w].temp
     \/ \E ip \in Ips : /\ MayReserve(serv[w], ip)
                        /\ T = serv[w].temp \cup {ip}
                        /\ [code |-> "ADD", ip |-> ip] \in Range(msgs)

\* The refreshes among messages that follow one another.
LEMMA OwedConcat ==
    ASSUME NEW S, NEW s \in Seq(S), NEW t \in Seq(S)
    PROVE  Owed(s) \in Nat /\ Owed(t) \in Nat /\ Owed(s \o t) = Owed(s) + Owed(t)
<1> DEFINE u == s \o t
           A == {i \in DOMAIN s : s[i].code = "REFRESH"}
           B == {i \in DOMAIN t : t[i].code = "REFRESH"}
           C == {i \in DOMAIN u : u[i].code = "REFRESH"}
           D == {Len(s) + i : i \in B}
<1>1. /\ Len(s) \in Nat /\ Len(t) \in Nat /\ Len(u) = Len(s) + Len(t)
      /\ DOMAIN s = 1 .. Len(s) /\ DOMAIN t = 1 .. Len(t) /\ DOMAIN u = 1 .. Len(u)
      /\ \A i \in 1 .. Len(s) : u[i] = s[i]
      /\ \A i \in 1 .. Len(t) : u[Len(s) + i] = t[i]
  OBVIOUS
<1> HIDE DEF u
<1>2. C = A \cup D
  <2>1. ASSUME NEW i \in C PROVE i \in A \cup D
    <3>1. CASE i <= Len(s)
      BY <1>1, <3>1
    <3>2. CASE ~(i <= Len(s))
      <4>1. i - Len(s) \in DOMAIN t /\ i = Len(s) + (i - Len(s))
        BY <1>1, <3>2
      <4>2. t[i - Len(s)] = u[i]
        BY <1>1, <4>1
      <4> QED
        BY <4>1, <4>2
    <3> QED
      BY <3>1, <3>2
  <2>2. A \subseteq C
    BY <1>1
  <2>3. D \subseteq C
    BY <1>1
  <2> QED
    BY <2>1, <2>2, <2>3
<1>3. A \cap D = {}
  BY <1>1
<1>4. IsFiniteSet(A) /\ IsFiniteSet(B)
  <2>1. IsFiniteSet(DOMAIN s) /\ IsFiniteSet(DOMAIN t)
    BY <1>1, FS_Interval
  <2> QED
    BY <2>1, FS_Subset
<1>5. IsFiniteSet(D) /\ Cardinality(D) = Cardinality(B)
  <2> DEFINE f == [i \in B |-> Len(s) + i]
  <2>1. f \in [B -> D] /\ (\A d \in D : \E i \in B : f[i] = d)
    OBVIOUS
  <2>2. \A i, j \in B : f[i] = f[j] => i = j
    BY <1>1
  <2> HIDE DEF f
  <2>3. f \in Bijection(B, D)
    BY <2>1, <2>2 DEF Bijection, Injection, Surjection, IsInjective
  <2>4. ExistsBijection(B, D)
    BY <2>3 DEF ExistsBijection
  <2> QED
    BY <1>4, <2>4, FS_Bijection
<1> HIDE DEF A, B, C, D
<1>6. Cardinality(C) = Cardinality(A) + Cardinality(D) - Cardinality(A \cap D)
  BY <1>2, <1>4, <1>5, FS_Union
<1>7. Cardinality(A \cap D) = 0 /\ Cardinality(A) \in Nat /\ Cardinality(B) \in Nat
  BY <1>3, <1>4, FS_EmptySet, FS_CardinalityType
<1>8. Owed(s) = Cardinality(A) /\ Owed(t) = Cardinality(B) /\ Owed(u) = Cardinality(C)
  BY DEF Owed, A, B, C
<1> QED
  BY <1>5, <1>6, <1>7, <1>8 DEF u

\* And in a few messages, or none.
LEMMA OwedFew ==
    /\ Owed(<<>>) = 0
    /\ \A m : Owed(<<m>>) = IF m.code = "REFRESH" THEN 1 ELSE 0
    /\ \A c \in BOOLEAN : \A m : Owed(If(c, m)) = IF c /\ m.code = "REFRESH" THEN 1 ELSE 0
<1>1. Owed(<<>>) = 0
  <2>1. {i \in DOMAIN <<>> : <<>>[i].code = "REFRESH"} = {}
    OBVIOUS
  <2> QED
    BY <2>1, FS_EmptySet DEF Owed
<1>2. ASSUME NEW m PROVE Owed(<<m>>) = IF m.code = "REFRESH" THEN 1 ELSE 0
  <2>1. {i \in DOMAIN <<m>> : <<m>>[i].code = "REFRESH"} = IF m.code = "REFRESH" THEN {1} ELSE {}
    OBVIOUS
  <2> QED
    BY <2>1, FS_EmptySet, FS_Singleton DEF Owed
<1> QED
  BY <1>1, <1>2 DEF If

\* No message is sent.
LEMMA NothingSent ==
    ASSUME TypeOK, UNCHANGED toM, NEW w \in Workers
    PROVE  Sent(w, <<>>, serv[w].temp, 0)
<1>1. toM[w] \o <<>> = toM[w] /\ toM = [toM EXCEPT ![w] = toM[w]]
  BY DEF TypeOK
<1> QED
  BY <1>1, OwedFew DEF Free, Sent

\* A request with other fields.
LEMMA RequestShape ==
    ASSUME NEW q \in Request, NEW w \in Workers
    PROVE  /\ q.slot \in Slots /\ q.retry \in Nat /\ q.own \in BOOLEAN /\ q.ip \in Ips \cup {None}
           /\ [q EXCEPT !.stage = "done", !.ip = None] \in Request
           /\ [q EXCEPT !.stage = "away", !.ip = None] \in Request
           /\ \A ip \in Ips \cup {None} : [q EXCEPT !.stage = "sent", !.ip = ip] \in Request
           /\ \A own \in BOOLEAN, s \in Slots :
                 [q EXCEPT !.at = w, !.own = own, !.slot = s] \in Request
<1> DEFINE caps == 0..(MaxRetry + MaxPortRetry + MaxBanRetries)
           ids == 0..MaxWorkers
<1>1. caps \subseteq Nat /\ w \in ids
  BY NumbersAssumption DEF Workers
<1>2. q \in [stage: {"new", "sent", "away", "done", "lost"}, at: ids, slot: Slots,
             own: BOOLEAN, ip: Ips \cup {None}, retry: caps]
  BY DEF Request
<1>3. Request = [stage: {"new", "sent", "away", "done", "lost"}, at: ids, slot: Slots,
                 own: BOOLEAN, ip: Ips \cup {None}, retry: caps]
  BY DEF Request
<1> HIDE DEF caps, ids
<1>4. /\ q.slot \in Slots /\ q.retry \in Nat /\ q.own \in BOOLEAN /\ q.ip \in Ips \cup {None}
  BY <1>1, <1>2
<1>5. /\ [q EXCEPT !.stage = "done", !.ip = None] \in Request
      /\ [q EXCEPT !.stage = "away", !.ip = None] \in Request
  BY <1>2, <1>3
<1>6. \A ip \in Ips \cup {None} : [q EXCEPT !.stage = "sent", !.ip = ip] \in Request
  BY <1>2, <1>3
<1>7. \A own \in BOOLEAN, s \in Slots :
         [q EXCEPT !.at = w, !.own = own, !.slot = s] \in Request
  BY <1>1, <1>2, <1>3
<1> QED
  BY <1>4, <1>5, <1>6, <1>7

\* The counter of a retry stays within the caps.
LEMMA RetryCounted ==
    ASSUME TypeOK, NEW q \in Request, can_retry(q) \/ q.retry < MaxBanRetries
    PROVE  /\ [q EXCEPT !.retry = Count(q)] \in Request
           /\ [q EXCEPT !.retry = Count(q)].slot = q.slot
           /\ [q EXCEPT !.retry = Count(q)].at = q.at
           /\ [q EXCEPT !.retry = Count(q)].own = q.own
           /\ [q EXCEPT !.retry = Count(q)].stage = q.stage
<1> DEFINE caps == 0..(MaxRetry + MaxPortRetry + MaxBanRetries)
           n == q.retry + 1
<1>1. MaxRetry \in Nat /\ MaxPortRetry \in Nat /\ MaxBanRetries \in Nat
  BY NumbersAssumption
<1>2. q.retry \in caps
  BY DEF Request
<1>3. n \in caps
  BY <1>1, <1>2 DEF can_retry, RetryCap
<1>4. Request = [stage: {"new", "sent", "away", "done", "lost"}, at: 0..MaxWorkers,
                 slot: Slots, own: BOOLEAN, ip: Ips \cup {None}, retry: caps]
  BY DEF Request
<1>5. [q EXCEPT !.retry = Count(q)] = [q EXCEPT !.retry = n]
  BY DEF Count
<1> HIDE DEF caps, n
<1> QED
  BY <1>3, <1>4, <1>5

\* A request takes a session of worker w, whose state is k.
LEMMA BeginMoves ==
    ASSUME TypeOK, NEW w \in Workers, NEW r \in Requests, NEW k \in Server,
           Evolves(serv[w], k, w), NEW q \in Request, Fits(q.slot), q.at = w,
           NEW c \in Nat, Regular(r) => ~q.own /\ Raises(serv[w], k, c),
           Begin(k, w, r, q)
    PROVE  Acted(w, r, k.temp, c)
<1> DEFINE l == Leave(k, r)
           e == request_session(l, w, r, q.slot, q.own)
<1>1. Evolves(k, l, w) /\ l.temp = k.temp
  BY LeaveEvolves DEF Evolves
<1>2. l \in Server /\ Apart(l, w) /\ q.own \in BOOLEAN /\ q.slot \in Slots
  BY <1>1, RequestShape DEF Evolves
<1>3. serv' = [serv EXCEPT ![w] = e]
  BY DEF Begin
<1>4. req' = [req EXCEPT ![r] = [q EXCEPT !.stage = "sent",
                                          !.ip = IF q.own THEN None ELSE serv'[w].sess[q.slot].ip]]
  BY DEF Begin
<1> HIDE DEF l
<1>5. /\ Evolves(l, e, w) /\ e.temp = l.temp
      /\ ~q.own => e.sess[q.slot] \in Session
  BY <1>2, RequestEvolves
<1> HIDE DEF e
<1>6. Evolves(serv[w], e, w) /\ e.temp = k.temp /\ e \in Server
  <2>1. Evolves(k, e, w)
    BY <1>1, <1>5, EvolvesOn
  <2> QED
    BY <1>1, <1>5, <2>1, EvolvesOn DEF Evolves
<1>7. serv'[w] = e
  BY <1>3 DEF TypeOK
<1> DEFINE ip == IF q.own THEN None ELSE serv'[w].sess[q.slot].ip
           p == [q EXCEPT !.stage = "sent", !.ip = ip]
<1>8. ip \in Ips \cup {None}
  BY <1>5, <1>7 DEF Session
<1>9. req' = [req EXCEPT ![r] = p]
  BY <1>4
<1> HIDE DEF ip
<1>10. p \in Request /\ p.slot = q.slot /\ p.at = w
  BY <1>8, RequestShape DEF Request
<1>11. p.own = q.own
  BY DEF Request
<1> HIDE DEF p
<1>12. Regular(r) => ~p.own /\ Raises(serv[w], e, c)
  <2> SUFFICES ASSUME Regular(r) PROVE ~p.own /\ Raises(serv[w], e, c)
    OBVIOUS
  <2>1. ~q.own /\ Raises(serv[w], k, c) /\ q.own = FALSE
    BY <1>2
  <2>2. Raises(k, l, 0)
    BY AnsweredRaises, MainIsSlot DEF l
  <2>3. e = request_session(l, w, r, q.slot, FALSE)
    BY <2>1 DEF e
  <2>4. Raises(l, e, 0)
    BY <1>2, <2>3, RequestRaises
  <2>5. Raises(k, e, 0 + 0)
    BY <2>2, <2>4, RaisesOn
  <2>6. Raises(serv[w], e, c + (0 + 0)) /\ c + (0 + 0) = c
    BY <2>1, <2>5, RaisesOn
  <2> QED
    BY <1>11, <2>1, <2>6
<1> QED
  BY <1>3, <1>6, <1>9, <1>10, <1>12 DEF Acted

\* A request ends, or goes away to another port.
LEMMA FinishMoves ==
    ASSUME TypeOK, NEW w \in Workers, NEW r \in Requests, NEW k \in Server,
           Evolves(serv[w], k, w), Fits(req[r].slot), Finish(k, w, r),
           NEW c \in Nat, Regular(r) => Raises(serv[w], k, c)
    PROVE  Acted(w, r, k.temp, c)
<1> DEFINE e == Leave(k, r)
           p == [req[r] EXCEPT !.stage = "done", !.ip = None]
<1>1. Evolves(k, e, w) /\ e.temp = k.temp
  BY LeaveEvolves DEF Evolves
<1>2. Evolves(serv[w], e, w) /\ e \in Server
  BY <1>1, EvolvesOn DEF Evolves
<1>3. req[r] \in Request
  BY Typed
<1>4. p \in Request /\ p.slot = req[r].slot /\ p.stage = "done" /\ p.own = req[r].own
  BY <1>3, RequestShape DEF Request
<1>5. serv' = [serv EXCEPT ![w] = e] /\ req' = [req EXCEPT ![r] = p]
  <2>1. req' = [req EXCEPT ![r].stage = "done", ![r].ip = None]
    BY DEF Finish
  <2> QED
    BY <1>3, <2>1 DEF Finish, TypeOK, Request
<1>6. Regular(r) => Raises(serv[w], e, c)
  <2>1. Raises(k, e, 0) /\ c + 0 = c
    BY AnsweredRaises, MainIsSlot
  <2> HIDE DEF e
  <2> QED
    BY <2>1, RaisesOn
<1> HIDE DEF e, p
<1> QED
  BY <1>1, <1>2, <1>4, <1>5, <1>6 DEF Acted, Regular

\* The parts put together: sessions that evolved, the request, the messages.
LEMMA MovesTogether ==
    ASSUME NEW w \in Workers, NEW r \in Requests, status[w] = "up",
           UNCHANGED <<world, calls, master, cloud, procs, toW>>,
           NEW msgs, NEW T, NEW c, Sent(w, msgs, T, c), Acted(w, r, T, c)
    PROVE  RequestMoves(w, r)
<1>1. PICK e \in Server, p \in Request :
              /\ Evolves(serv[w], e, w) /\ serv' = [serv EXCEPT ![w] = e]
              /\ Fits(p.slot) /\ (p.stage \in {"sent", "away"} => p.at = w)
              /\ req' = [req EXCEPT ![r] = p]
              /\ e.temp = T
              /\ Regular(r) => ~p.own /\ Raises(serv[w], e, c)
  BY DEF Acted
<1> QED
  BY <1>1 DEF RequestMoves, Sent, Regular

\* The worker of a request that is under way.
LEMMA AtWorker ==
    ASSUME Base, NEW r \in Requests, req[r].stage \in {"sent", "away"}
    PROVE  /\ req[r].at \in Workers /\ status[req[r].at] = "up"
           /\ serv[req[r].at] \in Server /\ Apart(serv[req[r].at], req[r].at)
           /\ req[r] \in Request /\ Fits(req[r].slot)
BY Typed DEF Base, Placed, Servers

\* A request arrives.
LEMMA ArriveMoves ==
    ASSUME Base, NEW r \in Requests, NEW w \in Workers, Arrive(r, w)
    PROVE  RequestMoves(w, r)
<1>1. PICK src \in Srcs, own \in BOOLEAN :
         /\ own => "own" \in world.besides
         /\ Begin(serv[w], w, r, [req[r] EXCEPT !.at = w, !.own = own,
                                    !.slot = IF world.mode = "sticky" THEN src ELSE Main])
  BY DEF Arrive
<1> DEFINE slot == IF world.mode = "sticky" THEN src ELSE Main
           q == [req[r] EXCEPT !.at = w, !.own = own, !.slot = slot]
<1>2. Fits(slot)
  BY DEF Fits, Slots
<1>3. TypeOK /\ req[r] \in Request /\ status[w] = "up"
  BY Typed DEF Base, Arrive
<1>4. q \in Request /\ q.slot = slot /\ q.at = w /\ q.own = own
  <2>1. slot \in Slots
    BY <1>2 DEF Fits
  <2> HIDE DEF slot
  <2>2. q \in Request
    BY <1>3, <2>1, RequestShape
  <2>3. q.slot = slot /\ q.at = w /\ q.own = own
    BY <1>3 DEF Request
  <2> QED
    BY <2>2, <2>3
<1>5. serv[w] \in Server /\ Apart(serv[w], w)
  BY <1>3 DEF Base, Servers
<1>6. Evolves(serv[w], serv[w], w)
  BY <1>5, EvolvesNot
<1>7. Begin(serv[w], w, r, q)
  BY <1>1
<1>11. Regular(r) => ~q.own /\ Raises(serv[w], serv[w], 0)
  BY <1>1, <1>4, RaisesNot DEF Regular, Steady
<1> HIDE DEF q, slot
<1>8. Acted(w, r, serv[w].temp, 0)
  BY <1>2, <1>3, <1>4, <1>5, <1>6, <1>7, <1>11, BeginMoves
<1>9. UNCHANGED <<world, calls, master, cloud, procs, toW, toM>>
  BY DEF Arrive
<1>10. Sent(w, <<>>, serv[w].temp, 0)
  BY <1>3, <1>9, NothingSent
<1> QED
  BY <1>3, <1>8, <1>9, <1>10, MovesTogether

\* Messages sent together.
LEMMA ConcatShape ==
    ASSUME NEW S, NEW s \in Seq(S), NEW t \in Seq(S), NEW C
    PROVE  /\ s \o t \in Seq(S)
           /\ Range(s) \subseteq Range(s \o t) /\ Range(t) \subseteq Range(s \o t)
           /\ Free(s, C) /\ Free(t, C) => Free(s \o t, C)
           /\ \A i \in DOMAIN s : i \in DOMAIN (s \o t) /\ (s \o t)[i] = s[i]
<1> DEFINE u == s \o t
<1>1. /\ u \in Seq(S) /\ Len(s) \in Nat /\ Len(t) \in Nat /\ Len(u) = Len(s) + Len(t)
      /\ DOMAIN s = 1 .. Len(s) /\ DOMAIN t = 1 .. Len(t) /\ DOMAIN u = 1 .. Len(u)
      /\ \A i \in 1 .. Len(s) : u[i] = s[i]
      /\ \A i \in 1 .. Len(t) : u[Len(s) + i] = t[i]
  OBVIOUS
<1> HIDE DEF u
<1>2. \A i \in DOMAIN s : i \in DOMAIN u /\ u[i] = s[i]
  BY <1>1
<1>3. \A i \in DOMAIN t : Len(s) + i \in DOMAIN u /\ u[Len(s) + i] = t[i]
  BY <1>1
<1>4. Range(s) \subseteq Range(u) /\ Range(t) \subseteq Range(u)
  BY <1>2, <1>3 DEF Range
<1>5. ASSUME Free(s, C), Free(t, C) PROVE Free(u, C)
  <2> SUFFICES ASSUME NEW i \in DOMAIN u PROVE u[i].code \notin C
    BY DEF Free
  <2>1. CASE i \in DOMAIN s
    BY <1>2, <1>5, <2>1 DEF Free
  <2>2. CASE i \notin DOMAIN s
    <3>1. i - Len(s) \in DOMAIN t /\ i = Len(s) + (i - Len(s))
      BY <1>1, <2>2
    <3> QED
      BY <1>3, <1>5, <3>1 DEF Free
  <2> QED
    BY <2>1, <2>2
<1> QED
  BY <1>1, <1>2, <1>4, <1>5 DEF u

\* A message that is sent under a condition.
LEMMA IfShape ==
    ASSUME NEW S, NEW c \in BOOLEAN, NEW m, c => m \in S, NEW C
    PROVE  /\ If(c, m) \in Seq(S)
           /\ c => m \in Range(If(c, m))
           /\ (c => m.code \notin C) => Free(If(c, m), C)
<1>1. CASE c
  <2>1. If(c, m) = <<m>> /\ <<m>> \in Seq(S) /\ DOMAIN <<m>> = {1} /\ <<m>>[1] = m
    BY <1>1 DEF If
  <2> QED
    BY <1>1, <2>1 DEF Range, Free
<1>2. CASE ~c
  <2>1. If(c, m) = <<>> /\ <<>> \in Seq(S) /\ DOMAIN <<>> = {}
    BY <1>2 DEF If
  <2> QED
    BY <1>2, <2>1 DEF Free
<1> QED
  BY <1>1, <1>2

\* A reservation looks at the IPs only.
LEMMA ReserveShape ==
    ASSUME NEW k, NEW e, e.ips = k.ips, e.temp = k.temp, NEW ip
    PROVE  MayReserve(k, ip) <=> MayReserve(e, ip)
BY DEF MayReserve

\* What a rule does with an answer, or with an error.
LEMMA RuleMoves ==
    ASSUME Base, NEW r \in Requests, NEW ip \in Ips \cup {None},
           req[r].stage \in {"sent", "away"},
           UNCHANGED <<world, calls, master, cloud, procs, toW>>, RuleAnswer(r, ip)
    PROVE  RequestMoves(req[r].at, r)
<1> DEFINE w == req[r].at
           q == [req[r] EXCEPT !.retry = Count(req[r])]
           k == LastRes(serv[w], r, ip)
           own_ip == IF req[r].ip # None THEN req[r].ip ELSE ip
           reserve == "reserve" \in world.rule.does /\ own_ip # None /\ MayReserve(k, own_ip)
           ban == "ban" \in world.rule.does /\ ip # None
           drop == ban /\ req[r].ip \in Range(k.ips)
           renew == "renew" \in world.rule.does /\ ip # None /\ can_retry(req[r])
           new == world.rule.retry = "new" /\ can_retry(req[r])
           k1 == IF reserve THEN [k EXCEPT !.temp = @ \cup {own_ip}] ELSE k
           k2 == IF ban THEN [Cancel(k1, r) EXCEPT !.banned = @ \cup {ip}] ELSE k1
           k3 == IF new THEN refresh_sessions(k2, w, 0) ELSE k2
           add == [code |-> "ADD", ip |-> own_ip]
           msgs == If(reserve, add) \o If(ban, [code |-> "BANIP", ip |-> ip])
                   \o If(drop, [code |-> "REMOVE", ip |-> req[r].ip])
                   \o If(renew, [code |-> "RENEW", ip |-> ip])
                   \o If(new, [code |-> "REFRESH"])
<1>1. /\ w \in Workers /\ status[w] = "up" /\ serv[w] \in Server /\ Apart(serv[w], w)
      /\ req[r] \in Request /\ Fits(req[r].slot) /\ TypeOK
  BY AtWorker DEF Base
<1>2. toM' = [toM EXCEPT ![w] = @ \o msgs]
  BY DEF RuleAnswer, Send
<1>3. \/ ~can_retry(req[r]) /\ Finish(k3, w, r)
      \/ can_retry(req[r]) /\ new /\ Begin(k3, w, r, q)
      \/ can_retry(req[r]) /\ serv' = [serv EXCEPT ![w] = k3] /\ req' = [req EXCEPT ![r] = q]
      \/ /\ can_retry(req[r]) /\ serv' = [serv EXCEPT ![w] = Leave(k3, r)]
         /\ req' = [req EXCEPT ![r] = [q EXCEPT !.stage = "away", !.ip = None]]
  <2>1. world.rule.retry \in {"new", "same", "port", "no"}
    BY <1>1, Typed DEF World
  <2>2. can_retry(req[r]) => world.rule.retry # "no"
    BY DEF can_retry
  <2> QED
    BY <2>1, <2>2 DEF RuleAnswer
<1>4. reserve => own_ip \in Ips
  BY <1>1, RequestShape
<1>18. ban \/ renew => ip \in Ips
  OBVIOUS
<1>5. /\ reserve \in BOOLEAN /\ ban \in BOOLEAN /\ drop \in BOOLEAN /\ renew \in BOOLEAN
      /\ new \in BOOLEAN
  BY DEF MayReserve, can_retry
<1>6. Evolves(serv[w], k, w) /\ k.temp = serv[w].temp /\ k \in Server /\ Apart(k, w)
      /\ k.ips = serv[w].ips
  BY <1>1, LastResEvolves DEF Evolves
<1>7. reserve => MayReserve(serv[w], own_ip)
  BY <1>6, ReserveShape
<1>8. /\ msgs \in Seq(ToMaster)
      /\ ("renew" \notin world.rule.does => Free(msgs, {"RENEW"}))
      /\ (reserve => add \in Range(msgs))
      /\ Owed(msgs) = IF new THEN 1 ELSE 0
      /\ ~ban => Free(msgs, {"BANIP"})
  <2>0. drop => ban
    OBVIOUS
  <2> HIDE DEF w, q, k, own_ip, reserve, ban, k1, k2, k3, new
  <2> DEFINE s1 == If(reserve, add)
             s2 == If(ban, [code |-> "BANIP", ip |-> ip])
             s3 == If(drop, [code |-> "REMOVE", ip |-> req[r].ip])
             s4 == If(renew, [code |-> "RENEW", ip |-> ip])
             s5 == If(new, [code |-> "REFRESH"])
  <2>1. drop => req[r].ip \in Ips
    BY <1>6, ServerShape, RangeType DEF drop
  <2>12. renew => ip \in Ips
    BY <1>18
  <2> HIDE DEF drop
  <2>2. /\ reserve => add \in ToMaster
        /\ ban => [code |-> "BANIP", ip |-> ip] \in ToMaster
        /\ drop => [code |-> "REMOVE", ip |-> req[r].ip] \in ToMaster
        /\ renew => [code |-> "RENEW", ip |-> ip] \in ToMaster
        /\ [code |-> "REFRESH"] \in ToMaster
    BY <1>4, <1>18, <2>1, <2>12 DEF ToMaster
  <2>3. /\ s1 \in Seq(ToMaster) /\ Free(s1, {"RENEW"}) /\ (reserve => add \in Range(s1))
        /\ s2 \in Seq(ToMaster) /\ Free(s2, {"RENEW"})
        /\ s3 \in Seq(ToMaster) /\ Free(s3, {"RENEW"})
        /\ s5 \in Seq(ToMaster) /\ Free(s5, {"RENEW"})
    <3>1. s1 \in Seq(ToMaster) /\ Free(s1, {"RENEW"}) /\ (reserve => add \in Range(s1))
      <4>1. add.code \notin {"RENEW"}
        OBVIOUS
      <4> HIDE DEF add
      <4> QED
        BY <1>5, <2>2, <4>1, IfShape
    <3>2. s2 \in Seq(ToMaster) /\ Free(s2, {"RENEW"})
      <4> DEFINE m == [code |-> "BANIP", ip |-> ip]
      <4>1. m.code \notin {"RENEW"} /\ (ban => m \in ToMaster)
        BY <2>2
      <4> HIDE DEF m
      <4>2. If(ban, m) \in Seq(ToMaster) /\ Free(If(ban, m), {"RENEW"})
        BY <1>5, <4>1, IfShape
      <4> QED
        BY <4>2 DEF m
    <3>3. s3 \in Seq(ToMaster) /\ Free(s3, {"RENEW"})
      <4> DEFINE m == [code |-> "REMOVE", ip |-> req[r].ip]
      <4>1. m.code \notin {"RENEW"} /\ (drop => m \in ToMaster)
        BY <2>2
      <4> HIDE DEF m
      <4>2. If(drop, m) \in Seq(ToMaster) /\ Free(If(drop, m), {"RENEW"})
        BY <1>5, <4>1, IfShape
      <4> QED
        BY <4>2 DEF m
    <3>4. s5 \in Seq(ToMaster) /\ Free(s5, {"RENEW"})
      <4> DEFINE m == [code |-> "REFRESH"]
      <4>1. m.code \notin {"RENEW"} /\ m \in ToMaster
        BY <2>2
      <4> HIDE DEF m
      <4>2. If(new, m) \in Seq(ToMaster) /\ Free(If(new, m), {"RENEW"})
        BY <1>5, <4>1, IfShape
      <4> QED
        BY <4>2 DEF m
    <3> QED
      BY <3>1, <3>2, <3>3, <3>4
  <2>4. s4 \in Seq(ToMaster) /\ ("renew" \notin world.rule.does => Free(s4, {"RENEW"}))
    <3> DEFINE m == [code |-> "RENEW", ip |-> ip]
    <3>1. (renew => m \in ToMaster) /\ ("renew" \notin world.rule.does => ~renew)
      BY <2>2
    <3> HIDE DEF m, renew
    <3>2. If(renew, m) \in Seq(ToMaster) /\ (~renew => Free(If(renew, m), {"RENEW"}))
      BY <1>5, <3>1, IfShape
    <3> QED
      BY <3>1, <3>2 DEF m
  <2>13. /\ Free(s1, {"BANIP"}) /\ Free(s3, {"BANIP"}) /\ Free(s4, {"BANIP"})
         /\ Free(s5, {"BANIP"}) /\ (~ban => Free(s2, {"BANIP"}))
    BY DEF If, Free
  <2>14. /\ Owed(s1) = 0 /\ Owed(s2) = 0 /\ Owed(s3) = 0 /\ Owed(s4) = 0
         /\ Owed(s5) = IF new THEN 1 ELSE 0
    <3>1. /\ add.code = "ADD" /\ [code |-> "BANIP", ip |-> ip].code = "BANIP"
          /\ [code |-> "REMOVE", ip |-> req[r].ip].code = "REMOVE"
          /\ [code |-> "RENEW", ip |-> ip].code = "RENEW"
          /\ [code |-> "REFRESH"].code = "REFRESH"
      OBVIOUS
    <3> HIDE DEF add, renew
    <3> QED
      BY <1>5, <3>1, OwedFew
  <2>5. msgs = s1 \o s2 \o s3 \o s4 \o s5
    BY DEF msgs
  <2> HIDE DEF s1, s2, s3, s4, s5, renew, add
  <2>6. /\ s1 \o s2 \in Seq(ToMaster) /\ Free(s1 \o s2, {"RENEW"})
        /\ Range(s1) \subseteq Range(s1 \o s2)
        /\ Owed(s1 \o s2) = 0 /\ (~ban => Free(s1 \o s2, {"BANIP"}))
    <3>1. Owed(s1 \o s2) = Owed(s1) + Owed(s2)
      BY <2>3, OwedConcat
    <3> QED
      BY <2>3, <2>13, <2>14, <3>1, ConcatShape
  <2> DEFINE t2 == s1 \o s2
             t3 == t2 \o s3
             t4 == t3 \o s4
  <2> HIDE DEF t2
  <2>7. /\ t3 \in Seq(ToMaster) /\ Free(t3, {"RENEW"}) /\ Range(t2) \subseteq Range(t3)
        /\ Owed(t3) = 0 /\ (~ban => Free(t3, {"BANIP"}))
    <3>1. t2 \in Seq(ToMaster) /\ Free(t2, {"RENEW"}) /\ Owed(t2) = 0 /\ (~ban => Free(t2, {"BANIP"}))
      BY <2>6 DEF t2
    <3>2. Owed(t2 \o s3) = Owed(t2) + Owed(s3)
      BY <2>3, <3>1, OwedConcat
    <3> QED
      BY <2>3, <2>13, <2>14, <3>1, <3>2, ConcatShape
  <2> HIDE DEF t3
  <2>8. /\ t4 \in Seq(ToMaster) /\ Range(t3) \subseteq Range(t4)
        /\ ("renew" \notin world.rule.does => Free(t4, {"RENEW"}))
        /\ Owed(t4) = 0 /\ (~ban => Free(t4, {"BANIP"}))
    <3>1. Owed(t3 \o s4) = Owed(t3) + Owed(s4)
      BY <2>4, <2>7, OwedConcat
    <3> QED
      BY <2>4, <2>7, <2>13, <2>14, <3>1, ConcatShape
  <2> HIDE DEF t4
  <2>9. /\ t4 \o s5 \in Seq(ToMaster) /\ Range(t4) \subseteq Range(t4 \o s5)
        /\ ("renew" \notin world.rule.does => Free(t4 \o s5, {"RENEW"}))
        /\ Owed(t4 \o s5) = (IF new THEN 1 ELSE 0) /\ (~ban => Free(t4 \o s5, {"BANIP"}))
    <3>1. Owed(t4 \o s5) = Owed(t4) + Owed(s5)
      BY <2>3, <2>8, OwedConcat
    <3>2. Owed(t4 \o s5) = IF new THEN 1 ELSE 0
      BY <2>8, <2>14, <3>1
    <3> QED
      BY <2>3, <2>8, <2>13, <3>2, ConcatShape
  <2>10. msgs = t4 \o s5
    BY <2>5 DEF t2, t3, t4
  <2>11. reserve => add \in Range(t4 \o s5)
    BY <2>3, <2>6, <2>7, <2>8, <2>9 DEF t2
  <2> HIDE DEF msgs
  <2> QED
    BY <2>9, <2>10, <2>11
<1>9. k1.temp = IF reserve THEN serv[w].temp \cup {own_ip} ELSE serv[w].temp
  <2>1. reserve => k.temp \cup {own_ip} \in SUBSET Ips
    BY <1>4, <1>6, ServerShape
  <2>2. reserve => [k EXCEPT !.temp = k.temp \cup {own_ip}].temp = k.temp \cup {own_ip}
    BY <1>6, <2>1, MarkedEvolves
  <2> HIDE DEF reserve, k
  <2> QED
    BY <1>6, <2>2
<1>10. Evolves(serv[w], k1, w) /\ k1 \in Server /\ Apart(k1, w)
  <2>1. reserve => k.temp \cup {own_ip} \in SUBSET Ips
    BY <1>4, <1>6, ServerShape
  <2> HIDE DEF k, reserve
  <2>2. reserve => Evolves(k, [k EXCEPT !.temp = k.temp \cup {own_ip}], w)
    BY <1>6, <2>1, MarkedEvolves
  <2>3. Evolves(k, k1, w)
    BY <1>6, <2>2, EvolvesNot
  <2> HIDE DEF k1
  <2> QED
    BY <1>6, <2>3, EvolvesOn DEF Evolves
<1>19. Steady => ~ban
  BY DEF Steady
<1>11. Sent(w, msgs, k1.temp, IF new THEN 1 ELSE 0)
  <2> HIDE DEF msgs, k1, reserve, ban, new
  <2> QED
    BY <1>2, <1>4, <1>7, <1>8, <1>9, <1>19 DEF Sent
<1>20. Raises(serv[w], k1, 0)
  <2>1. Raises(serv[w], k, 0)
    BY <1>1, AnsweredRaises
  <2> HIDE DEF k, reserve
  <2>2. Raises(k, k1, 0)
    BY <1>6, ReservedRaises, RaisesNot
  <2> HIDE DEF k1
  <2>3. Raises(serv[w], k1, 0 + 0)
    BY <2>1, <2>2, RaisesOn
  <2> QED
    BY <2>3
<1>17. Fits(req[r].slot)
  BY <1>1
<1> HIDE DEF w, k, reserve, k1, msgs
<1>12. Evolves(serv[w], k2, w) /\ k2.temp = k1.temp /\ k2 \in Server /\ Apart(k2, w)
  <2> DEFINE c == Cancel(k1, r)
  <2>1. Evolves(k1, c, w) /\ c.temp = k1.temp /\ c \in Server /\ Apart(c, w)
    BY <1>10, CancelEvolves DEF Evolves
  <2>2. ban => c.banned \cup {ip} \in SUBSET Ips
    BY <1>18, <2>1, ServerShape
  <2>3. k2 = IF ban THEN [c EXCEPT !.banned = c.banned \cup {ip}] ELSE k1
    OBVIOUS
  <2> HIDE DEF c, k2, ban
  <2>4. ban => /\ Evolves(c, [c EXCEPT !.banned = c.banned \cup {ip}], w)
               /\ [c EXCEPT !.banned = c.banned \cup {ip}].temp = c.temp
    BY <2>1, <2>2, MarkedEvolves
  <2>5. CASE ban
    <3>1. Evolves(c, k2, w) /\ k2.temp = c.temp
      BY <2>3, <2>4, <2>5
    <3>2. Evolves(k1, k2, w)
      BY <2>1, <3>1, EvolvesOn
    <3> QED
      BY <1>10, <2>1, <3>1, <3>2, EvolvesOn DEF Evolves
  <2>6. CASE ~ban
    BY <1>10, <2>3, <2>6
  <2> QED
    BY <2>5, <2>6
<1>21. Steady => k2 = k1
  BY <1>19
<1> HIDE DEF k2, ban
<1> DEFINE c == IF new THEN 1 ELSE 0
<1>13. Evolves(serv[w], k3, w) /\ k3.temp = k1.temp /\ k3 \in Server /\ Apart(k3, w)
  <2>1. CASE new
    <3>1. Evolves(k2, k3, w) /\ k3.temp = k2.temp
      BY <1>1, <1>12, <2>1, RefreshEvolves
    <3> HIDE DEF k3
    <3> QED
      BY <1>12, <3>1, EvolvesOn DEF Evolves
  <2>2. CASE ~new
    BY <1>12, <2>2
  <2> QED
    BY <2>1, <2>2
<1>22. c \in Nat /\ (Regular(r) => Raises(serv[w], k3, c))
  <2>1. ASSUME Steady PROVE Raises(k1, k3, c)
    <3>1. CASE new
      BY <1>1, <1>10, <1>21, <2>1, <3>1, RefreshRaises
    <3>2. CASE ~new
      BY <1>21, <2>1, <3>2, RaisesNot
    <3> QED
      BY <3>1, <3>2
  <2> HIDE DEF k3, new
  <2>2. c \in Nat /\ 0 + c = c
    OBVIOUS
  <2> HIDE DEF c
  <2> QED
    BY <1>20, <2>1, <2>2, RaisesOn DEF Regular
<1> HIDE DEF k3, c
<1>14. can_retry(req[r]) => /\ q \in Request /\ q.slot = req[r].slot
                            /\ q.at = w /\ q.own = req[r].own
  BY <1>1, RetryCounted DEF w
<1> HIDE DEF q
<1>15. Acted(w, r, k1.temp, c)
  <2>1. CASE ~can_retry(req[r]) /\ Finish(k3, w, r)
    <3>1. Acted(w, r, k3.temp, c)
      BY <1>1, <1>13, <1>22, <2>1, FinishMoves
    <3> QED
      BY <1>13, <3>1
  <2>2. CASE can_retry(req[r]) /\ new /\ Begin(k3, w, r, q)
    <3>1. Acted(w, r, k3.temp, c)
      BY <1>1, <1>13, <1>14, <1>22, <2>2, BeginMoves DEF Regular
    <3> QED
      BY <1>13, <3>1
  <2>3. CASE /\ can_retry(req[r]) /\ serv' = [serv EXCEPT ![w] = k3]
             /\ req' = [req EXCEPT ![r] = q]
    BY <1>13, <1>14, <1>17, <1>22, <2>3 DEF Acted, Regular
  <2>4. CASE /\ can_retry(req[r]) /\ serv' = [serv EXCEPT ![w] = Leave(k3, r)]
             /\ req' = [req EXCEPT ![r] = [q EXCEPT !.stage = "away", !.ip = None]]
    <3> DEFINE e == Leave(k3, r)
               p == [q EXCEPT !.stage = "away", !.ip = None]
    <3>1. Evolves(k3, e, w) /\ e.temp = k3.temp
      BY <1>13, LeaveEvolves
    <3>2. p \in Request /\ p.slot = q.slot /\ p.at = q.at /\ p.own = q.own
      <4>1. q \in Request /\ w \in Workers
        BY <1>1, <1>14, <2>4
      <4>2. p \in Request
        BY <4>1, RequestShape
      <4> QED
        BY <4>1, <4>2 DEF Request
    <3>3. serv' = [serv EXCEPT ![w] = e] /\ req' = [req EXCEPT ![r] = p]
      BY <2>4
    <3>6. Regular(r) => Raises(serv[w], e, c)
      <4>1. Raises(k3, e, 0) /\ c + 0 = c
        BY <1>13, <1>22, AnsweredRaises
      <4> HIDE DEF e
      <4> QED
        BY <1>22, <4>1, RaisesOn
    <3> HIDE DEF e, p
    <3>4. Evolves(serv[w], e, w) /\ e \in Server /\ e.temp = k1.temp
      BY <1>13, <3>1, EvolvesOn DEF Evolves
    <3>5. p \in Request /\ Fits(p.slot) /\ p.at = w
      BY <1>14, <1>17, <2>4, <3>2
    <3> QED
      BY <1>14, <2>4, <3>2, <3>3, <3>4, <3>5, <3>6 DEF Acted, Regular
  <2> QED
    BY <1>3, <2>1, <2>2, <2>3, <2>4
<1>16. RequestMoves(w, r)
  BY <1>1, <1>11, <1>15, MovesTogether DEF c
<1> QED
  BY <1>16 DEF w

\* An answer that no rule matches, or an error.
LEMMA EndMoves ==
    ASSUME Base, NEW r \in Requests, req[r].stage \in {"sent", "away"},
           UNCHANGED <<world, calls, master, cloud, procs, toW, toM>>,
           NEW k, \/ k = serv[req[r].at]
                  \/ \E ip \in Ips : k = LastRes(serv[req[r].at], r, ip),
           Finish(k, req[r].at, r)
    PROVE  RequestMoves(req[r].at, r)
<1> DEFINE w == req[r].at
<1>1. /\ w \in Workers /\ status[w] = "up" /\ serv[w] \in Server /\ Apart(serv[w], w)
      /\ Fits(req[r].slot) /\ TypeOK
  BY AtWorker DEF Base
<1>2. /\ Evolves(serv[w], k, w) /\ k.temp = serv[w].temp /\ k \in Server
      /\ Raises(serv[w], k, 0)
  BY <1>1, EvolvesNot, RaisesNot, LastResEvolves, AnsweredRaises DEF Evolves
<1>3. Finish(k, w, r)
  OBVIOUS
<1> HIDE DEF w
<1>4. Acted(w, r, k.temp, 0)
  BY <1>1, <1>2, <1>3, FinishMoves
<1>5. Sent(w, <<>>, k.temp, 0)
  BY <1>1, <1>2, NothingSent
<1>6. RequestMoves(w, r)
  BY <1>1, <1>4, <1>5, MovesTogether
<1> QED
  BY <1>6 DEF w

\* An error, which the rules may retry.
LEMMA ErrorMoves ==
    ASSUME Base, NEW r \in Requests, req[r].stage = "sent",
           UNCHANGED <<world, calls, master, cloud, procs, toW>>, ErrorAnswer(r)
    PROVE  RequestMoves(req[r].at, r)
<1>1. CASE Finish(serv[req[r].at], req[r].at, r) /\ UNCHANGED toM
  BY <1>1, EndMoves
<1>2. CASE RuleAnswer(r, None)
  BY <1>2, RuleMoves
<1> QED
  BY <1>1, <1>2 DEF ErrorAnswer

\* An answer from an IP that was banned meanwhile.
LEMMA BannedMoves ==
    ASSUME Base, NEW r \in Requests, req[r].stage = "sent",
           UNCHANGED <<world, calls, master, cloud, procs, toW>>, BannedAnswer(r)
    PROVE  RequestMoves(req[r].at, r)
<1> DEFINE w == req[r].at
           k1 == refresh_sessions(serv[w], w, 0)
           k2 == refresh_sessions(k1, w, 0)
           q == [req[r] EXCEPT !.retry = Count(req[r])]
           m == [code |-> "REFRESH"]
           msgs == <<m, m>>
<1>1. /\ w \in Workers /\ status[w] = "up" /\ serv[w] \in Server /\ Apart(serv[w], w)
      /\ req[r] \in Request /\ Fits(req[r].slot) /\ TypeOK
  BY AtWorker DEF Base
<1>2. CASE req[r].retry < MaxBanRetries
  <2>1. Begin(k2, w, r, q) /\ Send(w, msgs)
    BY <1>2 DEF BannedAnswer
  <2>2. q \in Request /\ q.slot = req[r].slot /\ q.at = w /\ q.own = req[r].own
    BY <1>1, <1>2, RetryCounted
  <2>3. Evolves(serv[w], k1, w) /\ k1.temp = serv[w].temp /\ Raises(serv[w], k1, 1)
    BY <1>1, RefreshEvolves, RefreshRaises
  <2> HIDE DEF k1
  <2>4. Evolves(k1, k2, w) /\ k2.temp = k1.temp /\ Raises(k1, k2, 1)
    BY <1>1, <2>3, RefreshEvolves, RefreshRaises DEF Evolves
  <2> HIDE DEF k2, q
  <2>5. Evolves(serv[w], k2, w) /\ k2 \in Server
    BY <2>3, <2>4, EvolvesOn DEF Evolves
  <2>11. Raises(serv[w], k2, 2)
    <3>1. Raises(serv[w], k2, 1 + 1)
      BY <2>3, <2>4, RaisesOn
    <3> QED
      BY <3>1
  <2>6. msgs \in Seq(ToMaster) /\ Free(msgs, {"RENEW"}) /\ Free(msgs, {"BANIP"})
    BY DEF Free, ToMaster
  <2>12. Owed(msgs) = 2
    <3>1. <<m>> \in Seq(ToMaster) /\ msgs = <<m>> \o <<m>> /\ m.code = "REFRESH"
      BY DEF ToMaster
    <3> HIDE DEF m, msgs
    <3>2. Owed(msgs) = Owed(<<m>>) + Owed(<<m>>)
      BY <3>1, OwedConcat
    <3>3. Owed(<<m>>) = 1
      BY <3>1, OwedFew
    <3> QED
      BY <3>2, <3>3
  <2>7. toM' = [toM EXCEPT ![w] = @ \o msgs]
    BY <2>1 DEF Send
  <2> HIDE DEF msgs, w
  <2>8. Acted(w, r, k2.temp, 2)
    BY <1>1, <2>1, <2>2, <2>5, <2>11, BeginMoves DEF Regular
  <2>9. Sent(w, msgs, k2.temp, 2)
    BY <2>3, <2>4, <2>6, <2>7, <2>12 DEF Sent
  <2>10. RequestMoves(w, r)
    BY <1>1, <2>8, <2>9, MovesTogether
  <2> QED
    BY <2>10 DEF w
<1>3. CASE ~(req[r].retry < MaxBanRetries)
  BY <1>3, ErrorMoves DEF BannedAnswer
<1> QED
  BY <1>2, <1>3

\* Whatever is answered.
LEMMA AnswerMoves ==
    ASSUME Base, NEW r \in Requests, Answer(r)
    PROVE  RequestMoves(req[r].at, r)
<1>1. req[r].stage = "sent" /\ UNCHANGED <<world, calls, master, cloud, procs, toW>>
  BY DEF Answer
<1>2. CASE ErrorAnswer(r)
  BY <1>1, <1>2, ErrorMoves
<1>3. CASE \E ip \in IF req[r].ip # None THEN {req[r].ip} ELSE zone :
             BannedAnswer(r) \/ PlainAnswer(r, ip) \/ RuleAnswer(r, ip)
  <2>1. PICK ip \in IF req[r].ip # None THEN {req[r].ip} ELSE zone :
           BannedAnswer(r) \/ PlainAnswer(r, ip) \/ RuleAnswer(r, ip)
    BY <1>3
  <2>2. req[r] \in Request /\ zone \subseteq Ips
    BY Typed DEF Base, TypeOK
  <2>3. req[r].ip \in Ips \cup {None}
    BY <2>2 DEF Request
  <2>4. ip \in Ips
    BY <2>1, <2>2, <2>3
  <2>5. ASSUME PlainAnswer(r, ip) PROVE RequestMoves(req[r].at, r)
    <3>1. Finish(LastRes(serv[req[r].at], r, ip), req[r].at, r) /\ UNCHANGED toM
      BY <2>5 DEF PlainAnswer
    <3> QED
      BY <1>1, <2>4, <3>1, EndMoves
  <2> QED
    BY <1>1, <2>1, <2>4, <2>5, BannedMoves, RuleMoves
<1> QED
  BY <1>2, <1>3 DEF Answer

\* A request comes back from another port, or ends there.
LEMMA ElsewhereMoves ==
    ASSUME Base, NEW r \in Requests, Elsewhere(r)
    PROVE  RequestMoves(req[r].at, r)
<1> DEFINE w == req[r].at
           k == serv[w]
<1>1. UNCHANGED <<world, calls, master, cloud, procs, toW>> /\ req[r].stage = "away"
  BY DEF Elsewhere
<1>2. /\ w \in Workers /\ status[w] = "up" /\ k \in Server /\ Apart(k, w)
      /\ req[r] \in Request /\ Fits(req[r].slot) /\ TypeOK
  BY <1>1, AtWorker DEF Base
<1>3. Evolves(k, k, w) /\ Raises(k, k, 0)
  BY <1>2, EvolvesNot, RaisesNot
<1>4. CASE Finish(k, w, r) /\ UNCHANGED toM
  BY <1>1, <1>4, EndMoves
<1>5. CASE \E ip \in zone \cup {None} : RuleAnswer(r, ip)
  <2>1. zone \cup {None} \subseteq Ips \cup {None}
    BY <1>2 DEF TypeOK
  <2> QED
    BY <1>1, <1>5, <2>1, RuleMoves
<1>6. ASSUME UNCHANGED toM, Acted(w, r, k.temp, 0) PROVE RequestMoves(w, r)
  <2> HIDE DEF w
  <2>1. Sent(w, <<>>, k.temp, 0)
    BY <1>2, <1>6, NothingSent
  <2> QED
    BY <1>1, <1>2, <1>6, <2>1, MovesTogether
<1>7. CASE /\ can_retry(req[r]) /\ UNCHANGED toM
           /\ Begin(k, w, r, [req[r] EXCEPT !.retry = Count(req[r])])
  <2> DEFINE q == [req[r] EXCEPT !.retry = Count(req[r])]
  <2>1. q \in Request /\ q.slot = req[r].slot /\ q.at = w /\ q.own = req[r].own
    BY <1>2, <1>7, RetryCounted
  <2>2. Begin(k, w, r, q)
    BY <1>7
  <2> HIDE DEF q
  <2>3. Acted(w, r, k.temp, 0)
    BY <1>2, <1>3, <2>1, <2>2, BeginMoves DEF Regular
  <2> QED
    BY <1>6, <1>7, <2>3
<1>8. CASE req' = [req EXCEPT ![r].stage = "lost"] /\ UNCHANGED <<serv, toM>>
  <2> DEFINE p == [req[r] EXCEPT !.stage = "lost"]
  <2>1. p \in Request /\ p.slot = req[r].slot /\ p.stage = "lost" /\ p.own = req[r].own
    BY <1>2 DEF Request
  <2>2. req' = [req EXCEPT ![r] = p] /\ serv' = [serv EXCEPT ![w] = k]
    BY <1>2, <1>8 DEF TypeOK
  <2> HIDE DEF p
  <2>3. Acted(w, r, k.temp, 0)
    BY <1>2, <1>3, <2>1, <2>2 DEF Acted, Regular
  <2> QED
    BY <1>6, <1>8, <2>3
<1> QED
  BY <1>4, <1>5, <1>7, <1>8 DEF Elsewhere

-----------------------------------------------------------------------------
(***************************************************************************)
(* The base is inductive.                                                  *)
(***************************************************************************)

\* The servers after a step, in the world of before.
LEMMA ServersKept ==
    ASSUME world' = world,
           \A v \in Workers : /\ status'[v] = "up" => serv'[v] \in Server /\ Apart(serv'[v], v)
                              /\ status'[v] # "up" => serv'[v] = None
    PROVE  Servers'
BY DEF Servers, Apart, MainOnly, Drawn, Alone

\* The requests after a step.
LEMMA PlacedKept ==
    ASSUME world' = world,
           \A p \in Requests : /\ Fits(req'[p].slot)
                               /\ req'[p].stage \in {"sent", "away"} =>
                                    req'[p].at \in Workers /\ status'[req'[p].at] = "up"
    PROVE  Placed'
BY DEF Placed, Fits

\* A request moves.
LEMMA RequestKeepsBase ==
    ASSUME Base, Immortal, NEW w, NEW r \in Requests, RequestMoves(w, r)
    PROVE  Base' /\ Immortal'
<1>1. /\ w \in Workers /\ status[w] = "up" /\ world' = world
      /\ UNCHANGED <<calls, session_id, conf, opt, banned, renewing, zone, status, listening, toW>>
      /\ TypeOK /\ Servers /\ Created /\ Placed /\ ForkedInOrder
  BY DEF RequestMoves, Base, master, cloud, procs
<1>2. PICK e \in Server, q \in Request, msgs \in Seq(ToMaster) :
         /\ Evolves(serv[w], e, w) /\ serv' = [serv EXCEPT ![w] = e]
         /\ Fits(q.slot) /\ (q.stage \in {"sent", "away"} => q.at = w)
         /\ req' = [req EXCEPT ![r] = q]
         /\ toM' = [toM EXCEPT ![w] = @ \o msgs]
  BY DEF RequestMoves
<1>3. serv' \in [Workers -> Server \cup {None}] /\ toM' \in [Workers -> Seq(ToMaster)]
  <2>1. toM[w] \o msgs \in Seq(ToMaster)
    BY <1>1, Typed
  <2> QED
    BY <1>1, <1>2, <2>1 DEF TypeOK
<1>4. req' \in [Requests -> Request]
  BY <1>1, <1>2 DEF TypeOK, Request
<1>5. TypeOK'
  BY <1>1, <1>3, <1>4 DEF TypeOK, Request, calls
<1>6. Servers'
  <2>1. Apart(e, w)
    BY <1>2 DEF Evolves
  <2>2. \A v \in Workers : serv'[v] = IF v = w THEN e ELSE serv[v]
    BY <1>1, <1>2 DEF TypeOK
  <2> QED
    BY <1>1, <2>1, <2>2, ServersKept DEF Servers
<1>7. Placed'
  <2>1. \A p \in Requests : req'[p] = IF p = r THEN q ELSE req[p]
    BY <1>1, <1>2 DEF TypeOK
  <2> QED
    BY <1>1, <1>2, <2>1, PlacedKept DEF Placed
<1>8. Created' /\ ForkedInOrder' /\ Immortal'
  BY <1>1 DEF Created, ForkedInOrder, Immortal
<1> QED
  BY <1>5, <1>6, <1>7, <1>8 DEF Base

\* What the master does to the workers: it changes the pool, or refreshes,
\* or bans, or nothing.
Change(ips) ==
  \/ \E ip \in Ips : MayAdd(ip) /\ ips = Append(conf, ip)
  \/ \E ip \in Range(conf) : ips = SeqMinus(conf, {ip})
  \/ \E p \in renewing : p.old \in Range(opt) /\ ips = Replace(opt, p.old, p.new)

PoolChanged == \E ips \in Seq(Ips) : Update(ips) /\ Change(ips) /\ UNCHANGED session_id

PoolKept ==
  /\ UNCHANGED <<conf, opt>>
  /\ \/ UNCHANGED <<toW, session_id>>
     \/ ProxyRefresh
     \/ /\ UNCHANGED session_id
        /\ \E ip \in Ips : Broadcast(Live, [code |-> "BANIP", ip |-> ip])

Read(w) == toM[w] # <<>> /\ toM' = [toM EXCEPT ![w] = Tail(@)]

Heeded(m) == m.code = "ADD" /\ MayAdd(m.ip) => PoolChanged

MasterMoves ==
  /\ UNCHANGED <<world, status, serv, req>>
  /\ UNCHANGED toM \/ \E w \in Workers : Read(w) /\ Heeded(Head(toM[w]))
  /\ PoolChanged \/ PoolKept
  /\ api' \in 0 .. MaxApi /\ stale' \subseteq [slot : Slots, ord : Nat] /\ banned' \subseteq Ips
  /\ zone' \subseteq Ips /\ listening' \subseteq Workers
  /\ renewing' \subseteq [old : Ips, new : Ips, applied : BOOLEAN]
  /\ renewing' # {} => renewing # {} \/ \E w \in Workers : ~Free(toM[w], {"RENEW"})

\* A message to several workers.
LEMMA BroadcastShape ==
    ASSUME TypeOK, NEW to, NEW msg \in ToWorker, Broadcast(to, msg)
    PROVE  /\ toW' \in [Workers -> Seq(ToWorker)]
           /\ \A w \in Workers : /\ w \in to => toW'[w] = Append(toW[w], msg)
                                 /\ w \notin to => toW'[w] = toW[w]
<1>1. \A w \in Workers : toW[w] \in Seq(ToWorker) /\ Append(toW[w], msg) \in Seq(ToWorker)
  BY Typed
<1> QED
  BY <1>1 DEF Broadcast

\* The three messages of the master.
LEMMA MessageTypes ==
    ASSUME TypeOK
    PROVE  /\ \A ips \in Seq(Ips) : [code |-> "UPDATE", ips |-> ips, banned |-> banned] \in ToWorker
           /\ \A n \in Nat : [code |-> "REFRESH", sid |-> n] \in ToWorker
           /\ \A ip \in Ips : [code |-> "BANIP", ip |-> ip] \in ToWorker
<1>1. banned \in SUBSET Ips
  BY DEF TypeOK
<1>2. \A ips \in Seq(Ips) : [code |-> "UPDATE", ips |-> ips, banned |-> banned] \in ToWorker
  <2> SUFFICES ASSUME NEW ips \in Seq(Ips)
               PROVE  [code |-> "UPDATE", ips |-> ips, banned |-> banned] \in ToWorker
    OBVIOUS
  <2> DEFINE S == Seq(Ips)
  <2>1. ips \in S
    OBVIOUS
  <2>2. ToWorker = [code: {"CREATE"}, sid: Nat, ips: S, banned: SUBSET Ips]
            \cup [code: {"UPDATE"}, ips: S, banned: SUBSET Ips]
            \cup [code: {"REFRESH"}, sid: Nat] \cup [code: {"BANIP"}, ip: Ips]
    BY DEF ToWorker
  <2> HIDE DEF S
  <2> QED
    BY <1>1, <2>1, <2>2
<1>3. \A n \in Nat : [code |-> "REFRESH", sid |-> n] \in ToWorker
  BY DEF ToWorker
<1>4. \A ip \in Ips : [code |-> "BANIP", ip |-> ip] \in ToWorker
  BY DEF ToWorker
<1> QED
  BY <1>2, <1>3, <1>4

\* A message is added to a channel.
Told(w, msg) == toW'[w] = Append(toW[w], msg)

\* The channels to the workers when the master moves: one message at most is
\* added, and what it is.
LEMMA Tellings ==
    ASSUME TypeOK, PoolChanged \/ PoolKept
    PROVE  /\ toW' \in [Workers -> Seq(ToWorker)] /\ session_id' \in Nat
           /\ conf' \in Seq(Ips) /\ opt' \in Seq(Ips)
           /\ \A w \in Workers :
                \/ toW'[w] = toW[w]
                \/ \E msg \in ToWorker : msg.code # "CREATE" /\ Told(w, msg)
           /\ PoolChanged => /\ conf' = opt' /\ session_id' = session_id
                             /\ \A w \in Live : \E msg \in ToWorker :
                                  Told(w, msg) /\ msg.code = "UPDATE" /\ msg.ips = conf'
           /\ PoolKept => /\ conf' = conf /\ opt' = opt
                          /\ \A w \in Workers :
                               \/ toW'[w] = toW[w]
                               \/ \E msg \in ToWorker :
                                    Told(w, msg) /\ msg.code \in {"REFRESH", "BANIP"}
           /\ PoolKept => \/ /\ session_id' = session_id
                             /\ \A w \in Workers :
                                  \/ toW'[w] = toW[w]
                                  \/ \E msg \in ToWorker : Told(w, msg) /\ msg.code = "BANIP"
                          \/ /\ session_id' = session_id + 1
                             /\ \A w \in listening \cap Live : \E msg \in ToWorker :
                                   /\ Told(w, msg) /\ msg.code = "REFRESH"
                                   /\ msg.sid = session_id'
<1>1. /\ session_id \in Nat /\ conf \in Seq(Ips) /\ opt \in Seq(Ips)
      /\ toW \in [Workers -> Seq(ToWorker)] /\ Live \subseteq Workers
  BY DEF TypeOK, Live
<1>2. CASE PoolChanged
  <2>1. PICK ips \in Seq(Ips) : Update(ips) /\ session_id' = session_id
    BY <1>2 DEF PoolChanged
  <2> DEFINE msg == [code |-> "UPDATE", ips |-> ips, banned |-> banned]
  <2>2. /\ conf' = ips /\ opt' = ips /\ Broadcast(Live, msg)
        /\ msg \in ToWorker /\ msg.code = "UPDATE" /\ msg.ips = ips
    BY <2>1, MessageTypes DEF Update
  <2> HIDE DEF msg
  <2>3. /\ toW' \in [Workers -> Seq(ToWorker)]
        /\ \A w \in Workers : /\ w \in Live => toW'[w] = Append(toW[w], msg)
                              /\ w \notin Live => toW'[w] = toW[w]
    BY <2>2, BroadcastShape
  <2>4. ASSUME PoolKept PROVE conf' = conf /\ opt' = opt
    BY <2>4 DEF PoolKept
  <2>5. ASSUME PoolKept, NEW w \in Live PROVE FALSE
    <3>1. Append(toW[w], msg) # toW[w] /\ toW'[w] = Append(toW[w], msg)
      <4>1. toW[w] \in Seq(ToWorker)
        BY <1>1, <2>5
      <4> QED
        BY <1>1, <2>2, <2>3, <2>5, <4>1
    <3>2. toW'[w] # toW[w]
      BY <3>1
    <3>3. ~UNCHANGED <<toW, session_id>>
      BY <3>2
    <3>4. ~ProxyRefresh
      BY <1>1, <2>1 DEF ProxyRefresh
    <3>5. PICK ip \in Ips : Broadcast(Live, [code |-> "BANIP", ip |-> ip])
      BY <2>5, <3>3, <3>4 DEF PoolKept
    <3>6. toW'[w] = Append(toW[w], [code |-> "BANIP", ip |-> ip])
      BY <1>1, <2>5, <3>5, BroadcastShape, MessageTypes
    <3> DEFINE msg2 == [code |-> "BANIP", ip |-> ip]
    <3>7. msg2.code = "BANIP" /\ msg2 \in ToWorker /\ toW'[w] = Append(toW[w], msg2)
      BY <3>6, MessageTypes
    <3> HIDE DEF msg2
    <3>8. msg = msg2
      <4>1. toW[w] \in Seq(ToWorker)
        BY <1>1, <2>5
      <4>2. Append(toW[w], msg)[Len(toW[w]) + 1] = msg
        BY <2>2, <4>1
      <4>3. Append(toW[w], msg2)[Len(toW[w]) + 1] = msg2
        BY <3>7, <4>1
      <4> QED
        BY <3>1, <3>7, <4>2, <4>3
    <3> QED
      BY <2>2, <3>7, <3>8
  <2>6. \A w \in Workers :
          \/ toW'[w] = toW[w]
          \/ \E m \in ToWorker : m.code # "CREATE" /\ Told(w, m)
    BY <2>2, <2>3 DEF Told
  <2>7. \A w \in Live : \E m \in ToWorker : Told(w, m) /\ m.code = "UPDATE" /\ m.ips = conf'
    BY <1>1, <2>2, <2>3 DEF Told
  <2>8. PoolKept => /\ \A w \in Workers : toW'[w] = toW[w]
                    /\ session_id' = session_id
    BY <2>1, <2>3, <2>5
  <2> QED
    BY <1>1, <2>1, <2>2, <2>3, <2>4, <2>6, <2>7, <2>8
<1>3. CASE PoolKept /\ ~PoolChanged
  <2>1. conf' = conf /\ opt' = opt
    BY <1>3 DEF PoolKept
  <2>2. CASE UNCHANGED <<toW, session_id>>
    BY <1>1, <1>3, <2>1, <2>2
  <2>3. CASE ProxyRefresh
    <3> DEFINE msg == [code |-> "REFRESH", sid |-> session_id']
               to == listening \cap Live
    <3>1. /\ session_id' = session_id + 1 /\ session_id' \in Nat /\ Broadcast(to, msg)
      BY <1>1, <2>3 DEF ProxyRefresh
    <3>2. msg \in ToWorker /\ msg.code = "REFRESH" /\ msg.sid = session_id'
      BY <3>1, MessageTypes
    <3> HIDE DEF msg
    <3>3. /\ toW' \in [Workers -> Seq(ToWorker)]
          /\ \A w \in Workers : /\ w \in to => toW'[w] = Append(toW[w], msg)
                                /\ w \notin to => toW'[w] = toW[w]
      BY <3>1, <3>2, BroadcastShape
    <3> QED
      BY <1>1, <1>3, <2>1, <3>1, <3>2, <3>3 DEF Told
  <2>4. CASE /\ UNCHANGED session_id
             /\ \E ip \in Ips : Broadcast(Live, [code |-> "BANIP", ip |-> ip])
    <3>1. PICK ip \in Ips : Broadcast(Live, [code |-> "BANIP", ip |-> ip])
      BY <2>4
    <3> DEFINE msg == [code |-> "BANIP", ip |-> ip]
    <3>2. msg \in ToWorker /\ msg.code = "BANIP" /\ Broadcast(Live, msg)
      BY <3>1, MessageTypes
    <3> HIDE DEF msg
    <3>3. /\ toW' \in [Workers -> Seq(ToWorker)]
          /\ \A w \in Workers : /\ w \in Live => toW'[w] = Append(toW[w], msg)
                                /\ w \notin Live => toW'[w] = toW[w]
      BY <3>2, BroadcastShape
    <3> QED
      BY <1>1, <1>3, <2>1, <2>4, <3>2, <3>3 DEF Told
  <2> QED
    BY <1>3, <2>2, <2>3, <2>4 DEF PoolKept
<1> QED
  BY <1>2, <1>3

\* An IP takes the place of another.
LEMMA Replaced ==
    ASSUME NEW ips \in Seq(Ips), NEW old, NEW new \in Ips
    PROVE  Replace(ips, old, new) \in Seq(Ips) /\ Len(Replace(ips, old, new)) = Len(ips)
<1> DEFINE i == CHOOSE i \in DOMAIN ips : ips[i] = old /\ \A j \in 1..(i - 1) : ips[j] # old
<1>1. Replace(ips, old, new) = [ips EXCEPT ![i] = new]
  BY DEF Replace
<1> HIDE DEF i
<1>2. [ips EXCEPT ![i] = new] \in Seq(Ips) /\ Len([ips EXCEPT ![i] = new]) = Len(ips)
  <2>1. Len(ips) \in Nat /\ DOMAIN ips = 1 .. Len(ips) /\ \A j \in 1 .. Len(ips) : ips[j] \in Ips
    OBVIOUS
  <2> DEFINE f == [ips EXCEPT ![i] = new]
  <2>2. f \in [1 .. Len(ips) -> Ips]
    BY <2>1
  <2> QED
    BY <2>1, <2>2
<1> QED
  BY <1>1, <1>2

\* The channel from a worker, when its head is read.
LEMMA Reading ==
    ASSUME TypeOK, NEW w \in Workers, Read(w)
    PROVE  /\ toM' \in [Workers -> Seq(ToMaster)] /\ Head(toM[w]) \in ToMaster
           /\ toM'[w] = Tail(toM[w]) /\ \A v \in Workers : v # w => toM'[v] = toM[v]
<1>1. toM \in [Workers -> Seq(ToMaster)] /\ toM[w] \in Seq(ToMaster) /\ toM[w] # <<>>
  BY DEF TypeOK, Read
<1>2. Tail(toM[w]) \in Seq(ToMaster) /\ Head(toM[w]) \in ToMaster
  BY <1>1
<1> QED
  BY <1>1, <1>2 DEF Read

\* The master reads a message.
LEMMA MasterReceivesMoves ==
    ASSUME TypeOK, NEW w \in Workers, MasterReceives(w)
    PROVE  MasterMoves /\ Read(w)
<1> DEFINE m == Head(toM[w])
<1>1. Read(w) /\ UNCHANGED <<world, status, serv, req, api, stale>>
  BY DEF MasterReceives, Read, calls
<1>2. m \in ToMaster /\ (m.code \in {"ADD", "REMOVE", "BANIP", "RENEW"} => m.ip \in Ips)
  <2>1. m \in ToMaster
    BY <1>1, Reading
  <2> HIDE DEF m
  <2> QED
    BY <2>1 DEF ToMaster
<1>3. 1 \in DOMAIN toM[w] /\ toM[w][1] = m
  BY <1>1 DEF Read, TypeOK
<1>4. /\ conf \in Seq(Ips) /\ banned \subseteq Ips /\ zone \subseteq Ips /\ listening \subseteq Workers
      /\ renewing \subseteq [old : Ips, new : Ips, applied : BOOLEAN] /\ api \in 0 .. MaxApi
      /\ stale \subseteq [slot : Slots, ord : Nat]
  BY DEF TypeOK
<1>12. /\ m.code # "ADD" => Heeded(m)
       /\ m.code = "RENEW" => ~Free(toM[w], {"RENEW"})
  BY <1>3 DEF Heeded, Free
<1>5. \/ /\ m.code = "ADD" /\ AddStaticIp(m.ip)
         /\ UNCHANGED <<session_id, banned, cloud, listening>>
      \/ /\ m.code = "REMOVE" /\ RemoveStaticIp(m.ip)
         /\ UNCHANGED <<session_id, banned, cloud, listening>>
      \/ /\ m.code = "BANIP" /\ HandleBanip(m.ip)
         /\ UNCHANGED <<session_id, conf, opt, cloud, listening>>
      \/ /\ m.code = "REFRESH" /\ ProxyRefresh
         /\ UNCHANGED <<conf, opt, banned, cloud, listening>>
      \/ /\ m.code = "RENEW" /\ StartRenew(m.ip)
         /\ UNCHANGED <<master, toW, listening>>
      \/ /\ m.code = "LISTENING" /\ listening' = listening \cup {w}
         /\ UNCHANGED <<master, toW, cloud>>
  BY DEF MasterReceives
<1> SUFFICES MasterMoves
  BY <1>1
<1>13. Read(w) /\ Heeded(m) => \E v \in Workers : Read(v) /\ Heeded(Head(toM[v]))
  OBVIOUS
<1> HIDE DEF m
<1>6. CASE m.code = "ADD" /\ AddStaticIp(m.ip) /\ UNCHANGED <<session_id, banned, cloud, listening>>
  <2>1. Append(conf, m.ip) \in Seq(Ips)
    BY <1>2, <1>4, <1>6
  <2>2. MayAdd(m.ip) => PoolChanged
    BY <1>2, <1>6, <2>1 DEF AddStaticIp, PoolChanged, Change
  <2>3. ~MayAdd(m.ip) => PoolKept
    BY <1>6 DEF AddStaticIp, PoolKept
  <2>4. Heeded(m)
    BY <2>2 DEF Heeded
  <2> QED
    BY <1>1, <1>4, <1>6, <1>13, <2>2, <2>3, <2>4 DEF MasterMoves, cloud
<1>7. CASE m.code = "REMOVE" /\ RemoveStaticIp(m.ip) /\ UNCHANGED <<session_id, banned, cloud, listening>>
  <2>1. SeqMinus(conf, {m.ip}) \in Seq(Ips)
    BY <1>4, MinusFacts
  <2>2. PoolChanged \/ PoolKept
    BY <1>7, <2>1 DEF RemoveStaticIp, PoolChanged, PoolKept, Change
  <2> QED
    BY <1>1, <1>4, <1>7, <1>12, <1>13, <2>2 DEF MasterMoves, cloud
<1>8. CASE m.code = "BANIP" /\ HandleBanip(m.ip) /\ UNCHANGED <<session_id, conf, opt, cloud, listening>>
  <2>1. PoolKept /\ banned' \subseteq Ips
    BY <1>2, <1>4, <1>8 DEF HandleBanip, PoolKept
  <2> QED
    BY <1>1, <1>4, <1>8, <1>12, <1>13, <2>1 DEF MasterMoves, cloud
<1>9. CASE m.code = "REFRESH" /\ ProxyRefresh /\ UNCHANGED <<conf, opt, banned, cloud, listening>>
  BY <1>1, <1>4, <1>9, <1>12, <1>13 DEF MasterMoves, PoolKept, cloud
<1>10. CASE m.code = "RENEW" /\ StartRenew(m.ip) /\ UNCHANGED <<master, toW, listening>>
  <2>1. zone' \subseteq Ips /\ renewing' \subseteq [old : Ips, new : Ips, applied : BOOLEAN]
    <3> DEFINE ip == m.ip
    <3>1. ip \in Ips /\ StartRenew(ip)
      BY <1>2, <1>10
    <3> HIDE DEF ip
    <3>2. CASE UNCHANGED cloud
      BY <1>4, <3>2 DEF cloud
    <3>3. CASE \E new \in Ips \ zone :
                  /\ zone' = (zone \ {ip}) \cup {new}
                  /\ renewing' = renewing \cup {[old |-> ip, new |-> new, applied |-> FALSE]}
      <4>1. PICK new \in Ips \ zone :
               /\ zone' = (zone \ {ip}) \cup {new}
               /\ renewing' = renewing \cup {[old |-> ip, new |-> new, applied |-> FALSE]}
        BY <3>3
      <4>2. [old |-> ip, new |-> new, applied |-> FALSE] \in [old : Ips, new : Ips, applied : BOOLEAN]
        BY <3>1, <4>1
      <4> QED
        BY <1>4, <4>1, <4>2
    <3> QED
      BY <3>1, <3>2, <3>3 DEF StartRenew
  <2> QED
    BY <1>1, <1>4, <1>10, <1>12, <1>13, <2>1 DEF MasterMoves, PoolKept, master
<1>11. CASE m.code = "LISTENING" /\ listening' = listening \cup {w} /\ UNCHANGED <<master, toW, cloud>>
  BY <1>1, <1>4, <1>11, <1>12, <1>13 DEF MasterMoves, PoolKept, master, cloud
<1> QED
  BY <1>1, <1>5, <1>6, <1>7, <1>8, <1>9, <1>10, <1>11

\* A refresh_ip goes on, or the API refreshes the sessions.
LEMMA OtherMasterMoves ==
    ASSUME TypeOK, Renew \/ RefreshApi
    PROVE  MasterMoves /\ UNCHANGED <<toM, listening>>
<1>1. /\ conf \in Seq(Ips) /\ opt \in Seq(Ips) /\ banned \subseteq Ips /\ zone \subseteq Ips
      /\ listening \subseteq Workers /\ api \in 0 .. MaxApi
      /\ renewing \subseteq [old : Ips, new : Ips, applied : BOOLEAN]
      /\ stale \subseteq [slot : Slots, ord : Nat]
  BY DEF TypeOK
<1>2. CASE Renew
  <2>1. PICK p \in renewing :
           /\ RenewApplied(p) \/ RenewDone(p)
           /\ UNCHANGED <<world, api, stale, zone, procs, toM, serv, req>>
    BY <1>2 DEF Renew, calls
  <2>2. p \in [old : Ips, new : Ips, applied : BOOLEAN]
    BY <1>1
  <2>3. CASE RenewApplied(p)
    <3>1. Replace(opt, p.old, p.new) \in Seq(Ips)
      BY <1>1, <2>2, Replaced
    <3>2. PoolChanged \/ PoolKept
      BY <2>1, <2>3, <3>1 DEF RenewApplied, PoolChanged, PoolKept, Change
    <3>3. renewing' \subseteq [old : Ips, new : Ips, applied : BOOLEAN] /\ banned' = banned
      BY <1>1, <2>2, <2>3 DEF RenewApplied
    <3> QED
      BY <1>1, <2>1, <3>2, <3>3 DEF MasterMoves, procs
  <2>4. CASE RenewDone(p)
    BY <1>1, <2>1, <2>4 DEF RenewDone, PoolKept, MasterMoves, procs
  <2> QED
    BY <2>1, <2>3, <2>4
<1>3. CASE RefreshApi
  <2>1. api' \in 0 .. MaxApi
    BY <1>1, <1>3, NumbersAssumption DEF RefreshApi
  <2>2. stale' \subseteq [slot : Slots, ord : Nat]
    <3>1. ASSUME NEW v \in Workers PROVE InUse(v) \subseteq [slot : Slots, ord : Nat]
      <4>1. serv[v] \in Server \cup {None}
        BY DEF TypeOK
      <4>2. CASE serv[v] = None
        BY <4>2 DEF InUse
      <4>3. CASE serv[v] \in Server
        <5>1. \A s \in Slots : serv[v].sess[s] # None => serv[v].sess[s].ord \in Nat
          BY <4>3, ServerShape DEF Session
        <5> QED
          BY <5>1 DEF InUse
      <4> QED
        BY <4>1, <4>2, <4>3
    <3> QED
      BY <1>1, <1>3, <3>1 DEF RefreshApi
  <2> QED
    BY <1>1, <1>3, <2>1, <2>2 DEF RefreshApi, PoolKept, MasterMoves, procs, cloud
<1> QED
  BY <1>2, <1>3

\* A message is added behind the head.
LEMMA AppendTail ==
    ASSUME NEW S, NEW s \in Seq(S), s # <<>>, NEW e \in S
    PROVE  /\ Append(s, e) # <<>> /\ Head(Append(s, e)) = Head(s)
           /\ Tail(s) \in Seq(S) /\ Tail(Append(s, e)) = Append(Tail(s), e)
<1> DEFINE t == Append(s, e)
           u == Append(Tail(s), e)
<1>1. /\ Len(s) \in Nat \ {0} /\ Head(s) = s[1] /\ Tail(s) \in Seq(S)
      /\ Len(Tail(s)) = Len(s) - 1 /\ \A i \in 1 .. Len(s) - 1 : Tail(s)[i] = s[i + 1]
  BY TailShape
<1>2. /\ t \in Seq(S) /\ Len(t) = Len(s) + 1 /\ t[Len(s) + 1] = e
      /\ \A i \in 1 .. Len(s) : t[i] = s[i]
  BY AppendShape
<1>3. t # <<>>
  BY <1>1, <1>2
<1>4. /\ u \in Seq(S) /\ Len(u) = Len(s) /\ u[Len(s)] = e
      /\ \A i \in 1 .. Len(s) - 1 : u[i] = Tail(s)[i]
  BY <1>1, AppendShape
<1> HIDE DEF t, u
<1>5. /\ Head(t) = t[1] /\ Tail(t) \in Seq(S) /\ Len(Tail(t)) = Len(t) - 1
      /\ \A i \in 1 .. Len(t) - 1 : Tail(t)[i] = t[i + 1]
  BY <1>2, <1>3, TailShape
<1>6. Len(Tail(t)) = Len(u) /\ \A i \in 1 .. Len(u) : Tail(t)[i] = u[i]
  <2>1. Len(Tail(t)) = Len(s)
    BY <1>1, <1>2, <1>5
  <2>2. ASSUME NEW i \in 1 .. Len(s) PROVE Tail(t)[i] = u[i]
    <3>1. Tail(t)[i] = t[i + 1]
      BY <1>1, <1>2, <1>5, <2>2
    <3>2. CASE i = Len(s)
      BY <1>2, <1>4, <3>1, <3>2
    <3>3. CASE i # Len(s)
      <4>1. i \in 1 .. Len(s) - 1 /\ i + 1 \in 1 .. Len(s)
        <5>1. Len(s) \in Nat /\ i \in 1 .. Len(s)
          BY <1>1, <2>2
        <5> QED
          BY <3>3, <5>1
      <4> QED
        BY <1>1, <1>2, <1>4, <3>1, <4>1
    <3> QED
      BY <3>2, <3>3
  <2> QED
    BY <1>4, <2>1, <2>2
<1>7. Tail(t) = u
  BY <1>4, <1>5, <1>6
<1>8. Head(t) = Head(s)
  BY <1>1, <1>2, <1>5
<1> QED
  BY <1>1, <1>3, <1>7, <1>8 DEF t, u

\* The master moves.
LEMMA MasterKeepsBase ==
    ASSUME Base, MasterMoves
    PROVE  Base'
<1>1. /\ TypeOK /\ Servers /\ Created /\ Placed /\ ForkedInOrder
      /\ UNCHANGED <<world, status, serv, req>> /\ (PoolChanged \/ PoolKept)
  BY DEF Base, MasterMoves
<1>2. /\ toW' \in [Workers -> Seq(ToWorker)] /\ session_id' \in Nat
      /\ conf' \in Seq(Ips) /\ opt' \in Seq(Ips)
      /\ \A w \in Workers :
           \/ toW'[w] = toW[w]
           \/ \E msg \in ToWorker : msg.code # "CREATE" /\ Told(w, msg)
  BY <1>1, Tellings
<1>3. toM' \in [Workers -> Seq(ToMaster)]
  BY <1>1, Reading DEF MasterMoves, TypeOK
<1>4. TypeOK'
  BY <1>1, <1>2, <1>3 DEF TypeOK, MasterMoves
<1>5. Servers' /\ Placed'
  BY <1>1, ServersKept, PlacedKept DEF Servers, Placed
<1>6. Created'
  <2> SUFFICES ASSUME NEW w \in Workers
               PROVE  /\ status[w] = "boot" => /\ toW'[w] # <<>> /\ Head(toW'[w]).code = "CREATE"
                                               /\ Free(Tail(toW'[w]), {"CREATE"})
                      /\ status[w] = "up" => Free(toW'[w], {"CREATE"})
    BY <1>1 DEF Created
  <2>1. CASE toW'[w] = toW[w]
    BY <1>1, <2>1 DEF Created
  <2>2. ASSUME NEW msg \in ToWorker, msg.code # "CREATE", Told(w, msg)
        PROVE  /\ status[w] = "boot" => /\ toW'[w] # <<>> /\ Head(toW'[w]).code = "CREATE"
                                        /\ Free(Tail(toW'[w]), {"CREATE"})
               /\ status[w] = "up" => Free(toW'[w], {"CREATE"})
    <3>1. toW[w] \in Seq(ToWorker)
      BY <1>1, Typed
    <3>2. toW'[w] = Append(toW[w], msg)
      BY <2>2 DEF Told
    <3>3. status[w] = "up" => Free(toW'[w], {"CREATE"})
      <4>1. Free(Append(toW[w], msg), {"CREATE"})
              <=> Free(toW[w], {"CREATE"}) /\ msg.code \notin {"CREATE"}
        BY <2>2, <3>1, EndsAppend
      <4>2. status[w] = "up" => Free(toW[w], {"CREATE"})
        BY <1>1 DEF Created
      <4> QED
        BY <2>2, <3>2, <4>1, <4>2
    <3>4. ASSUME status[w] = "boot"
          PROVE  /\ toW'[w] # <<>> /\ Head(toW'[w]).code = "CREATE"
                 /\ Free(Tail(toW'[w]), {"CREATE"})
      <4>1. toW[w] # <<>> /\ Head(toW[w]).code = "CREATE" /\ Free(Tail(toW[w]), {"CREATE"})
        BY <1>1, <3>4 DEF Created
      <4>2. /\ Append(toW[w], msg) # <<>> /\ Head(Append(toW[w], msg)) = Head(toW[w])
            /\ Tail(Append(toW[w], msg)) = Append(Tail(toW[w]), msg)
            /\ Tail(toW[w]) \in Seq(ToWorker)
        BY <3>1, <4>1, AppendTail
      <4>3. Free(Append(Tail(toW[w]), msg), {"CREATE"})
        <5>1. msg.code \notin {"CREATE"}
          BY <2>2
        <5> QED
          BY <4>1, <4>2, <5>1, EndsAppend
      <4> QED
        BY <3>2, <4>1, <4>2, <4>3
    <3> QED
      BY <3>3, <3>4
  <2> QED
    BY <1>2, <2>1, <2>2
<1>7. ForkedInOrder'
  BY <1>1 DEF ForkedInOrder
<1> QED
  BY <1>4, <1>5, <1>6, <1>7 DEF Base

\* A worker reads a message.
WorkerMoves(w) ==
  LET m == Head(toW[w])
  IN  /\ UNCHANGED <<world, calls, session_id, conf, opt, banned, renewing, zone, listening, req>>
      /\ w \in Workers /\ status[w] \in {"boot", "up"} /\ toW[w] # <<>> /\ m \in ToWorker
      /\ toW' = [toW EXCEPT ![w] = Tail(@)]
      /\ status' = [status EXCEPT ![w] = "up"]
      /\ status[w] = "up" => m.code # "CREATE" /\ serv[w] \in Server
      /\ status[w] = "boot" => m.code = "CREATE"
      /\ toM' = toM \/ toM' = [toM EXCEPT ![w] = Append(@, [code |-> "LISTENING"])]
      /\ \E e \in Server :
           /\ Apart(e, w) /\ serv' = [serv EXCEPT ![w] = e]
           /\ m.code \in {"CREATE", "UPDATE"} => e.ips = m.ips /\ e.temp = {}
           /\ m.code \in {"REFRESH", "BANIP"} => e.ips = serv[w].ips /\ e.temp = serv[w].temp
           /\ m.code = "REFRESH" => (world.mode # "explicit" => Fresh(e, m.sid))
           /\ m.code = "BANIP" => \A n \in Nat : Fresh(serv[w], n) => Fresh(e, n)

\* What a worker does with a message.
LEMMA ReceivesMoves ==
    ASSUME Base, NEW w \in Workers, WorkerReceives(w)
    PROVE  WorkerMoves(w)
<1> DEFINE m == Head(toW[w])
<1>1. /\ UNCHANGED <<world, calls, session_id, conf, opt, banned, renewing, zone, listening, req>>
      /\ status[w] \in {"boot", "up"} /\ toW[w] # <<>>
      /\ toW' = [toW EXCEPT ![w] = Tail(@)]
  BY DEF WorkerReceives, master, cloud
<1>2. /\ TypeOK /\ Servers /\ Created /\ toW[w] \in Seq(ToWorker)
      /\ status \in [Workers -> {"unborn", "boot", "up", "dying", "dead"}]
      /\ toM[w] \in Seq(ToMaster) /\ toM \in [Workers -> Seq(ToMaster)]
      /\ serv \in [Workers -> Server \cup {None}]
  BY Typed DEF Base, TypeOK
<1>3. /\ m \in ToWorker
      /\ status[w] = "up" => m.code # "CREATE" /\ serv[w] \in Server /\ Apart(serv[w], w)
      /\ status[w] = "boot" => m.code = "CREATE"
  <2>1. m \in ToWorker
    BY <1>1, <1>2, TailShape
  <2>2. status[w] = "up" => m.code \notin {"CREATE"}
    <3>1. status[w] = "up" => Free(toW[w], {"CREATE"})
      BY <1>2 DEF Created
    <3>2. Free(toW[w], {"CREATE"}) => Head(toW[w]).code \notin {"CREATE"}
      BY <1>1, <1>2, EndsTail
    <3> QED
      BY <3>1, <3>2
  <2> QED
    BY <1>2, <2>1, <2>2 DEF Servers, Created
<1>4. /\ m.code = "CREATE" => m.sid \in Nat /\ m.ips \in Seq(Ips) /\ m.banned \in SUBSET Ips
      /\ m.code = "UPDATE" => m.ips \in Seq(Ips) /\ m.banned \in SUBSET Ips
      /\ m.code = "REFRESH" => m.sid \in Nat
      /\ m.code = "BANIP" => m.ip \in Ips
      /\ m.code \in {"CREATE", "UPDATE", "REFRESH", "BANIP"}
  <2> DEFINE S == Seq(Ips)
  <2>1. ToWorker = [code: {"CREATE"}, sid: Nat, ips: S, banned: SUBSET Ips]
            \cup [code: {"UPDATE"}, ips: S, banned: SUBSET Ips]
            \cup [code: {"REFRESH"}, sid: Nat] \cup [code: {"BANIP"}, ip: Ips]
    BY DEF ToWorker
  <2> HIDE DEF S, m
  <2>2. /\ m.code = "CREATE" => m.sid \in Nat /\ m.ips \in S /\ m.banned \in SUBSET Ips
        /\ m.code = "UPDATE" => m.ips \in S /\ m.banned \in SUBSET Ips
        /\ m.code = "REFRESH" => m.sid \in Nat
        /\ m.code = "BANIP" => m.ip \in Ips
        /\ m.code \in {"CREATE", "UPDATE", "REFRESH", "BANIP"}
    BY <1>3, <2>1
  <2> QED
    BY <2>2 DEF S
<1>5. \/ /\ m.code = "CREATE"
         /\ serv' = [serv EXCEPT ![w] = Sess_mgr(m.sid, m.ips, m.banned)]
         /\ status' = [status EXCEPT ![w] = "up"]
         /\ Send(w, <<[code |-> "LISTENING"]>>)
      \/ /\ m.code = "UPDATE"
         /\ serv' = [serv EXCEPT ![w] = UpdateConfig(@, m)]
         /\ UNCHANGED <<status, toM>>
      \/ /\ m.code = "REFRESH"
         /\ serv' = [serv EXCEPT ![w] = refresh_sessions(@, w, m.sid)]
         /\ UNCHANGED <<status, toM>>
      \/ /\ m.code = "BANIP"
         /\ serv' = [serv EXCEPT ![w].banned = @ \cup {m.ip}]
         /\ UNCHANGED <<status, toM>>
  BY DEF WorkerReceives
<1> HIDE DEF m
<1> DEFINE Becomes(e) ==
             /\ Apart(e, w) /\ serv' = [serv EXCEPT ![w] = e]
             /\ m.code \in {"CREATE", "UPDATE"} => e.ips = m.ips /\ e.temp = {}
             /\ m.code \in {"REFRESH", "BANIP"} => e.ips = serv[w].ips /\ e.temp = serv[w].temp
             /\ m.code = "REFRESH" => (world.mode # "explicit" => Fresh(e, m.sid))
             /\ m.code = "BANIP" => \A n \in Nat : Fresh(serv[w], n) => Fresh(e, n)
           Report == toM' = toM \/ toM' = [toM EXCEPT ![w] = Append(@, [code |-> "LISTENING"])]
           Arrived == /\ \E e \in Server : Becomes(e)
                      /\ status' = [status EXCEPT ![w] = "up"] /\ Report
<1>6. ASSUME /\ m.code = "CREATE"
             /\ serv' = [serv EXCEPT ![w] = Sess_mgr(m.sid, m.ips, m.banned)]
             /\ status' = [status EXCEPT ![w] = "up"]
             /\ Send(w, <<[code |-> "LISTENING"]>>)
      PROVE  Arrived
  <2> DEFINE e == Sess_mgr(m.sid, m.ips, m.banned)
  <2>1. e \in Server /\ Apart(e, w) /\ e.ips = m.ips /\ e.temp = {}
    <3>1. m.sid \in Nat /\ m.ips \in Seq(Ips) /\ m.banned \in SUBSET Ips
      BY <1>4, <1>6
    <3> QED
      BY <3>1, NewManager
  <2>2. serv' = [serv EXCEPT ![w] = e]
    BY <1>6
  <2> HIDE DEF e
  <2>3. Becomes(e)
    BY <1>6, <2>1, <2>2
  <2>4. Report
    <3>1. toM[w] \o <<[code |-> "LISTENING"]>> = Append(toM[w], [code |-> "LISTENING"])
      BY <1>2
    <3> QED
      BY <1>6, <3>1 DEF Send
  <2> QED
    BY <1>6, <2>1, <2>3, <2>4
<1>7. ASSUME /\ m.code = "UPDATE"
             /\ serv' = [serv EXCEPT ![w] = UpdateConfig(@, m)]
             /\ UNCHANGED <<status, toM>>
      PROVE  Arrived
  <2> DEFINE n == serv[w].base
             e == Sess_mgr(n, m.ips, m.banned)
  <2>1. status[w] = "up" /\ serv[w] \in Server /\ n \in Nat
    BY <1>1, <1>3, <1>7, ServerShape
  <2> HIDE DEF n
  <2>2. e \in Server /\ Apart(e, w) /\ e.ips = m.ips /\ e.temp = {}
    <3> DEFINE ips == m.ips
               bans == m.banned
    <3>1. n \in Nat /\ ips \in Seq(Ips) /\ bans \in SUBSET Ips
      BY <1>4, <1>7, <2>1
    <3> HIDE DEF Becomes, Report, Arrived, e, ips, bans
    <3>2. e = Sess_mgr(n, ips, bans)
      BY DEF e, ips, bans
    <3>3. e \in Server /\ Apart(e, w) /\ e.ips = ips /\ e.temp = {}
      BY <3>1, <3>2, NewManager
    <3> QED
      BY <3>3 DEF ips
  <2>3. serv' = [serv EXCEPT ![w] = e]
    BY <1>7 DEF UpdateConfig, n
  <2> HIDE DEF e
  <2>4. Becomes(e)
    BY <1>7, <2>2, <2>3
  <2> QED
    BY <1>2, <1>7, <2>1, <2>2, <2>4
<1>8. ASSUME /\ m.code = "REFRESH"
             /\ serv' = [serv EXCEPT ![w] = refresh_sessions(@, w, m.sid)]
             /\ UNCHANGED <<status, toM>>
      PROVE  Arrived
  <2> DEFINE e == refresh_sessions(serv[w], w, m.sid)
  <2>1. status[w] = "up" /\ serv[w] \in Server /\ Apart(serv[w], w) /\ m.sid \in Nat
    BY <1>1, <1>3, <1>4, <1>8
  <2>2. /\ e \in Server /\ Apart(e, w) /\ e.ips = serv[w].ips /\ e.temp = serv[w].temp
        /\ world.mode # "explicit" => Fresh(e, m.sid)
    BY <2>1, RefreshedTo
  <2>3. serv' = [serv EXCEPT ![w] = e]
    BY <1>8
  <2> HIDE DEF e
  <2>4. Becomes(e)
    BY <1>8, <2>2, <2>3
  <2> QED
    BY <1>2, <1>8, <2>1, <2>2, <2>4
<1>9. ASSUME /\ m.code = "BANIP"
             /\ serv' = [serv EXCEPT ![w].banned = @ \cup {m.ip}]
             /\ UNCHANGED <<status, toM>>
      PROVE  Arrived
  <2> DEFINE e == [serv[w] EXCEPT !.banned = serv[w].banned \cup {m.ip}]
  <2>1. /\ status[w] = "up" /\ serv[w] \in Server /\ Apart(serv[w], w)
        /\ serv[w].banned \cup {m.ip} \in SUBSET Ips
    BY <1>1, <1>3, <1>4, <1>9, ServerShape
  <2>2. Evolves(serv[w], e, w) /\ e.temp = serv[w].temp
    BY <2>1, MarkedEvolves
  <2>3. serv' = [serv EXCEPT ![w] = e]
    BY <1>2, <1>9
  <2> HIDE DEF e
  <2>4. e \in Server /\ Becomes(e)
    BY <1>9, <2>2, <2>3 DEF Evolves
  <2> QED
    BY <1>2, <1>9, <2>1, <2>4
<1>10. Arrived
  BY <1>5, <1>6, <1>7, <1>8, <1>9
<1> QED
  BY <1>1, <1>3, <1>10 DEF WorkerMoves, m

\* A worker reads, dies, or is replaced.
LEMMA WorkerKeepsBase ==
    ASSUME Base, Immortal, NEW w, WorkerMoves(w)
    PROVE  Base' /\ Immortal'
<1> DEFINE m == Head(toW[w])
<1>1. /\ UNCHANGED <<world, calls, session_id, conf, opt, banned, renewing, zone, listening, req>>
      /\ w \in Workers /\ status[w] \in {"boot", "up"} /\ toW[w] # <<>>
      /\ toW' = [toW EXCEPT ![w] = Tail(@)] /\ status' = [status EXCEPT ![w] = "up"]
      /\ toM' = toM \/ toM' = [toM EXCEPT ![w] = Append(@, [code |-> "LISTENING"])]
  BY DEF WorkerMoves
<1>2. PICK e \in Server : Apart(e, w) /\ serv' = [serv EXCEPT ![w] = e]
  BY DEF WorkerMoves
<1>3. /\ TypeOK /\ Servers /\ Created /\ Placed /\ ForkedInOrder /\ toW[w] \in Seq(ToWorker)
      /\ status \in [Workers -> {"unborn", "boot", "up", "dying", "dead"}]
      /\ toM[w] \in Seq(ToMaster) /\ toM \in [Workers -> Seq(ToMaster)]
      /\ toW \in [Workers -> Seq(ToWorker)] /\ serv \in [Workers -> Server \cup {None}]
  BY <1>1, Typed DEF Base, TypeOK
<1>4. TypeOK'
  <2>1. Tail(toW[w]) \in Seq(ToWorker)
    BY <1>1, <1>3, TailShape
  <2>2. [code |-> "LISTENING"] \in ToMaster
    BY DEF ToMaster
  <2>3. Append(toM[w], [code |-> "LISTENING"]) \in Seq(ToMaster)
    BY <1>3, <2>2
  <2>4. /\ toW' \in [Workers -> Seq(ToWorker)] /\ toM' \in [Workers -> Seq(ToMaster)]
        /\ serv' \in [Workers -> Server \cup {None}]
        /\ status' \in [Workers -> {"unborn", "boot", "up", "dying", "dead"}]
    BY <1>1, <1>2, <1>3, <2>1, <2>3
  <2> QED
    BY <1>1, <1>3, <2>4 DEF TypeOK, calls
<1>5. \A v \in Workers : /\ serv'[v] = IF v = w THEN e ELSE serv[v]
                         /\ status'[v] = IF v = w THEN "up" ELSE status[v]
                         /\ toW'[v] = IF v = w THEN Tail(toW[w]) ELSE toW[v]
  BY <1>1, <1>2, <1>3
<1>6. Servers'
  BY <1>1, <1>2, <1>3, <1>5, ServersKept DEF Servers
<1>7. Placed'
  BY <1>1, <1>3, <1>5, PlacedKept DEF Placed
<1>8. Created'
  <2>1. Free(Tail(toW[w]), {"CREATE"})
    <3>1. CASE status[w] = "boot"
      BY <1>1, <1>3, <3>1 DEF Created
    <3>2. CASE status[w] = "up"
      <4>1. Free(toW[w], {"CREATE"})
        BY <1>1, <1>3, <3>2 DEF Created
      <4> QED
        BY <1>1, <1>3, <4>1, EndsTail
    <3> QED
      BY <1>1, <3>1, <3>2
  <2> QED
    BY <1>3, <1>5, <2>1 DEF Created
<1>9. ForkedInOrder'
  BY <1>1, <1>3, <1>5 DEF ForkedInOrder
<1>10. Immortal'
  <2> SUFFICES ASSUME "crash" \notin world.besides
               PROVE  /\ \A v \in Workers : status'[v] = IF v <= NumWorkers THEN "up" ELSE "unborn"
                      /\ listening' = 1 .. NumWorkers
    BY <1>1 DEF Immortal
  <2>1. /\ \A v \in Workers : status[v] = IF v <= NumWorkers THEN "up" ELSE "unborn"
        /\ listening = 1 .. NumWorkers
    BY DEF Immortal
  <2>2. status[w] = "up"
    BY <1>1, <2>1
  <2> QED
    BY <1>1, <1>5, <2>1, <2>2
<1> QED
  BY <1>4, <1>6, <1>7, <1>8, <1>9, <1>10 DEF Base

\* A worker dies.
LEMMA DiesKeepsBase ==
    ASSUME Base, Immortal, NEW w \in Workers, WorkerDies(w)
    PROVE  Base' /\ Immortal'
<1>1. /\ UNCHANGED <<world, calls, session_id, conf, opt, banned, renewing, zone, listening, toM>>
      /\ "crash" \in world.besides /\ status[w] = "up"
      /\ status' = [status EXCEPT ![w] = "dying"] /\ toW' = [toW EXCEPT ![w] = <<>>]
      /\ serv' = [serv EXCEPT ![w] = None]
      /\ req' = [r \in Requests |->
                   IF req[r].at = w /\ req[r].stage \in {"sent", "away"}
                   THEN [req[r] EXCEPT !.stage = "lost", !.ip = None] ELSE req[r]]
  BY DEF WorkerDies, master, cloud
<1>2. /\ TypeOK /\ Servers /\ Created /\ Placed /\ ForkedInOrder
      /\ status \in [Workers -> {"unborn", "boot", "up", "dying", "dead"}]
      /\ toW \in [Workers -> Seq(ToWorker)] /\ serv \in [Workers -> Server \cup {None}]
  BY DEF Base, TypeOK
<1>3. \A v \in Workers : /\ serv'[v] = IF v = w THEN None ELSE serv[v]
                         /\ status'[v] = IF v = w THEN "dying" ELSE status[v]
                         /\ toW'[v] = IF v = w THEN <<>> ELSE toW[v]
  BY <1>1, <1>2
<1>4. \A r \in Requests :
        /\ req'[r] \in Request /\ req'[r].slot = req[r].slot /\ req'[r].at = req[r].at
        /\ req'[r].stage \in {"sent", "away"} => req'[r] = req[r] /\ req[r].at # w
  <2> SUFFICES ASSUME NEW r \in Requests
               PROVE  /\ req'[r] \in Request /\ req'[r].slot = req[r].slot /\ req'[r].at = req[r].at
                      /\ req'[r].stage \in {"sent", "away"} => req'[r] = req[r] /\ req[r].at # w
    OBVIOUS
  <2> DEFINE p == [req[r] EXCEPT !.stage = "lost", !.ip = None]
  <2>1. req[r] \in Request
    BY <1>2, Typed
  <2>2. p \in Request /\ p.slot = req[r].slot /\ p.at = req[r].at /\ p.stage = "lost"
    BY <2>1 DEF Request
  <2>3. req'[r] = IF req[r].at = w /\ req[r].stage \in {"sent", "away"} THEN p ELSE req[r]
    BY <1>1
  <2> HIDE DEF p
  <2> QED
    BY <2>1, <2>2, <2>3
<1>5. TypeOK'
  <2>1. req' \in [Requests -> Request]
    BY <1>1, <1>4
  <2>2. /\ serv' \in [Workers -> Server \cup {None}] /\ toW' \in [Workers -> Seq(ToWorker)]
        /\ status' \in [Workers -> {"unborn", "boot", "up", "dying", "dead"}]
    <3>1. serv' \in [Workers -> Server \cup {None}]
      BY <1>1, <1>2
    <3>2. <<>> \in Seq(ToWorker)
      OBVIOUS
    <3>3. toW' \in [Workers -> Seq(ToWorker)]
      BY <1>1, <1>2, <3>2
    <3>4. status' \in [Workers -> {"unborn", "boot", "up", "dying", "dead"}]
      BY <1>1, <1>2
    <3> QED
      BY <3>1, <3>3, <3>4
  <2> QED
    BY <1>1, <1>2, <2>1, <2>2 DEF TypeOK, Request, calls
<1>6. Servers'
  BY <1>1, <1>2, <1>3, ServersKept DEF Servers
<1>7. Placed'
  <2>1. \A p \in Requests : /\ Fits(req'[p].slot)
                            /\ req'[p].stage \in {"sent", "away"} =>
                                 req'[p].at \in Workers /\ status'[req'[p].at] = "up"
    BY <1>2, <1>3, <1>4 DEF Placed
  <2> QED
    BY <1>1, <2>1, PlacedKept
<1>8. Created'
  <2>1. Free(<<>>, {"CREATE"})
    BY DEF Free
  <2> QED
    BY <1>2, <1>3, <2>1 DEF Created
<1>9. ForkedInOrder' /\ Immortal'
  BY <1>1, <1>2, <1>3 DEF ForkedInOrder, Immortal
<1> QED
  BY <1>5, <1>6, <1>7, <1>8, <1>9 DEF Base

\* The workers that were forked are those up to one id.
LEMMA ForkedShape ==
    ASSUME TypeOK, ForkedInOrder
    PROVE  \E n \in NumWorkers .. MaxWorkers :
              /\ Cardinality(Forked) = n
              /\ \A w \in Workers : status[w] # "unborn" <=> w <= n
<1>1. PICK n \in NumWorkers .. MaxWorkers : \A w \in Workers : status[w] # "unborn" <=> w <= n
  BY DEF ForkedInOrder
<1>2. n \in Nat \ {0} /\ n <= MaxWorkers /\ MaxWorkers \in Nat
  BY NumbersAssumption
<1>3. Forked = 1 .. n
  BY <1>1, <1>2 DEF Forked, Workers
<1>4. Cardinality(Forked) = n
  BY <1>2, <1>3, FS_Interval
<1> QED
  BY <1>1, <1>4

\* The exit of a worker is seen: another is forked.
ExitMoves(w, new) ==
  /\ UNCHANGED <<world, calls, session_id, conf, opt, banned, renewing, zone, serv, req>>
  /\ w \in Workers /\ new \in Workers /\ w # new
  /\ status[w] = "dying" /\ status[new] = "unborn"
  /\ status' = [status EXCEPT ![w] = "dead", ![new] = "boot"]
  /\ listening' = listening \ {w} /\ toM' = [toM EXCEPT ![w] = <<>>]
  /\ \E msg \in ToWorker : /\ toW' = [toW EXCEPT ![new] = <<msg>>]
                           /\ msg.code = "CREATE" /\ msg.ips = opt

\* What holds at once survives the replacement of a worker.
LEMMA ExitKeepsBase ==
    ASSUME Base, Immortal, NEW w \in Workers, ExitSeen(w)
    PROVE  Base' /\ Immortal' /\ \E new \in Workers : ExitMoves(w, new)
<1> DEFINE new == Cardinality(Forked) + 1
           msg == [code |-> "CREATE", sid |-> session_id, ips |-> opt, banned |-> banned]
<1>1. /\ UNCHANGED <<world, calls, session_id, conf, opt, banned, renewing, zone, serv, req>>
      /\ status[w] = "dying" /\ new \in Workers
      /\ status' = [status EXCEPT ![w] = "dead", ![new] = "boot"]
      /\ listening' = listening \ {w} /\ toM' = [toM EXCEPT ![w] = <<>>]
      /\ toW' = [toW EXCEPT ![new] = <<msg>>]
  BY DEF ExitSeen, master, cloud
<1>2. /\ TypeOK /\ Servers /\ Created /\ Placed /\ ForkedInOrder
      /\ status \in [Workers -> {"unborn", "boot", "up", "dying", "dead"}]
      /\ toW \in [Workers -> Seq(ToWorker)] /\ toM \in [Workers -> Seq(ToMaster)]
      /\ listening \subseteq Workers
      /\ session_id \in Nat /\ opt \in Seq(Ips) /\ banned \in SUBSET Ips
  BY DEF Base, TypeOK
<1>3. PICK n \in NumWorkers .. MaxWorkers :
         /\ new = n + 1
         /\ \A v \in Workers : status[v] # "unborn" <=> v <= n
  BY <1>2, ForkedShape
<1>4. msg \in ToWorker /\ msg.code = "CREATE" /\ msg.ips = opt
  <2> DEFINE S == Seq(Ips)
  <2>1. opt \in S
    BY <1>2
  <2>2. ToWorker = [code: {"CREATE"}, sid: Nat, ips: S, banned: SUBSET Ips]
            \cup [code: {"UPDATE"}, ips: S, banned: SUBSET Ips]
            \cup [code: {"REFRESH"}, sid: Nat] \cup [code: {"BANIP"}, ip: Ips]
    BY DEF ToWorker
  <2> HIDE DEF S
  <2> QED
    BY <1>2, <2>1, <2>2
<1> HIDE DEF new, msg
<1>5. w # new /\ status[new] = "unborn" /\ n \in Nat /\ n + 1 \in NumWorkers .. MaxWorkers
  <2>1. n \in Nat /\ NumWorkers \in Nat /\ MaxWorkers \in Nat
    BY NumbersAssumption
  <2>2. w \in Nat /\ new \in 1 .. MaxWorkers /\ w <= n
    BY <1>1, <1>3 DEF Workers
  <2> QED
    BY <1>1, <1>3, <2>1, <2>2
<1>6. ExitMoves(w, new)
  BY <1>1, <1>4, <1>5 DEF ExitMoves
<1>7. \A v \in Workers :
        /\ status'[v] = IF v = new THEN "boot" ELSE IF v = w THEN "dead" ELSE status[v]
        /\ toW'[v] = IF v = new THEN <<msg>> ELSE toW[v]
  BY <1>1, <1>2, <1>5
<1>8. TypeOK'
  <2>1. /\ toW' \in [Workers -> Seq(ToWorker)] /\ toM' \in [Workers -> Seq(ToMaster)]
        /\ status' \in [Workers -> {"unborn", "boot", "up", "dying", "dead"}]
        /\ listening' \subseteq Workers
    <3>1. <<msg>> \in Seq(ToWorker) /\ <<>> \in Seq(ToMaster)
      BY <1>4
    <3>2. toW' \in [Workers -> Seq(ToWorker)]
      BY <1>1, <1>2, <3>1
    <3>3. toM' \in [Workers -> Seq(ToMaster)]
      BY <1>1, <1>2, <3>1
    <3>4. status' \in [Workers -> {"unborn", "boot", "up", "dying", "dead"}]
      BY <1>1, <1>2
    <3>5. listening' \subseteq Workers
      BY <1>1, <1>2
    <3> QED
      BY <3>2, <3>3, <3>4, <3>5
  <2> QED
    BY <1>1, <1>2, <2>1 DEF TypeOK, calls
<1>9. Servers'
  BY <1>1, <1>2, <1>5, <1>7, ServersKept DEF Servers
<1>10. Placed'
  <2>1. \A p \in Requests : /\ Fits(req[p].slot)
                            /\ req[p].stage \in {"sent", "away"} =>
                                 req[p].at \in Workers /\ status[req[p].at] = "up"
    BY <1>2 DEF Placed
  <2>2. \A v \in Workers : status[v] = "up" => status'[v] = "up"
    BY <1>1, <1>5, <1>7
  <2> QED
    BY <1>1, <2>1, <2>2, PlacedKept
<1>11. Created'
  <2>1. /\ <<msg>> # <<>> /\ Head(<<msg>>) = msg /\ Free(Tail(<<msg>>), {"CREATE"})
    BY DEF Free
  <2> QED
    BY <1>2, <1>4, <1>5, <1>7, <2>1 DEF Created
<1>12. ForkedInOrder'
  <2>1. \A v \in Workers : status'[v] # "unborn" <=> v <= n + 1
    <3> SUFFICES ASSUME NEW v \in Workers PROVE status'[v] # "unborn" <=> v <= n + 1
      OBVIOUS
    <3>1. v \in Nat
      BY DEF Workers
    <3>2. CASE v = new
      BY <1>3, <1>5, <1>7, <3>2
    <3>3. CASE v # new
      <4>1. status'[v] # "unborn" <=> status[v] # "unborn"
        <5>1. status'[v] = IF v = w THEN "dead" ELSE status[v]
          BY <1>7, <3>3
        <5>2. v = w => status[v] = "dying"
          BY <1>1
        <5> QED
          BY <5>1, <5>2
      <4>2. v # n + 1
        BY <1>3, <3>3
      <4> QED
        BY <1>3, <1>5, <3>1, <4>1, <4>2
    <3> QED
      BY <3>2, <3>3
  <2> QED
    BY <1>5, <2>1 DEF ForkedInOrder
<1>13. Immortal'
  <2>1. "crash" \in world.besides
    <3>1. status[w] # "up" /\ status[w] # "unborn"
      BY <1>1
    <3> QED
      BY <3>1 DEF Immortal
  <2> QED
    BY <1>1, <2>1 DEF Immortal
<1> QED
  BY <1>1, <1>6, <1>8, <1>9, <1>10, <1>11, <1>12, <1>13 DEF Base

\* What a step is: a request, the master, or a worker moves.
Moves ==
  \/ \E w \in Workers, r \in Requests : RequestMoves(w, r)
  \/ MasterMoves
  \/ \E w \in Workers : WorkerMoves(w)
  \/ \E w \in Workers : WorkerDies(w)
  \/ \E w \in Workers, new \in Workers : ExitMoves(w, new)

\* The base and what it makes of a step.
LEMMA StepBase ==
    ASSUME Base, Immortal, Next
    PROVE  Base' /\ Immortal' /\ Moves
<1>1. CASE \E r \in Requests : Answer(r) \/ Elsewhere(r)
  <2>1. PICK r \in Requests : Answer(r) \/ Elsewhere(r)
    BY <1>1
  <2>2. RequestMoves(req[r].at, r)
    BY <2>1, AnswerMoves, ElsewhereMoves
  <2>3. req[r].at \in Workers
    BY <2>2 DEF RequestMoves
  <2> QED
    BY <2>2, <2>3, RequestKeepsBase DEF Moves
<1>2. CASE \E w \in Workers : MasterReceives(w)
  <2>1. MasterMoves /\ \E w \in Workers : MasterReceives(w)
    BY <1>2, MasterReceivesMoves DEF Base
  <2>2. Base'
    BY <2>1, MasterKeepsBase
  <2>3. Immortal'
    <3>1. CASE "crash" \in world.besides
      BY <2>1, <3>1 DEF MasterMoves, Immortal
    <3>2. CASE "crash" \notin world.besides
      <4>1. /\ \A v \in Workers : status[v] = IF v <= NumWorkers THEN "up" ELSE "unborn"
            /\ listening = 1 .. NumWorkers
        BY <3>2 DEF Immortal
      <4>2. PICK w \in Workers : MasterReceives(w)
        BY <2>1
      <4>3. w \in listening
        <5>1. status[w] # "unborn"
          BY <4>2 DEF MasterReceives
        <5> QED
          BY <4>1, <5>1 DEF Workers
      <4>4. listening' = listening \/ listening' = listening \cup {w}
        BY <4>2 DEF MasterReceives
      <4> QED
        BY <2>1, <4>1, <4>3, <4>4 DEF MasterMoves, Immortal
    <3> QED
      BY <3>1, <3>2
  <2> QED
    BY <2>1, <2>2, <2>3 DEF Moves
<1>3. CASE Renew \/ RefreshApi
  <2>1. MasterMoves /\ listening' = listening
    BY <1>3, OtherMasterMoves DEF Base
  <2> QED
    BY <2>1, MasterKeepsBase DEF Moves, MasterMoves, Immortal
<1>4. CASE \E w \in Workers : WorkerReceives(w)
  BY <1>4, ReceivesMoves, WorkerKeepsBase DEF Moves
<1>5. CASE \E w \in Workers : ExitSeen(w)
  BY <1>5, ExitKeepsBase DEF Moves
<1>6. CASE \E w \in Workers : WorkerDies(w)
  BY <1>6, DiesKeepsBase DEF Moves
<1>7. CASE \E w \in Workers, r \in Requests : Arrive(r, w)
  BY <1>7, ArriveMoves, RequestKeepsBase DEF Moves
<1> QED
  BY <1>1, <1>2, <1>3, <1>4, <1>5, <1>6, <1>7 DEF Next, Progress

-----------------------------------------------------------------------------
(***************************************************************************)
(* The pools of the workers follow that of the master.                     *)
(***************************************************************************)
Configures == {"CREATE", "UPDATE"}
WithPool(ips) == {m \in ToWorker : m.ips = ips}

\* The last configuration on its way to a worker has the pool of the master;
\* a worker with none on its way has that pool.
Pools ==
  /\ conf = opt
  /\ \A w \in Workers : status[w] \in {"boot", "up"} =>
       /\ Free(toW[w], Configures) => serv[w].ips = conf
       /\ Ends(toW[w], Configures, WithPool(conf))

\* One channel.
LEMMA EndsEmpty ==
    ASSUME NEW C, NEW P
    PROVE  /\ Free(<<>>, C) /\ Ends(<<>>, C, P)
           /\ \A m : Free(<<m>>, C) <=> m.code \notin C
           /\ \A m : m \in P => Ends(<<m>>, C, P)
<1>1. \A m : DOMAIN <<m>> = {1} /\ <<m>>[1] = m
  OBVIOUS
<1>2. DOMAIN <<>> = {}
  OBVIOUS
<1> QED
  BY <1>1, <1>2 DEF Free, Ends

\* It holds at first.
LEMMA InitPools == Init => Pools
<1> SUFFICES ASSUME Init PROVE Pools
  OBVIOUS
<1>1. \A w \in Workers : toW[w] = <<>> /\ (status[w] \in {"boot", "up"} => w <= NumWorkers)
  BY DEF Init
<1>2. \A w \in Workers : w <= NumWorkers => serv[w] = Sess_mgr(0, world.ips, {})
  BY DEF Init
<1>3. Sess_mgr(0, world.ips, {}).ips = conf /\ conf = opt
  BY DEF Init, Sess_mgr
<1> QED
  BY <1>1, <1>2, <1>3, EndsEmpty DEF Pools

\* It is kept by every step.
LEMMA StepPools ==
    ASSUME Base, Pools, Moves
    PROVE  Pools'
<1>1. TypeOK /\ \A w \in Workers : toW[w] \in Seq(ToWorker)
  BY Typed DEF Base
<1>2. ASSUME NEW w \in Workers, NEW r \in Requests, RequestMoves(w, r) PROVE Pools'
  <2>1. UNCHANGED <<conf, opt, status, toW>>
    BY <1>2 DEF RequestMoves, master, procs
  <2>2. PICK e \in Server : Evolves(serv[w], e, w) /\ serv' = [serv EXCEPT ![w] = e]
    BY <1>2 DEF RequestMoves
  <2>3. \A v \in Workers : serv'[v].ips = serv[v].ips
    BY <1>1, <2>2 DEF Evolves, TypeOK
  <2> QED
    BY <2>1, <2>3 DEF Pools
<1>3. ASSUME MasterMoves PROVE Pools'
  <2>1. UNCHANGED <<status, serv>> /\ (PoolChanged \/ PoolKept)
    BY <1>3 DEF MasterMoves
  <2>2. CASE PoolChanged
    <3>1. /\ conf' = opt'
          /\ \A w \in Live : \E msg \in ToWorker :
               Told(w, msg) /\ msg.code = "UPDATE" /\ msg.ips = conf'
      BY <1>1, <2>2, Tellings
    <3>2. ASSUME NEW w \in Workers, status[w] \in {"boot", "up"}
          PROVE  /\ ~Free(toW'[w], Configures)
                 /\ Ends(toW'[w], Configures, WithPool(conf'))
      <4>1. PICK msg \in ToWorker :
               toW'[w] = Append(toW[w], msg) /\ msg.code = "UPDATE" /\ msg.ips = conf'
        BY <3>1, <3>2 DEF Live, Told
      <4>2. msg.code \in Configures /\ msg \in WithPool(conf') /\ toW[w] \in Seq(ToWorker)
        BY <1>1, <4>1 DEF Configures, WithPool
      <4> QED
        BY <4>1, <4>2, EndsAppend
    <3> QED
      BY <2>1, <3>1, <3>2 DEF Pools
  <2>3. CASE PoolKept
    <3>1. /\ conf' = conf /\ opt' = opt
          /\ \A w \in Workers : \/ toW'[w] = toW[w]
                                \/ \E msg \in ToWorker :
                                     Told(w, msg) /\ msg.code \in {"REFRESH", "BANIP"}
      BY <1>1, <2>3, Tellings
    <3>2. ASSUME NEW w \in Workers
          PROVE  /\ Free(toW'[w], Configures) => Free(toW[w], Configures)
                 /\ Ends(toW[w], Configures, WithPool(conf))
                      => Ends(toW'[w], Configures, WithPool(conf))
      <4>1. CASE toW'[w] = toW[w]
        BY <4>1
      <4>2. ASSUME NEW msg \in ToWorker, Told(w, msg), msg.code \in {"REFRESH", "BANIP"}
            PROVE  /\ Free(toW'[w], Configures) => Free(toW[w], Configures)
                   /\ Ends(toW[w], Configures, WithPool(conf))
                        => Ends(toW'[w], Configures, WithPool(conf))
        <5>1. /\ toW'[w] = Append(toW[w], msg) /\ msg.code \notin Configures
              /\ toW[w] \in Seq(ToWorker)
          BY <1>1, <4>2 DEF Told, Configures
        <5> QED
          BY <5>1, EndsAppend
      <4> QED
        BY <3>1, <4>1, <4>2
    <3> QED
      BY <2>1, <3>1, <3>2 DEF Pools
  <2> QED
    BY <2>1, <2>2, <2>3
<1>4. ASSUME NEW w \in Workers, WorkerMoves(w) PROVE Pools'
  <2> DEFINE m == Head(toW[w])
  <2>1. /\ UNCHANGED <<conf, opt>> /\ status[w] \in {"boot", "up"} /\ toW[w] # <<>>
        /\ m \in ToWorker /\ toW' = [toW EXCEPT ![w] = Tail(@)]
        /\ status' = [status EXCEPT ![w] = "up"]
    BY <1>4 DEF WorkerMoves
  <2>2. PICK e \in Server :
           /\ serv' = [serv EXCEPT ![w] = e]
           /\ m.code \in {"CREATE", "UPDATE"} => e.ips = m.ips
           /\ m.code \in {"REFRESH", "BANIP"} => e.ips = serv[w].ips
    BY <1>4 DEF WorkerMoves
  <2>3. m.code \in {"CREATE", "UPDATE", "REFRESH", "BANIP"}
    BY <2>1 DEF ToWorker
  <2>4. \A v \in Workers : /\ serv'[v] = IF v = w THEN e ELSE serv[v]
                           /\ status'[v] = IF v = w THEN "up" ELSE status[v]
                           /\ toW'[v] = IF v = w THEN Tail(toW[w]) ELSE toW[v]
    BY <1>1, <2>1, <2>2 DEF TypeOK
  <2>5. /\ Free(toW[w], Configures) => serv[w].ips = conf
        /\ Ends(toW[w], Configures, WithPool(conf)) /\ toW[w] \in Seq(ToWorker)
    BY <1>1, <2>1 DEF Pools
  <2>6. Ends(Tail(toW[w]), Configures, WithPool(conf))
    BY <2>1, <2>5, EndsTail
  <2>7. Free(Tail(toW[w]), Configures) => e.ips = conf
    <3> SUFFICES ASSUME Free(Tail(toW[w]), Configures) PROVE e.ips = conf
      OBVIOUS
    <3>1. CASE m.code \in Configures
      <4>1. m \in WithPool(conf)
        BY <2>1, <2>5, <3>1, EndsTail
      <4> QED
        BY <2>2, <3>1, <4>1 DEF Configures, WithPool
    <3>2. CASE m.code \notin Configures
      <4>1. Free(toW[w], Configures)
        BY <2>1, <2>5, <3>2, EndsTail
      <4> QED
        BY <2>2, <2>3, <2>5, <3>2, <4>1 DEF Configures
    <3> QED
      BY <3>1, <3>2
  <2> HIDE DEF m
  <2> QED
    BY <2>1, <2>4, <2>6, <2>7 DEF Pools
<1>5. ASSUME NEW w \in Workers, WorkerDies(w) PROVE Pools'
  <2>1. /\ UNCHANGED <<conf, opt>>
        /\ \A v \in Workers : /\ serv'[v] = IF v = w THEN None ELSE serv[v]
                              /\ status'[v] = IF v = w THEN "dying" ELSE status[v]
                              /\ toW'[v] = IF v = w THEN <<>> ELSE toW[v]
    BY <1>1, <1>5 DEF WorkerDies, master, TypeOK
  <2> QED
    BY <2>1 DEF Pools
<1>6. ASSUME NEW w \in Workers, NEW new \in Workers, ExitMoves(w, new) PROVE Pools'
  <2>1. PICK msg \in ToWorker : /\ toW' = [toW EXCEPT ![new] = <<msg>>]
                                /\ msg.code = "CREATE" /\ msg.ips = opt
    BY <1>6 DEF ExitMoves
  <2>2. /\ UNCHANGED <<conf, opt, serv>> /\ w # new
        /\ \A v \in Workers :
             /\ status'[v] = IF v = new THEN "boot" ELSE IF v = w THEN "dead" ELSE status[v]
             /\ toW'[v] = IF v = new THEN <<msg>> ELSE toW[v]
    BY <1>1, <1>6, <2>1 DEF ExitMoves, TypeOK
  <2>3. msg.code \in Configures /\ msg \in WithPool(conf)
    BY <2>1 DEF Configures, WithPool, Pools
  <2>4. ~Free(<<msg>>, Configures) /\ Ends(<<msg>>, Configures, WithPool(conf))
    BY <2>3, EndsEmpty
  <2> QED
    BY <2>2, <2>4 DEF Pools
<1> QED
  BY <1>2, <1>3, <1>4, <1>5, <1>6 DEF Moves

\* What it says when nothing is under way.
LEMMA PoolsAgreed == Pools => PoolAgreement
<1>1. Free(<<>>, Configures)
  BY EndsEmpty
<1> QED
  BY <1>1 DEF Pools, PoolAgreement, Quiet

-----------------------------------------------------------------------------
(***************************************************************************)
(* The pool of the master.                                                 *)
(***************************************************************************)

\* Without a rule that renews, nothing is renewed; the pool is sound.
Sound ==
  /\ PoolSound
  /\ "renew" \notin world.rule.does =>
       renewing = {} /\ \A w \in Workers : Free(toM[w], {"RENEW"})

\* It holds at first.
LEMMA InitSound == Init => Sound
<1> SUFFICES ASSUME Init PROVE Sound
  OBVIOUS
<1>1. world.ips \in Seq(Ips)
  BY WorldsAssumption DEF Init, World
<1>2. Len(conf) <= Len(world.ips) /\ (IsInjective(world.ips) => IsInjective(conf))
  BY <1>1 DEF Init
<1>3. renewing = {} /\ \A w \in Workers : Free(toM[w], {"RENEW"})
  BY EndsEmpty DEF Init
<1> QED
  BY <1>2, <1>3 DEF Sound, PoolSound

\* An IP that is new to a list without repetitions makes no repetition.
LEMMA InjectiveAppend ==
    ASSUME NEW s \in Seq(Ips), IsInjective(s), NEW ip \in Ips, ip \notin Range(s)
    PROVE  IsInjective(Append(s, ip))
<1> DEFINE t == Append(s, ip)
<1>1. /\ Len(s) \in Nat /\ DOMAIN s = 1 .. Len(s) /\ DOMAIN t = 1 .. Len(s) + 1
      /\ t[Len(s) + 1] = ip /\ \A i \in 1 .. Len(s) : t[i] = s[i]
  BY AppendShape
<1> HIDE DEF t
<1>2. \A i \in 1 .. Len(s) : s[i] # ip
  BY <1>1, RangeType
<1> SUFFICES ASSUME NEW a \in DOMAIN t, NEW b \in DOMAIN t, t[a] = t[b]
             PROVE  a = b
  BY DEF IsInjective, t
<1>3. (a \in 1 .. Len(s) \/ a = Len(s) + 1) /\ (b \in 1 .. Len(s) \/ b = Len(s) + 1)
  BY <1>1
<1>4. CASE a \in 1 .. Len(s) /\ b \in 1 .. Len(s)
  BY <1>1, <1>4 DEF IsInjective
<1> QED
  BY <1>1, <1>2, <1>3, <1>4

\* The pool changes.
LEMMA ChangeSound ==
    ASSUME TypeOK, conf = opt, Sound, NEW ips \in Seq(Ips), Change(ips)
    PROVE  /\ Len(ips) <= world.pool \/ Len(ips) <= Len(world.ips)
           /\ "renew" \notin world.rule.does /\ IsInjective(world.ips) => IsInjective(ips)
<1>1. /\ conf \in Seq(Ips) /\ Len(conf) \in Nat /\ Len(ips) \in Nat
      /\ world.pool \in Nat /\ Len(world.ips) \in Nat
  BY Typed DEF TypeOK
<1>2. /\ Len(conf) <= world.pool \/ Len(conf) <= Len(world.ips)
      /\ "renew" \notin world.rule.does /\ IsInjective(world.ips) => IsInjective(conf)
  BY DEF Sound, PoolSound
<1>3. ASSUME NEW ip \in Ips, MayAdd(ip), ips = Append(conf, ip)
      PROVE  /\ Len(ips) <= world.pool
             /\ IsInjective(conf) => IsInjective(ips)
  <2>1. Len(ips) = Len(conf) + 1 /\ Len(conf) < world.pool /\ ip \notin Range(conf)
    BY <1>1, <1>3, AppendShape DEF MayAdd
  <2> QED
    BY <1>1, <1>3, <2>1, InjectiveAppend
<1>4. ASSUME NEW ip \in Range(conf), ips = SeqMinus(conf, {ip})
      PROVE  Len(ips) <= Len(conf) /\ (IsInjective(conf) => IsInjective(ips))
  <2>1. Len(SeqMinus(conf, {ip})) <= Len(conf)
    BY <1>1, MinusFacts
  <2>2. Distinct(conf) => Distinct(SeqMinus(conf, {ip}))
    BY <1>1, MinusFacts
  <2> QED
    BY <1>4, <2>1, <2>2 DEF Distinct, IsInjective
<1>5. ASSUME NEW p \in renewing, ips = Replace(opt, p.old, p.new)
      PROVE  Len(ips) = Len(conf) /\ "renew" \in world.rule.does
  <2>1. p.new \in Ips
    BY <1>5 DEF TypeOK
  <2>2. Len(ips) = Len(conf)
    BY <1>1, <1>5, <2>1, Replaced
  <2>3. renewing # {}
    BY <1>5
  <2> QED
    BY <2>2, <2>3 DEF Sound
<1>6. CASE \E ip \in Ips : MayAdd(ip) /\ ips = Append(conf, ip)
  BY <1>2, <1>3, <1>6
<1>7. CASE \E ip \in Range(conf) : ips = SeqMinus(conf, {ip})
  <2>1. Len(ips) <= Len(conf) /\ (IsInjective(conf) => IsInjective(ips))
    BY <1>4, <1>7
  <2>2. Len(ips) <= world.pool \/ Len(ips) <= Len(world.ips)
    BY <1>1, <1>2, <2>1
  <2> QED
    BY <1>2, <2>1, <2>2
<1>8. CASE \E p \in renewing : p.old \in Range(opt) /\ ips = Replace(opt, p.old, p.new)
  BY <1>2, <1>5, <1>8
<1> QED
  BY <1>6, <1>7, <1>8 DEF Change

\* The channels to the master after a step hold what they held, or what a
\* request has sent, or that a worker listens.
LEMMA StepSound ==
    ASSUME Base, Pools, Sound, Moves
    PROVE  Sound'
<1>1. /\ TypeOK /\ conf = opt /\ toM \in [Workers -> Seq(ToMaster)]
      /\ \A w \in Workers : toM[w] \in Seq(ToMaster)
  BY DEF Base, Pools, TypeOK
<1>2. ASSUME NEW w \in Workers, NEW r \in Requests, RequestMoves(w, r) PROVE Sound'
  <2>1. UNCHANGED <<world, conf, renewing>>
    BY <1>2 DEF RequestMoves, master, cloud
  <2>2. PICK msgs \in Seq(ToMaster) :
           /\ toM' = [toM EXCEPT ![w] = @ \o msgs]
           /\ "renew" \notin world.rule.does => Free(msgs, {"RENEW"})
    BY <1>2 DEF RequestMoves
  <2>3. \A v \in Workers : toM'[v] = IF v = w THEN toM[w] \o msgs ELSE toM[v]
    BY <1>1, <2>2
  <2>4. ASSUME "renew" \notin world.rule.does
        PROVE  renewing' = {} /\ \A v \in Workers : Free(toM'[v], {"RENEW"})
    <3>1. \A v \in Workers : Free(toM[v], {"RENEW"})
      BY <2>4 DEF Sound
    <3>2. Free(toM[w] \o msgs, {"RENEW"})
      BY <1>1, <2>2, <2>4, <3>1, ConcatShape
    <3> QED
      BY <2>1, <2>3, <2>4, <3>1, <3>2 DEF Sound
  <2> QED
    BY <2>1, <2>4 DEF Sound, PoolSound
<1>3. ASSUME MasterMoves PROVE Sound'
  <2>1. world' = world
    BY <1>3 DEF MasterMoves
  <2>2. PoolSound'
    <3>1. CASE PoolChanged
      <4>1. PICK ips \in Seq(Ips) : conf' = ips /\ Change(ips)
        BY <3>1 DEF PoolChanged, Update
      <4>2. /\ Len(ips) <= world.pool \/ Len(ips) <= Len(world.ips)
            /\ "renew" \notin world.rule.does /\ IsInjective(world.ips) => IsInjective(ips)
        BY <1>1, <4>1, ChangeSound
      <4> QED
        BY <2>1, <4>1, <4>2 DEF PoolSound
    <3>2. CASE PoolKept
      BY <2>1, <3>2 DEF PoolKept, PoolSound, Sound
    <3> QED
      BY <1>3, <3>1, <3>2 DEF MasterMoves
  <2>3. ASSUME "renew" \notin world.rule.does
        PROVE  renewing' = {} /\ \A v \in Workers : Free(toM'[v], {"RENEW"})
    <3>1. renewing = {} /\ \A v \in Workers : Free(toM[v], {"RENEW"})
      BY <2>3 DEF Sound
    <3>2. renewing' = {}
      BY <1>3, <3>1 DEF MasterMoves
    <3>3. CASE UNCHANGED toM
      BY <3>1, <3>2, <3>3
    <3>4. ASSUME NEW w \in Workers, Read(w)
          PROVE  \A v \in Workers : Free(toM'[v], {"RENEW"})
      <4>1. toM'[w] = Tail(toM[w]) /\ \A v \in Workers : v # w => toM'[v] = toM[v]
        BY <1>1, <3>4, Reading
      <4>2. toM[w] # <<>> /\ toM[w] \in Seq(ToMaster)
        BY <1>1, <3>4 DEF Read
      <4>3. Free(Tail(toM[w]), {"RENEW"})
        BY <3>1, <4>2, EndsTail
      <4> QED
        BY <3>1, <4>1, <4>3
    <3> QED
      BY <1>3, <3>2, <3>3, <3>4 DEF MasterMoves
  <2> QED
    BY <2>1, <2>2, <2>3 DEF Sound
<1>4. ASSUME NEW w \in Workers, WorkerMoves(w) PROVE Sound'
  <2>1. /\ UNCHANGED <<world, conf, renewing>>
        /\ toM' = toM \/ toM' = [toM EXCEPT ![w] = Append(@, [code |-> "LISTENING"])]
    BY <1>4 DEF WorkerMoves
  <2>2. ASSUME NEW v \in Workers, Free(toM[v], {"RENEW"}) PROVE Free(toM'[v], {"RENEW"})
    <3> DEFINE msg == [code |-> "LISTENING"]
    <3>1. msg \in ToMaster /\ msg.code \notin {"RENEW"}
      BY DEF ToMaster
    <3>2. toM'[v] = toM[v] \/ toM'[v] = Append(toM[v], msg)
      BY <1>1, <2>1
    <3> HIDE DEF msg
    <3>3. Free(toM[v], {"RENEW"}) => Free(Append(toM[v], msg), {"RENEW"})
      <4>1. toM[v] \in Seq(ToMaster)
        BY <1>1
      <4> QED
        BY <3>1, <4>1, EndsAppend
    <3> QED
      BY <2>2, <3>2, <3>3
  <2> QED
    BY <2>1, <2>2 DEF Sound, PoolSound
<1>5. ASSUME NEW w \in Workers, WorkerDies(w) PROVE Sound'
  BY <1>5 DEF WorkerDies, master, cloud, Sound, PoolSound
<1>6. ASSUME NEW w \in Workers, NEW new \in Workers, ExitMoves(w, new) PROVE Sound'
  <2>1. /\ UNCHANGED <<world, conf, renewing>>
        /\ \A v \in Workers : toM'[v] = IF v = w THEN <<>> ELSE toM[v]
    BY <1>1, <1>6 DEF ExitMoves
  <2> QED
    BY <2>1, EndsEmpty DEF Sound, PoolSound
<1> QED
  BY <1>2, <1>3, <1>4, <1>5, <1>6 DEF Moves

-----------------------------------------------------------------------------
(***************************************************************************)
(* Reservations.                                                           *)
(***************************************************************************)
Reports(w, t) == [code |-> "ADD", ip |-> t] \in Range(toM[w])

\* What a worker with no new configuration on its way has reserved, the
\* master can add, and the message that asks for it is on its way.
Reserved ==
  world.pool > 0 =>
    \A w \in Workers :
      status[w] = "up" /\ Free(toW[w], {"UPDATE"}) /\ serv[w].temp # {} =>
        /\ Len(conf) < world.pool
        /\ \A t \in serv[w].temp : t \notin Range(conf) /\ Reports(w, t)

\* It holds at first.
LEMMA InitReserved == Init => Reserved
<1> SUFFICES ASSUME Init PROVE Reserved
  OBVIOUS
<1>1. \A w \in Workers : status[w] = "up" => serv[w] = Sess_mgr(0, world.ips, {})
  BY DEF Init
<1>2. Sess_mgr(0, world.ips, {}).temp = {}
  BY DEF Sess_mgr
<1> QED
  BY <1>1, <1>2 DEF Reserved

\* It is kept by every step.
LEMMA StepReserved ==
    ASSUME Base, Pools, Reserved, Moves
    PROVE  Reserved'
<1>1. /\ TypeOK /\ Servers /\ Created /\ toM \in [Workers -> Seq(ToMaster)]
      /\ \A w \in Workers : toM[w] \in Seq(ToMaster) /\ toW[w] \in Seq(ToWorker)
      /\ conf \in Seq(Ips) /\ world.pool \in Nat
  BY Typed DEF Base, TypeOK
<1>2. world' = world
  BY DEF Moves, RequestMoves, MasterMoves, WorkerMoves, WorkerDies, ExitMoves
<1> SUFFICES ASSUME world.pool > 0, NEW w \in Workers, status'[w] = "up",
                    Free(toW'[w], {"UPDATE"}), serv'[w].temp # {}
             PROVE  /\ Len(conf') < world.pool
                    /\ \A t \in serv'[w].temp : t \notin Range(conf') /\ Reports(w, t)'
  BY <1>2 DEF Reserved
<1>3. status[w] = "up" /\ Free(toW[w], {"UPDATE"}) /\ serv[w].temp # {} =>
        /\ Len(conf) < world.pool
        /\ \A t \in serv[w].temp : t \notin Range(conf) /\ Reports(w, t)
  BY DEF Reserved
<1>4. ASSUME UNCHANGED conf, status[w] = "up", Free(toW[w], {"UPDATE"}), serv'[w].temp = serv[w].temp,
             Range(toM[w]) \subseteq Range(toM'[w])
      PROVE  /\ Len(conf') < world.pool
             /\ \A t \in serv'[w].temp : t \notin Range(conf') /\ Reports(w, t)'
  BY <1>3, <1>4 DEF Reports
<1>5. ASSUME NEW v \in Workers, NEW r \in Requests, RequestMoves(v, r)
      PROVE  /\ Len(conf') < world.pool
             /\ \A t \in serv'[w].temp : t \notin Range(conf') /\ Reports(w, t)'
  <2>1. UNCHANGED <<conf, status, toW>> /\ status[w] = "up" /\ Free(toW[w], {"UPDATE"})
    BY <1>5 DEF RequestMoves, master, procs
  <2>2. PICK e \in Server, msgs \in Seq(ToMaster) :
           /\ Evolves(serv[v], e, v) /\ serv' = [serv EXCEPT ![v] = e]
           /\ toM' = [toM EXCEPT ![v] = @ \o msgs]
           /\ \/ e.temp = serv[v].temp
              \/ \E ip \in Ips : /\ MayReserve(serv[v], ip)
                                 /\ e.temp = serv[v].temp \cup {ip}
                                 /\ [code |-> "ADD", ip |-> ip] \in Range(msgs)
    BY <1>5 DEF RequestMoves
  <2>3. /\ \A u \in Workers : serv'[u] = IF u = v THEN e ELSE serv[u]
        /\ \A u \in Workers : toM'[u] = IF u = v THEN toM[u] \o msgs ELSE toM[u]
    BY <1>1, <2>2 DEF TypeOK
  <2>4. /\ Range(toM[w]) \subseteq Range(toM[w] \o msgs)
        /\ Range(msgs) \subseteq Range(toM[w] \o msgs)
    BY <1>1, ConcatShape
  <2>5. Range(toM[w]) \subseteq Range(toM'[w])
    BY <2>3, <2>4
  <2>6. CASE serv'[w].temp = serv[w].temp
    BY <1>4, <2>1, <2>5, <2>6
  <2>7. CASE serv'[w].temp # serv[w].temp
    <3>1. w = v
      BY <2>3, <2>7
    <3>2. PICK ip \in Ips : /\ MayReserve(serv[w], ip)
                            /\ serv'[w].temp = serv[w].temp \cup {ip}
                            /\ [code |-> "ADD", ip |-> ip] \in Range(msgs)
      BY <2>2, <2>3, <2>7, <3>1
    <3>3. serv[w].ips = conf
      <4>1. Free(toW[w], {"CREATE"})
        BY <1>1, <2>1 DEF Created
      <4>2. Free(toW[w], Configures)
        BY <2>1, <4>1 DEF Free, Configures
      <4> QED
        BY <2>1, <4>2 DEF Pools
    <3>4. Len(conf) < world.pool /\ ip \notin Range(conf)
      <4>1. Len(conf) < pool_size /\ ip \notin Range(conf)
        BY <3>2, <3>3 DEF MayReserve
      <4>2. pool_size \in Nat /\ pool_size <= world.pool /\ Len(conf) \in Nat
        BY <1>1, Typed DEF pool_size
      <4> QED
        BY <1>1, <4>1, <4>2
    <3>5. Reports(w, ip)'
      BY <2>3, <2>4, <3>1, <3>2 DEF Reports
    <3>6. \A t \in serv[w].temp : t \notin Range(conf) /\ Reports(w, t)
      BY <1>3, <2>1
    <3>7. \A t \in serv[w].temp : Reports(w, t)'
      BY <2>5, <3>6 DEF Reports
    <3> QED
      BY <2>1, <3>2, <3>4, <3>5, <3>6, <3>7
  <2> QED
    BY <2>6, <2>7
<1>6. ASSUME MasterMoves
      PROVE  /\ Len(conf') < world.pool
             /\ \A t \in serv'[w].temp : t \notin Range(conf') /\ Reports(w, t)'
  <2>1. UNCHANGED <<status, serv>> /\ (PoolChanged \/ PoolKept)
    BY <1>6 DEF MasterMoves
  <2>2. ~PoolChanged
    <3> SUFFICES ASSUME PoolChanged PROVE FALSE
      OBVIOUS
    <3>1. w \in Live
      BY <2>1 DEF Live
    <3>2. PICK msg \in ToWorker : Told(w, msg) /\ msg.code = "UPDATE"
      BY <1>1, <3>1, Tellings
    <3>3. ~Free(Append(toW[w], msg), {"UPDATE"})
      <4>1. toW[w] \in Seq(ToWorker) /\ msg.code \in {"UPDATE"}
        BY <1>1, <3>2
      <4> QED
        BY <4>1, EndsAppend
    <3> QED
      BY <3>2, <3>3 DEF Told
  <2>3. conf' = conf /\ Free(toW[w], {"UPDATE"})
    <3>1. /\ PoolKept
          /\ conf' = conf
          /\ \/ toW'[w] = toW[w]
             \/ \E msg \in ToWorker : Told(w, msg) /\ msg.code \in {"REFRESH", "BANIP"}
      BY <1>1, <2>1, <2>2, Tellings
    <3>2. ASSUME NEW msg \in ToWorker, Told(w, msg) PROVE Free(toW[w], {"UPDATE"})
      <4>1. Free(Append(toW[w], msg), {"UPDATE"})
        BY <3>2 DEF Told
      <4> QED
        BY <1>1, <4>1, EndsAppend
    <3> QED
      BY <3>1, <3>2
  <2>4. CASE UNCHANGED toM
    BY <1>4, <2>1, <2>3, <2>4
  <2>5. ASSUME NEW v \in Workers, Read(v), Heeded(Head(toM[v]))
        PROVE  /\ Len(conf') < world.pool
               /\ \A t \in serv'[w].temp : t \notin Range(conf') /\ Reports(w, t)'
    <3>1. toM'[v] = Tail(toM[v]) /\ \A u \in Workers : u # v => toM'[u] = toM[u]
      BY <1>1, <2>5, Reading
    <3>2. CASE v # w
      BY <1>4, <2>1, <2>3, <3>1, <3>2
    <3>3. CASE v = w
      <4>1. /\ Len(conf) < world.pool
            /\ \A t \in serv[w].temp : t \notin Range(conf) /\ Reports(w, t)
        BY <1>3, <2>1, <2>3
      <4>2. Range(toM[w]) = {Head(toM[w])} \cup Range(toM'[w])
        <5>1. toM[w] # <<>>
          BY <2>5, <3>3 DEF Read
        <5> QED
          BY <1>1, <3>1, <3>3, <5>1, RangeTail
      <4>3. ASSUME NEW t \in serv[w].temp PROVE Reports(w, t)'
        <5> DEFINE msg == [code |-> "ADD", ip |-> t]
        <5>1. msg \in Range(toM[w])
          BY <4>1, <4>3 DEF Reports
        <5>2. CASE msg = Head(toM[w])
          <6>1. msg.code = "ADD" /\ msg.ip = t
            OBVIOUS
          <6>2. MayAdd(t)
            BY <4>1, <4>3 DEF MayAdd
          <6>3. Heeded(msg)
            BY <2>5, <3>3, <5>2
          <6> HIDE DEF msg
          <6> QED
            BY <2>2, <6>1, <6>2, <6>3 DEF Heeded
        <5>3. CASE msg # Head(toM[w])
          BY <4>2, <5>1, <5>3 DEF Reports
        <5> QED
          BY <5>2, <5>3
      <4> QED
        BY <2>1, <2>3, <4>1, <4>3
    <3> QED
      BY <3>2, <3>3
  <2> QED
    BY <1>6, <2>4, <2>5 DEF MasterMoves
<1>7. ASSUME NEW v \in Workers, WorkerMoves(v)
      PROVE  /\ Len(conf') < world.pool
             /\ \A t \in serv'[w].temp : t \notin Range(conf') /\ Reports(w, t)'
  <2> DEFINE m == Head(toW[v])
  <2>1. /\ UNCHANGED conf /\ status[v] \in {"boot", "up"} /\ toW[v] # <<>> /\ m \in ToWorker
        /\ toW' = [toW EXCEPT ![v] = Tail(@)] /\ status' = [status EXCEPT ![v] = "up"]
        /\ status[v] = "up" => m.code # "CREATE"
        /\ status[v] = "boot" => m.code = "CREATE"
        /\ toM' = toM \/ toM' = [toM EXCEPT ![v] = Append(@, [code |-> "LISTENING"])]
    BY <1>7 DEF WorkerMoves
  <2>2. PICK e \in Server :
           /\ serv' = [serv EXCEPT ![v] = e]
           /\ m.code \in {"CREATE", "UPDATE"} => e.temp = {}
           /\ m.code \in {"REFRESH", "BANIP"} => e.temp = serv[v].temp
    BY <1>7 DEF WorkerMoves
  <2>3. m.code \in {"CREATE", "UPDATE", "REFRESH", "BANIP"}
    BY <2>1 DEF ToWorker
  <2>4. \A u \in Workers : /\ serv'[u] = IF u = v THEN e ELSE serv[u]
                           /\ status'[u] = IF u = v THEN "up" ELSE status[u]
                           /\ toW'[u] = IF u = v THEN Tail(toW[v]) ELSE toW[u]
    BY <1>1, <2>1, <2>2 DEF TypeOK
  <2>5. Range(toM[w]) \subseteq Range(toM'[w])
    <3> DEFINE msg == [code |-> "LISTENING"]
    <3>1. msg \in ToMaster
      BY DEF ToMaster
    <3>2. toM'[w] = toM[w] \/ toM'[w] = Append(toM[w], msg)
      BY <1>1, <2>1
    <3> HIDE DEF msg
    <3>3. Range(Append(toM[w], msg)) = Range(toM[w]) \cup {msg}
      <4>1. toM[w] \in Seq(ToMaster)
        BY <1>1
      <4> QED
        BY <3>1, <4>1, RangeAppend
    <3> QED
      BY <3>2, <3>3
  <2>6. CASE v # w
    BY <1>4, <2>1, <2>4, <2>5, <2>6
  <2>7. CASE v = w
    <3>1. m.code \in {"REFRESH", "BANIP"} /\ serv'[w].temp = serv[w].temp
      BY <2>2, <2>3, <2>4, <2>7
    <3>2. status[w] = "up"
      BY <2>1, <2>7, <3>1
    <3>3. Free(toW[w], {"UPDATE"})
      <4>1. Free(Tail(toW[w]), {"UPDATE"}) /\ m.code \notin {"UPDATE"}
        BY <2>4, <2>7, <3>1
      <4> QED
        BY <1>1, <2>1, <2>7, <4>1, EndsTail
    <3> QED
      BY <1>4, <2>1, <2>5, <3>1, <3>2, <3>3
  <2> QED
    BY <2>6, <2>7
<1>8. ASSUME NEW v \in Workers, WorkerDies(v)
      PROVE  /\ Len(conf') < world.pool
             /\ \A t \in serv'[w].temp : t \notin Range(conf') /\ Reports(w, t)'
  <2>1. /\ UNCHANGED <<conf, toM>>
        /\ \A u \in Workers : /\ serv'[u] = IF u = v THEN None ELSE serv[u]
                              /\ status'[u] = IF u = v THEN "dying" ELSE status[u]
                              /\ toW'[u] = IF u = v THEN <<>> ELSE toW[u]
    BY <1>1, <1>8 DEF WorkerDies, master, TypeOK
  <2>2. w # v
    BY <2>1
  <2> QED
    BY <1>4, <2>1, <2>2
<1>9. ASSUME NEW v \in Workers, NEW new \in Workers, ExitMoves(v, new)
      PROVE  /\ Len(conf') < world.pool
             /\ \A t \in serv'[w].temp : t \notin Range(conf') /\ Reports(w, t)'
  <2>1. PICK msg \in ToWorker : toW' = [toW EXCEPT ![new] = <<msg>>]
    BY <1>9 DEF ExitMoves
  <2>2. /\ UNCHANGED <<conf, serv>>
        /\ \A u \in Workers :
             /\ status'[u] = IF u = new THEN "boot" ELSE IF u = v THEN "dead" ELSE status[u]
             /\ toW'[u] = IF u = new THEN <<msg>> ELSE toW[u]
             /\ toM'[u] = IF u = v THEN <<>> ELSE toM[u]
    BY <1>1, <1>9, <2>1 DEF ExitMoves, TypeOK
  <2>3. w # new /\ w # v
    BY <2>2
  <2> QED
    BY <1>4, <2>2, <2>3
<1> QED
  BY <1>5, <1>6, <1>7, <1>8, <1>9 DEF Moves

\* What it says of the messages.
LEMMA ReservedAnswered == ASSUME Base, Reserved PROVE ReservationsAnswered
<1> SUFFICES ASSUME NEW w \in Workers, status[w] = "up", world.pool > 0, serv[w].temp # {},
                    ~\E i \in DOMAIN toW[w] : toW[w][i].code = "UPDATE"
             PROVE  \E i \in DOMAIN toM[w] : toM[w][i].code = "ADD"
  BY DEF ReservationsAnswered
<1>1. Free(toW[w], {"UPDATE"})
  BY DEF Free
<1>2. PICK t \in serv[w].temp : Reports(w, t)
  BY <1>1 DEF Reserved
<1>3. toM[w] \in Seq(ToMaster)
  BY Typed DEF Base
<1>4. PICK i \in DOMAIN toM[w] : toM[w][i] = [code |-> "ADD", ip |-> t]
  BY <1>2, <1>3, RangeType DEF Reports
<1> QED
  BY <1>4

-----------------------------------------------------------------------------
(***************************************************************************)
(* Refreshes and numbers.                                                  *)
(***************************************************************************)
WithNumber(n) == {m \in ToWorker : m.code = "REFRESH" /\ m.sid = n}
NoPool == pool_size = 0 /\ world.ips = <<>> /\ "crash" \notin world.besides

\* A port without a pool never has one; the last refresh on its way to a
\* worker has the number of the master, and a worker with none on its way
\* has nothing that is older.
Numbered ==
  NoPool =>
    /\ conf = <<>>
    /\ \A w \in Workers : status[w] = "up" =>
         /\ Free(toW[w], Configures)
         /\ Free(toW[w], {"REFRESH"}) => Fresh(serv[w], session_id)
         /\ Ends(toW[w], {"REFRESH"}, WithNumber(session_id))

\* It holds at first.
LEMMA InitNumbered == Init => Numbered
<1> SUFFICES ASSUME Init, NoPool PROVE Numbered
  BY DEF Numbered
<1>1. /\ conf = <<>> /\ session_id = 0
      /\ \A w \in Workers : /\ status[w] = "up" => serv[w] = Sess_mgr(0, world.ips, {})
                            /\ toW[w] = <<>>
  BY DEF Init, NoPool
<1>2. world.ips \in Seq(Ips)
  BY WorldsAssumption DEF Init, World
<1>3. Fresh(Sess_mgr(0, world.ips, {}), 0)
  BY <1>2, NewManager
<1> QED
  BY <1>1, <1>3, EndsEmpty DEF Numbered

\* It is kept by every step.
LEMMA StepNumbered ==
    ASSUME Base, Immortal, Pools, Numbered, Moves
    PROVE  Numbered'
<1>1. world' = world
  BY DEF Moves, RequestMoves, MasterMoves, WorkerMoves, WorkerDies, ExitMoves
<1> SUFFICES ASSUME NoPool PROVE Numbered'
  BY <1>1 DEF Numbered, NoPool, pool_size
<1>2. /\ TypeOK /\ Servers /\ session_id \in Nat /\ world \in World
      /\ \A w \in Workers : toW[w] \in Seq(ToWorker)
  BY Typed DEF Base, TypeOK
<1>3. world.pool = 0 /\ world.mode # "explicit"
  BY <1>2 DEF NoPool, pool_size
<1>4. /\ \A w \in Workers : status[w] = IF w <= NumWorkers THEN "up" ELSE "unborn"
      /\ listening = 1 .. NumWorkers
  BY DEF NoPool, Immortal
<1>5. /\ conf = <<>> /\ opt = <<>>
      /\ \A w \in Workers : status[w] = "up" =>
           /\ Free(toW[w], Configures)
           /\ Free(toW[w], {"REFRESH"}) => Fresh(serv[w], session_id)
           /\ Ends(toW[w], {"REFRESH"}, WithNumber(session_id))
  BY DEF Numbered, Pools
<1>6. ASSUME NEW v \in Workers, NEW r \in Requests, RequestMoves(v, r) PROVE Numbered'
  <2>1. UNCHANGED <<conf, status, toW, session_id>>
    BY <1>6 DEF RequestMoves, master, procs
  <2>2. PICK e \in Server : Evolves(serv[v], e, v) /\ serv' = [serv EXCEPT ![v] = e]
    BY <1>6 DEF RequestMoves
  <2>3. \A u \in Workers : serv'[u] = IF u = v THEN e ELSE serv[u]
    BY <1>2, <2>2 DEF TypeOK
  <2>4. Fresh(serv[v], session_id) => Fresh(e, session_id)
    BY <1>2, <2>2 DEF Evolves
  <2>5. \A u \in Workers : Fresh(serv[u], session_id) => Fresh(serv'[u], session_id)
    BY <2>3, <2>4
  <2>6. \A u \in Workers : status'[u] = "up" =>
          /\ Free(toW'[u], Configures)
          /\ Free(toW'[u], {"REFRESH"}) => Fresh(serv'[u], session_id')
          /\ Ends(toW'[u], {"REFRESH"}, WithNumber(session_id'))
    BY <1>5, <2>1, <2>5
  <2> QED
    BY <1>5, <2>1, <2>6 DEF Numbered, Fresh
<1>7. ASSUME MasterMoves PROVE Numbered'
  <2>1. UNCHANGED <<status, serv>>
    BY <1>7 DEF MasterMoves
  <2>2. ~PoolChanged
    <3>1. Range(conf) = {} /\ Range(opt) = {}
      BY <1>5, RangeEmpty
    <3>2. \A ip : ~MayAdd(ip)
      BY <1>3 DEF MayAdd
    <3> QED
      BY <3>1, <3>2 DEF PoolChanged, Change
  <2>3. conf' = conf
    BY <1>7, <2>2 DEF MasterMoves, PoolKept
  <2>4. /\ \A w \in Workers :
             \/ toW'[w] = toW[w]
             \/ \E msg \in ToWorker : Told(w, msg) /\ msg.code \in {"REFRESH", "BANIP"}
        /\ \/ /\ session_id' = session_id
              /\ \A w \in Workers :
                   \/ toW'[w] = toW[w]
                   \/ \E msg \in ToWorker : Told(w, msg) /\ msg.code = "BANIP"
           \/ /\ session_id' = session_id + 1
              /\ \A w \in listening \cap Live : \E msg \in ToWorker :
                    Told(w, msg) /\ msg.code = "REFRESH" /\ msg.sid = session_id'
    BY <1>2, <1>7, <2>2, Tellings DEF MasterMoves
  <2>5. ASSUME NEW w \in Workers, status[w] = "up"
        PROVE  /\ Free(toW'[w], Configures)
               /\ Free(toW'[w], {"REFRESH"}) => Fresh(serv[w], session_id')
               /\ Ends(toW'[w], {"REFRESH"}, WithNumber(session_id'))
    <3>1. /\ toW[w] \in Seq(ToWorker) /\ Free(toW[w], Configures)
          /\ Free(toW[w], {"REFRESH"}) => Fresh(serv[w], session_id)
          /\ Ends(toW[w], {"REFRESH"}, WithNumber(session_id))
      BY <1>2, <1>5, <2>5
    <3>2. Free(toW'[w], Configures)
      <4>1. ASSUME NEW msg \in ToWorker, Told(w, msg), msg.code \in {"REFRESH", "BANIP"}
            PROVE  Free(toW'[w], Configures)
        <5>1. msg.code \notin Configures
          BY <4>1 DEF Configures
        <5>2. Free(Append(toW[w], msg), Configures)
          BY <3>1, <5>1, EndsAppend
        <5> QED
          BY <4>1, <5>2 DEF Told
      <4> QED
        BY <2>4, <3>1, <4>1
    <3>3. CASE /\ session_id' = session_id
               /\ \A u \in Workers :
                    \/ toW'[u] = toW[u]
                    \/ \E msg \in ToWorker : Told(u, msg) /\ msg.code = "BANIP"
      <4>1. CASE toW'[w] = toW[w]
        BY <3>1, <3>2, <3>3, <4>1
      <4>2. ASSUME NEW msg \in ToWorker, Told(w, msg), msg.code = "BANIP"
            PROVE  /\ Free(toW'[w], {"REFRESH"}) => Free(toW[w], {"REFRESH"})
                   /\ Ends(toW'[w], {"REFRESH"}, WithNumber(session_id))
        <5>1. toW'[w] = Append(toW[w], msg) /\ msg.code \notin {"REFRESH"}
          BY <4>2 DEF Told
        <5> QED
          BY <3>1, <5>1, EndsAppend
      <4> QED
        BY <3>1, <3>2, <3>3, <4>1, <4>2
    <3>4. CASE /\ session_id' = session_id + 1
               /\ \A u \in listening \cap Live : \E msg \in ToWorker :
                    Told(u, msg) /\ msg.code = "REFRESH" /\ msg.sid = session_id'
      <4>1. w \in listening \cap Live
        BY <1>4, <2>5 DEF Live, Workers
      <4>2. PICK msg \in ToWorker :
               toW'[w] = Append(toW[w], msg) /\ msg.code = "REFRESH" /\ msg.sid = session_id'
        BY <3>4, <4>1 DEF Told
      <4>3. msg.code \in {"REFRESH"} /\ msg \in WithNumber(session_id')
        BY <4>2 DEF WithNumber
      <4> QED
        BY <3>1, <3>2, <4>2, <4>3, EndsAppend
    <3> QED
      BY <2>4, <3>3, <3>4
  <2> QED
    BY <1>5, <2>1, <2>3, <2>5 DEF Numbered, Fresh
<1>8. ASSUME NEW v \in Workers, WorkerMoves(v) PROVE Numbered'
  <2> DEFINE m == Head(toW[v])
  <2>1. /\ UNCHANGED <<conf, session_id>> /\ toW[v] # <<>> /\ m \in ToWorker
        /\ status[v] \in {"boot", "up"}
        /\ toW' = [toW EXCEPT ![v] = Tail(@)] /\ status' = [status EXCEPT ![v] = "up"]
    BY <1>8 DEF WorkerMoves
  <2>2. PICK e \in Server :
           /\ serv' = [serv EXCEPT ![v] = e]
           /\ m.code = "REFRESH" => (world.mode # "explicit" => Fresh(e, m.sid))
           /\ m.code = "BANIP" => \A n \in Nat : Fresh(serv[v], n) => Fresh(e, n)
    BY <1>8 DEF WorkerMoves
  <2>3. status[v] = "up"
    BY <1>4, <2>1
  <2>4. \A u \in Workers : /\ serv'[u] = IF u = v THEN e ELSE serv[u]
                           /\ status'[u] = IF u = v THEN "up" ELSE status[u]
                           /\ toW'[u] = IF u = v THEN Tail(toW[v]) ELSE toW[u]
    BY <1>2, <2>1, <2>2 DEF TypeOK
  <2>5. /\ toW[v] \in Seq(ToWorker) /\ Free(toW[v], Configures)
        /\ Free(toW[v], {"REFRESH"}) => Fresh(serv[v], session_id)
        /\ Ends(toW[v], {"REFRESH"}, WithNumber(session_id))
    BY <1>2, <1>5, <2>3
  <2>6. /\ Free(Tail(toW[v]), Configures) /\ m.code \notin Configures
        /\ Ends(Tail(toW[v]), {"REFRESH"}, WithNumber(session_id))
    BY <2>1, <2>5, EndsTail
  <2>7. m.code \in {"REFRESH", "BANIP"}
    BY <2>1, <2>6 DEF ToWorker, Configures
  <2>8. ASSUME Free(Tail(toW[v]), {"REFRESH"}) PROVE Fresh(e, session_id)
    <3>1. CASE m.code = "REFRESH"
      <4>1. m \in WithNumber(session_id)
        <5>1. m.code \in {"REFRESH"}
          BY <3>1
        <5> QED
          BY <2>1, <2>5, <2>8, <5>1, EndsTail
      <4> QED
        BY <1>3, <2>2, <3>1, <4>1 DEF WithNumber
    <3>2. CASE m.code = "BANIP"
      <4>1. m.code \notin {"REFRESH"}
        BY <3>2
      <4>2. Free(toW[v], {"REFRESH"})
        BY <2>1, <2>5, <2>8, <4>1, EndsTail
      <4> QED
        BY <1>2, <2>2, <2>5, <3>2, <4>2
    <3> QED
      BY <2>7, <3>1, <3>2
  <2> HIDE DEF m
  <2>9. \A u \in Workers : status'[u] = "up" =>
          /\ Free(toW'[u], Configures)
          /\ Free(toW'[u], {"REFRESH"}) => Fresh(serv'[u], session_id')
          /\ Ends(toW'[u], {"REFRESH"}, WithNumber(session_id'))
    BY <1>5, <2>1, <2>4, <2>6, <2>8
  <2> QED
    BY <1>5, <2>1, <2>9 DEF Numbered, Fresh
<1>9. ASSUME NEW v \in Workers, WorkerDies(v) PROVE Numbered'
  BY <1>9 DEF WorkerDies, NoPool
<1>10. ASSUME NEW v \in Workers, NEW new \in Workers, ExitMoves(v, new) PROVE Numbered'
  <2>1. status[v] = "dying"
    BY <1>10 DEF ExitMoves
  <2> QED
    BY <1>4, <2>1
<1> QED
  BY <1>6, <1>7, <1>8, <1>9, <1>10 DEF Moves

-----------------------------------------------------------------------------
(***************************************************************************)
(* Refreshes and what was in use.                                          *)
(***************************************************************************)
\* What is on its way to a worker of a steady port: refreshes, to a number
\* that the master has reached.
Known(s, n) ==
  \A i \in DOMAIN s : /\ s[i].code # "BANIP"
                      /\ s[i].code = "REFRESH" => s[i].sid \in 1 .. n

\* The number that the master reaches with what worker w has reported.
Reached(w) == session_id + Owed(toM[w])

\* A worker of a steady port is never further than the master will be when
\* it has read the worker's reports, and what was in use at a call of the
\* API is behind that in one of the workers.
Ahead ==
  Steady =>
    /\ banned = {} /\ \A r \in Requests : ~req[r].own
    /\ \A w \in Workers : status[w] = "up" =>
         /\ Within(serv[w], Reached(w))
         /\ Free(toM[w], {"BANIP"}) /\ Known(toW[w], session_id)
    /\ \A x \in stale : /\ x.slot = Main
                        /\ \E w \in Workers : status[w] = "up" /\ x.ord < Reached(w)

\* The refreshes behind the first message.
LEMMA OwedTail ==
    ASSUME NEW S, NEW s \in Seq(S), s # <<>>
    PROVE  /\ Owed(s) \in Nat /\ Owed(Tail(s)) \in Nat
           /\ Owed(s) = (IF Head(s).code = "REFRESH" THEN 1 ELSE 0) + Owed(Tail(s))
<1> DEFINE h == <<Head(s)>>
<1>1. h \in Seq(S) /\ Tail(s) \in Seq(S) /\ s = h \o Tail(s)
  OBVIOUS
<1>2. Owed(h) = IF Head(s).code = "REFRESH" THEN 1 ELSE 0
  BY OwedFew
<1> HIDE DEF h
<1>3. Owed(h \o Tail(s)) = Owed(h) + Owed(Tail(s)) /\ Owed(Tail(s)) \in Nat /\ Owed(h) \in Nat
  BY <1>1, OwedConcat
<1> DEFINE t == Tail(s)
           c == Head(s).code
<1>4. /\ Owed(s) = Owed(h) + Owed(t) /\ Owed(t) \in Nat
      /\ Owed(h) = IF c = "REFRESH" THEN 1 ELSE 0
  BY <1>1, <1>2, <1>3
<1> HIDE DEF t, c
<1>5. Owed(s) \in Nat /\ Owed(s) = (IF c = "REFRESH" THEN 1 ELSE 0) + Owed(t) /\ Owed(t) \in Nat
  BY <1>4
<1> QED
  BY <1>5 DEF t, c

\* One channel is read, or written, or the master counts on.
LEMMA KnownShape ==
    ASSUME NEW S, NEW s \in Seq(S), NEW n \in Nat, Known(s, n)
    PROVE  /\ Known(s, n + 1)
           /\ \A e \in S : e.code = "REFRESH" /\ e.sid = n + 1 => Known(Append(s, e), n + 1)
           /\ s # <<>> => /\ Known(Tail(s), n) /\ Head(s).code # "BANIP"
                          /\ Head(s).code = "REFRESH" => Head(s).sid \in 1 .. n
<1>1. 1 .. n \subseteq 1 .. n + 1 /\ n + 1 \in 1 .. n + 1
  OBVIOUS
<1>2. Known(s, n + 1)
  BY <1>1 DEF Known
<1>3. ASSUME NEW e \in S, e.code = "REFRESH", e.sid = n + 1 PROVE Known(Append(s, e), n + 1)
  <2> DEFINE t == Append(s, e)
  <2>1. /\ DOMAIN s = 1 .. Len(s) /\ DOMAIN t = 1 .. Len(s) + 1 /\ Len(s) \in Nat
        /\ t[Len(s) + 1] = e /\ \A i \in 1 .. Len(s) : t[i] = s[i]
    BY AppendShape
  <2> HIDE DEF t
  <2>2. \A i \in DOMAIN t : i = Len(s) + 1 \/ i \in DOMAIN s
    BY <2>1
  <2>3. Known(t, n + 1)
    <3> SUFFICES ASSUME NEW i \in DOMAIN t
                 PROVE  /\ t[i].code # "BANIP"
                        /\ t[i].code = "REFRESH" => t[i].sid \in 1 .. n + 1
      BY DEF Known
    <3>1. CASE i = Len(s) + 1
      <4>1. t[i] = e /\ n + 1 \in 1 .. n + 1
        BY <1>1, <2>1, <3>1
      <4> QED
        BY <1>3, <4>1
    <3>2. CASE i \in DOMAIN s
      <4>1. t[i] = s[i]
        BY <2>1, <3>2
      <4> QED
        BY <1>2, <3>2, <4>1 DEF Known
    <3> QED
      BY <2>2, <3>1, <3>2
  <2> QED
    BY <2>3 DEF t
<1>4. ASSUME s # <<>>
      PROVE  /\ Known(Tail(s), n) /\ Head(s).code # "BANIP"
             /\ Head(s).code = "REFRESH" => Head(s).sid \in 1 .. n
  <2>1. /\ Len(s) \in Nat \ {0} /\ DOMAIN s = 1 .. Len(s) /\ Head(s) = s[1]
        /\ DOMAIN Tail(s) = 1 .. Len(s) - 1
        /\ \A i \in 1 .. Len(s) - 1 : Tail(s)[i] = s[i + 1]
    BY <1>4, TailShape
  <2>2. 1 \in DOMAIN s /\ \A i \in DOMAIN Tail(s) : i + 1 \in DOMAIN s /\ Tail(s)[i] = s[i + 1]
    BY <2>1
  <2> QED
    BY <2>1, <2>2 DEF Known
<1> QED
  BY <1>2, <1>3, <1>4

\* A steady port has no pool and no worker of it dies.
LEMMA SteadyPort ==
    ASSUME Base, Immortal, Pools, Numbered, Steady
    PROVE  /\ NoPool /\ conf = <<>> /\ opt = <<>> /\ world.pool = 0 /\ world.mode = "long"
           /\ session_id \in Nat /\ TypeOK
           /\ \A w \in Workers :
                /\ status[w] \in {"up", "unborn"}
                /\ status[w] = "up" => serv[w] \in Server /\ Free(toW[w], Configures)
                /\ toW[w] \in Seq(ToWorker) /\ toM[w] \in Seq(ToMaster) /\ Owed(toM[w]) \in Nat
<1>1. /\ NoPool /\ world.mode = "long" /\ world.pool = 0
      /\ TypeOK /\ Servers /\ session_id \in Nat
  BY DEF NoPool, Steady, pool_size, Base, TypeOK
<1>2. \A w \in Workers : toW[w] \in Seq(ToWorker) /\ toM[w] \in Seq(ToMaster)
  BY <1>1, Typed
<1>3. \A w \in Workers : Owed(toM[w]) \in Nat
  BY <1>2, OwedConcat
<1> QED
  BY <1>1, <1>2, <1>3 DEF Immortal, Numbered, Pools, NoPool, Servers

\* It holds at first.
LEMMA InitAhead == Init => Ahead
<1> SUFFICES ASSUME Init, Steady PROVE Ahead
  BY DEF Ahead
<1>1. /\ session_id = 0 /\ banned = {} /\ stale = {}
      /\ \A w \in Workers : /\ status[w] = "up" => serv[w] = Sess_mgr(0, world.ips, {})
                            /\ toW[w] = <<>> /\ toM[w] = <<>>
      /\ \A r \in Requests : ~req[r].own
  BY DEF Init
<1>2. Within(Sess_mgr(0, world.ips, {}), 0)
  BY MainIsSlot DEF Sess_mgr, NoSessions, Within
<1>3. Owed(<<>>) = 0 /\ Free(<<>>, {"BANIP"}) /\ Known(<<>>, 0)
  BY OwedFew DEF Free, Known
<1> QED
  BY <1>1, <1>2, <1>3 DEF Ahead, Reached

\* It is kept when the sessions stay and the master counts on, or takes a
\* report.
LEMMA AheadKept ==
    ASSUME Base, Immortal, Pools, Numbered, Ahead,
           UNCHANGED <<world, status, serv, req, banned>>,
           UNCHANGED <<toW, session_id>> \/ ProxyRefresh,
           \A w \in Workers : status[w] = "up" =>
              /\ Free(toM'[w], {"BANIP"})
              /\ Reached(w)' \in Nat /\ Reached(w) <= Reached(w)',
           \A x \in stale' : \/ x \in stale
                             \/ /\ x.slot = Main
                                /\ \E w \in Workers : status[w] = "up" /\ x.ord < Reached(w)',
           stale' \subseteq [slot : Slots, ord : Nat]
    PROVE  Ahead'
<1> SUFFICES ASSUME Steady PROVE Ahead'
  BY DEF Ahead, Steady, pool_size
<1>1. /\ session_id \in Nat /\ TypeOK
      /\ \A w \in Workers : /\ toW[w] \in Seq(ToWorker) /\ Owed(toM[w]) \in Nat
                            /\ status[w] = "up" => serv[w] \in Server
  BY SteadyPort
<1>2. /\ banned = {} /\ \A r \in Requests : ~req[r].own
      /\ \A w \in Workers : status[w] = "up" => Within(serv[w], Reached(w)) /\ Known(toW[w], session_id)
      /\ \A x \in stale : /\ x.slot = Main
                          /\ \E w \in Workers : status[w] = "up" /\ x.ord < Reached(w)
  BY DEF Ahead
<1>3. ASSUME NEW w \in Workers, status[w] = "up" PROVE Known(toW'[w], session_id')
  <2>1. CASE UNCHANGED <<toW, session_id>>
    BY <1>2, <1>3, <2>1
  <2>2. CASE ProxyRefresh
    <3> DEFINE msg == [code |-> "REFRESH", sid |-> session_id']
               to == listening \cap Live
    <3>1. session_id' = session_id + 1 /\ Broadcast(to, msg)
      BY <2>2 DEF ProxyRefresh
    <3>2. msg \in ToWorker /\ msg.code = "REFRESH" /\ msg.sid = session_id'
      BY <1>1, <3>1, MessageTypes
    <3> HIDE DEF msg, to
    <3>3. toW'[w] = toW[w] \/ toW'[w] = Append(toW[w], msg)
      BY <1>1, <1>3, <3>1, <3>2, BroadcastShape
    <3> QED
      BY <1>1, <1>2, <1>3, <3>1, <3>2, <3>3, KnownShape
  <2> QED
    BY <2>1, <2>2
<1>4. ASSUME NEW w \in Workers, status[w] = "up" PROVE Within(serv[w], Reached(w)')
  <2>1. /\ Within(serv[w], Reached(w)) /\ Reached(w) <= Reached(w)'
        /\ Reached(w) \in Nat /\ Reached(w)' \in Nat /\ serv[w] \in Server
    BY <1>1, <1>2, <1>4 DEF Reached
  <2> DEFINE n == Reached(w)
             m == Reached(w)'
  <2> HIDE DEF n, m
  <2>2. Within(serv[w], n) /\ n \in Nat /\ m \in Nat /\ n <= m
    BY <2>1 DEF n, m
  <2>3. Within(serv[w], m)
    BY <2>1, <2>2, ServerShape, MainIsSlot DEF Within
  <2> QED
    BY <2>3 DEF m
<1>5. ASSUME NEW x \in stale'
      PROVE  x.slot = Main /\ \E w \in Workers : status[w] = "up" /\ x.ord < Reached(w)'
  <2>1. x.ord \in Nat
    BY <1>5
  <2>2. CASE x \in stale
    <3>1. PICK w \in Workers : status[w] = "up" /\ x.ord < Reached(w)
      BY <1>2, <2>2
    <3>2. x.ord < Reached(w)'
      <4>1. Reached(w) \in Nat /\ Reached(w)' \in Nat /\ Reached(w) <= Reached(w)'
        BY <1>1, <3>1 DEF Reached
      <4> QED
        BY <2>1, <3>1, <4>1
    <3> QED
      BY <1>2, <2>2, <3>1, <3>2
  <2> QED
    BY <1>5, <2>2
<1>6. \A w \in Workers : status'[w] = "up" =>
         /\ Within(serv'[w], Reached(w)')
         /\ Free(toM'[w], {"BANIP"}) /\ Known(toW'[w], session_id')
  BY <1>3, <1>4
<1>7. \A x \in stale' : x.slot = Main /\ \E w \in Workers : status'[w] = "up" /\ x.ord < Reached(w)'
  BY <1>5
<1>8. banned' = {} /\ \A r \in Requests : ~req'[r].own
  BY <1>2
<1> QED
  BY <1>6, <1>7, <1>8 DEF Ahead

\* The master reads a message of a steady port, where no pool changes.
LEMMA ReadAhead ==
    ASSUME Base, Immortal, Pools, Numbered, Ahead, Steady, NEW w \in Workers, MasterReceives(w)
    PROVE  Ahead'
<1> DEFINE m == Head(toM[w])
<1>1. /\ Read(w) /\ UNCHANGED <<world, calls, status, serv, req>>
      /\ status[w] \in {"boot", "up", "dying"} /\ toM[w] # <<>>
  BY DEF MasterReceives, Read
<1>2. /\ session_id \in Nat /\ conf = <<>> /\ world.pool = 0 /\ status[w] = "up" /\ TypeOK
      /\ \A v \in Workers : toM[v] \in Seq(ToMaster) /\ Owed(toM[v]) \in Nat
  BY <1>1, SteadyPort
<1>3. /\ Free(Tail(toM[w]), {"BANIP"}) /\ m.code \notin {"BANIP"}
      /\ Owed(toM[w]) = (IF m.code = "REFRESH" THEN 1 ELSE 0) + Owed(Tail(toM[w]))
      /\ Owed(Tail(toM[w])) \in Nat
  <2>1. Free(toM[w], {"BANIP"})
    BY <1>2 DEF Ahead
  <2> QED
    BY <1>1, <1>2, <2>1, EndsTail, OwedTail
<1>4. \A v \in Workers : toM'[v] = IF v = w THEN Tail(toM[w]) ELSE toM[v]
  BY <1>1, <1>2, Reading
<1>5. /\ banned' = banned
      /\ \/ m.code = "REFRESH" /\ ProxyRefresh
         \/ m.code # "REFRESH" /\ UNCHANGED <<toW, session_id>>
  <2>1. \A ip : ~MayAdd(ip) /\ ip \notin Range(conf)
    BY <1>2, RangeEmpty DEF MayAdd
  <2>2. \/ m.code = "ADD" /\ AddStaticIp(m.ip) /\ UNCHANGED <<session_id, banned>>
        \/ m.code = "REMOVE" /\ RemoveStaticIp(m.ip) /\ UNCHANGED <<session_id, banned>>
        \/ m.code = "BANIP"
        \/ m.code = "REFRESH" /\ ProxyRefresh /\ UNCHANGED banned
        \/ m.code \in {"RENEW", "LISTENING"} /\ UNCHANGED <<session_id, banned, toW>>
    BY DEF MasterReceives, master
  <2> HIDE DEF m
  <2> QED
    BY <1>3, <2>1, <2>2 DEF AddStaticIp, RemoveStaticIp
<1>6. session_id' = IF m.code = "REFRESH" THEN session_id + 1 ELSE session_id
  BY <1>5 DEF ProxyRefresh
<1> HIDE DEF m
<1>7. ASSUME NEW v \in Workers, status[v] = "up"
      PROVE  /\ Free(toM'[v], {"BANIP"})
             /\ Reached(v)' \in Nat /\ Reached(v) <= Reached(v)'
  <2>1. Reached(v)' = session_id' + Owed(toM'[v]) /\ Reached(v) = session_id + Owed(toM[v])
    BY DEF Reached, Owed
  <2>2. CASE v = w
    <3>1. toM'[v] = Tail(toM[w])
      BY <1>4, <2>2
    <3>2. Owed(toM'[v]) = Owed(Tail(toM[w]))
      BY <3>1
    <3> QED
      BY <1>2, <1>3, <1>6, <2>1, <2>2, <3>1, <3>2
  <2>3. CASE v # w
    <3>1. toM'[v] = toM[v] /\ Free(toM[v], {"BANIP"})
      BY <1>4, <1>7, <2>3 DEF Ahead
    <3>2. Owed(toM'[v]) = Owed(toM[v])
      BY <3>1
    <3> QED
      BY <1>2, <1>6, <2>1, <3>1, <3>2
  <2> QED
    BY <2>2, <2>3
<1>8. stale' = stale /\ stale' \subseteq [slot : Slots, ord : Nat]
  BY <1>1, <1>2 DEF calls, TypeOK
<1> QED
  BY <1>1, <1>5, <1>7, <1>8, AheadKept

\* A renewal ends with a refresh, as a call of the API does.
LEMMA CountedAhead ==
    ASSUME Base, Immortal, Pools, Numbered, Ahead, Steady, Renew \/ RefreshApi
    PROVE  Ahead'
<1>1. UNCHANGED <<world, status, serv, req, banned, toM>>
  BY DEF Renew, RefreshApi, RenewApplied, RenewDone, procs
<1>2. /\ session_id \in Nat /\ opt = <<>> /\ world.mode = "long" /\ TypeOK /\ Servers
      /\ \A w \in Workers : Owed(toM[w]) \in Nat
  BY SteadyPort DEF Base
<1>3. ProxyRefresh \/ UNCHANGED <<toW, session_id>>
  <2>1. CASE Renew
    <3>1. PICK p \in renewing : RenewApplied(p) \/ RenewDone(p)
      BY <2>1 DEF Renew
    <3>2. p.old \notin Range(opt)
      BY <1>2, RangeEmpty
    <3> QED
      BY <3>1, <3>2 DEF RenewApplied, RenewDone
  <2> QED
    BY <2>1 DEF RefreshApi
<1>4. session_id' \in Nat /\ session_id <= session_id' /\ (ProxyRefresh => session_id' = session_id + 1)
  BY <1>2, <1>3 DEF ProxyRefresh
<1>5. ASSUME NEW w \in Workers
      PROVE  /\ Reached(w) \in Nat /\ Reached(w)' \in Nat /\ Reached(w) <= Reached(w)'
             /\ ProxyRefresh => Reached(w) < Reached(w)'
             /\ status[w] = "up" => Free(toM'[w], {"BANIP"})
  <2>1. Reached(w)' = session_id' + Owed(toM'[w]) /\ Reached(w) = session_id + Owed(toM[w])
    BY DEF Reached, Owed
  <2>2. toM'[w] = toM[w] /\ Owed(toM'[w]) = Owed(toM[w]) /\ Owed(toM[w]) \in Nat
    BY <1>1, <1>2
  <2>3. status[w] = "up" => Free(toM[w], {"BANIP"})
    BY DEF Ahead
  <2> QED
    BY <1>2, <1>4, <2>1, <2>2, <2>3
<1>6. \A x \in stale' : \/ x \in stale
                        \/ /\ x.slot = Main
                           /\ \E w \in Workers : status[w] = "up" /\ x.ord < Reached(w)'
  <2>1. CASE Renew
    BY <2>1 DEF Renew, calls
  <2>2. CASE RefreshApi
    <3> SUFFICES ASSUME NEW w \in Workers, NEW x \in InUse(w)
                 PROVE  x.slot = Main /\ status[w] = "up" /\ x.ord < Reached(w)'
      BY <2>2 DEF RefreshApi
    <3>1. serv[w] # None /\ status[w] = "up" /\ serv[w] \in Server /\ Apart(serv[w], w)
      BY <1>2 DEF InUse, Servers
    <3>2. PICK s \in Slots : serv[w].sess[s] # None /\ x = [slot |-> s, ord |-> serv[w].sess[s].ord]
      BY <3>1 DEF InUse
    <3>3. s = Main
      BY <1>2, <3>1, <3>2 DEF Apart, MainOnly
    <3>4. Within(serv[w], Reached(w))
      BY <3>1 DEF Ahead
    <3>5. x.ord <= Reached(w) /\ x.ord \in Nat
      BY <3>1, <3>2, <3>3, <3>4, ServerShape DEF Within
    <3>6. ProxyRefresh
      BY <2>2 DEF RefreshApi
    <3>7. x.ord < Reached(w)'
      BY <1>5, <3>5, <3>6
    <3> QED
      BY <3>1, <3>2, <3>3, <3>7
  <2> QED
    BY <2>1, <2>2
<1>7. stale' \subseteq [slot : Slots, ord : Nat]
  BY <1>2, OtherMasterMoves DEF MasterMoves
<1> QED
  BY <1>1, <1>3, <1>5, <1>6, <1>7, AheadKept

\* A request takes its session, or the next one, and reports the others.
LEMMA RequestAhead ==
    ASSUME Base, Immortal, Pools, Numbered, Ahead, Steady,
           NEW w \in Workers, NEW r \in Requests, RequestMoves(w, r)
    PROVE  Ahead'
<1>1. /\ status[w] = "up" /\ UNCHANGED <<world, stale, session_id, banned, status, toW>>
  BY DEF RequestMoves, calls, master, procs
<1>2. /\ session_id \in Nat /\ TypeOK
      /\ \A v \in Workers : /\ toM[v] \in Seq(ToMaster) /\ Owed(toM[v]) \in Nat
                            /\ status[v] = "up" => serv[v] \in Server
  BY SteadyPort
<1>3. /\ banned = {} /\ \A p \in Requests : ~req[p].own
      /\ \A v \in Workers : status[v] = "up" =>
           /\ Within(serv[v], Reached(v)) /\ Free(toM[v], {"BANIP"}) /\ Known(toW[v], session_id)
      /\ \A x \in stale : /\ x.slot = Main
                          /\ \E v \in Workers : status[v] = "up" /\ x.ord < Reached(v)
  BY DEF Ahead
<1>4. PICK e \in Server, q \in Request, msgs \in Seq(ToMaster) :
         /\ serv' = [serv EXCEPT ![w] = e] /\ req' = [req EXCEPT ![r] = q]
         /\ toM' = [toM EXCEPT ![w] = @ \o msgs]
         /\ Free(msgs, {"BANIP"}) /\ ~q.own /\ Raises(serv[w], e, Owed(msgs))
  BY <1>3 DEF RequestMoves, Regular
<1>5. /\ Owed(toM[w] \o msgs) = Owed(toM[w]) + Owed(msgs) /\ Owed(msgs) \in Nat
      /\ Free(toM[w] \o msgs, {"BANIP"})
  <2>1. Owed(toM[w] \o msgs) = Owed(toM[w]) + Owed(msgs) /\ Owed(msgs) \in Nat
    BY <1>2, <1>4, OwedConcat
  <2>2. Free(toM[w] \o msgs, {"BANIP"})
    BY <1>1, <1>2, <1>3, <1>4, ConcatShape
  <2> QED
    BY <2>1, <2>2
<1>6. /\ \A v \in Workers : /\ serv'[v] = IF v = w THEN e ELSE serv[v]
                            /\ toM'[v] = IF v = w THEN toM[w] \o msgs ELSE toM[v]
      /\ \A p \in Requests : req'[p] = IF p = r THEN q ELSE req[p]
  BY <1>2, <1>4 DEF TypeOK
<1>7. ASSUME NEW v \in Workers
      PROVE  /\ Reached(v) \in Nat
             /\ Reached(v)' = Reached(v) + (IF v = w THEN Owed(msgs) ELSE 0)
  <2>1. Reached(v)' = session_id' + Owed(toM'[v]) /\ Reached(v) = session_id + Owed(toM[v])
    BY DEF Reached, Owed
  <2>2. Owed(toM'[v]) = Owed(toM[v]) + (IF v = w THEN Owed(msgs) ELSE 0)
    <3>1. CASE v = w
      BY <1>5, <1>6, <3>1
    <3>2. CASE v # w
      <4>1. toM'[v] = toM[v]
        BY <1>6, <3>2
      <4>2. Owed(toM'[v]) = Owed(toM[v])
        BY <4>1
      <4> QED
        BY <1>2, <3>2, <4>2
    <3> QED
      BY <3>1, <3>2
  <2> QED
    BY <1>1, <1>2, <1>5, <2>1, <2>2
<1>8. ASSUME NEW v \in Workers, status[v] = "up"
      PROVE  Within(serv'[v], Reached(v)') /\ Free(toM'[v], {"BANIP"})
  <2>1. CASE v = w
    <3>1. Within(e, Reached(w) + Owed(msgs))
      BY <1>1, <1>3, <1>4, <1>7 DEF Raises
    <3> QED
      BY <1>5, <1>6, <1>7, <2>1, <3>1
  <2>2. CASE v # w
    <3>1. Reached(v)' = Reached(v)
      BY <1>7, <2>2
    <3> QED
      BY <1>3, <1>6, <1>8, <2>2, <3>1
  <2> QED
    BY <2>1, <2>2
<1>9. ASSUME NEW x \in stale
      PROVE  \E v \in Workers : status[v] = "up" /\ x.ord < Reached(v)'
  <2>1. PICK v \in Workers : status[v] = "up" /\ x.ord < Reached(v)
    BY <1>3
  <2>2. x.ord \in Nat
    BY <1>2 DEF TypeOK
  <2>3. x.ord < Reached(v)'
    BY <1>5, <1>7, <2>1, <2>2
  <2> QED
    BY <2>1, <2>3
<1>10. \A p \in Requests : ~req'[p].own
  BY <1>3, <1>4, <1>6
<1> QED
  BY <1>1, <1>3, <1>8, <1>9, <1>10 DEF Ahead

\* A worker of a steady port reads: it is a refresh.
LEMMA ReceivesAhead ==
    ASSUME Base, Immortal, Pools, Numbered, Ahead, Steady,
           NEW w \in Workers, WorkerReceives(w)
    PROVE  Ahead'
<1> DEFINE m == Head(toW[w])
           e == refresh_sessions(serv[w], w, m.sid)
<1>1. /\ UNCHANGED <<world, calls, session_id, banned, req>>
      /\ status[w] \in {"boot", "up"} /\ toW[w] # <<>>
      /\ toW' = [toW EXCEPT ![w] = Tail(@)]
  BY DEF WorkerReceives, master
<1>2. /\ session_id \in Nat /\ TypeOK /\ status[w] = "up"
      /\ serv[w] \in Server /\ Free(toW[w], Configures)
      /\ \A v \in Workers : toW[v] \in Seq(ToWorker) /\ Owed(toM[v]) \in Nat
  BY <1>1, SteadyPort
<1>3. /\ Within(serv[w], Reached(w)) /\ Known(toW[w], session_id)
  BY <1>2 DEF Ahead
<1>4. /\ Known(Tail(toW[w]), session_id) /\ m.code # "BANIP"
      /\ m.code = "REFRESH" => m.sid \in 1 .. session_id
  BY <1>1, <1>2, <1>3, KnownShape
<1>5. m.code \notin Configures
  BY <1>1, <1>2, EndsTail
<1>6. /\ m.code = "REFRESH" /\ serv' = [serv EXCEPT ![w] = e] /\ UNCHANGED <<status, toM>>
  BY <1>4, <1>5 DEF WorkerReceives, Configures
<1> HIDE DEF m
<1>7. Within(e, session_id)
  BY <1>2, <1>3, <1>4, <1>6, RefreshedWithin DEF Within
<1>8. e \in Server
  <2>1. Apart(serv[w], w) /\ m.sid \in Nat
    BY <1>2, <1>4, <1>6 DEF Base, Servers
  <2> QED
    BY <1>2, <2>1, RefreshedTo
<1> HIDE DEF e
<1>9. Reached(w) \in Nat /\ session_id <= Reached(w)
  BY <1>2 DEF Reached
<1>10. Within(e, Reached(w))
  BY <1>2, <1>7, <1>8, <1>9, ServerShape, MainIsSlot DEF Within
<1>11. \A v \in Workers : /\ serv'[v] = IF v = w THEN e ELSE serv[v]
                          /\ toW'[v] = IF v = w THEN Tail(toW[w]) ELSE toW[v]
  BY <1>1, <1>2, <1>6 DEF TypeOK
<1>12. \A v \in Workers : Reached(v)' = Reached(v)
  BY <1>1, <1>6 DEF Reached, Owed
<1>13. \A v \in Workers : status[v] = "up" =>
          /\ Within(serv'[v], Reached(v)) /\ Free(toM[v], {"BANIP"}) /\ Known(toW'[v], session_id)
  BY <1>4, <1>10, <1>11 DEF Ahead
<1>14. stale' = stale
  BY <1>1 DEF calls
<1> QED
  BY <1>1, <1>6, <1>12, <1>13, <1>14 DEF Ahead

\* It is kept by every step.
LEMMA StepAhead ==
    ASSUME Base, Immortal, Pools, Numbered, Ahead, Next
    PROVE  Ahead'
<1>1. world' = world
  <2>1. Moves
    BY StepBase
  <2> QED
    BY <2>1 DEF Moves, RequestMoves, MasterMoves, WorkerMoves, WorkerDies, ExitMoves
<1> SUFFICES ASSUME Steady PROVE Ahead'
  BY <1>1 DEF Ahead, Steady, pool_size
<1>2. ASSUME NEW r \in Requests, Answer(r) \/ Elsewhere(r) PROVE Ahead'
  <2>1. RequestMoves(req[r].at, r)
    BY <1>2, AnswerMoves, ElsewhereMoves
  <2>2. req[r].at \in Workers
    BY <2>1 DEF RequestMoves
  <2> QED
    BY <2>1, <2>2, RequestAhead
<1>3. ASSUME NEW w \in Workers, NEW r \in Requests, Arrive(r, w) PROVE Ahead'
  BY <1>3, ArriveMoves, RequestAhead
<1>4. ASSUME NEW w \in Workers, MasterReceives(w) PROVE Ahead'
  BY <1>4, ReadAhead
<1>5. ASSUME NEW w \in Workers, WorkerReceives(w) PROVE Ahead'
  BY <1>5, ReceivesAhead
<1>6. ASSUME Renew \/ RefreshApi PROVE Ahead'
  BY <1>6, CountedAhead
<1>7. ASSUME NEW w \in Workers, ExitSeen(w) \/ WorkerDies(w) PROVE FALSE
  <2>1. status[w] \in {"up", "unborn"} /\ "crash" \notin world.besides
    BY SteadyPort DEF Steady
  <2> QED
    BY <1>7, <2>1 DEF ExitSeen, WorkerDies
<1> QED
  BY <1>2, <1>3, <1>4, <1>5, <1>6, <1>7 DEF Next, Progress

\* What both say when nothing is under way.
LEMMA NumbersRefreshed == ASSUME Base, Immortal, Pools, Numbered, Ahead PROVE Refreshed
<1> SUFFICES ASSUME Quiet PROVE Refreshed
  BY DEF Refreshed
<1>1. ASSUME NoPool, NEW w \in Workers, status[w] = "up" PROVE Fresh(serv[w], session_id)
  <2>1. Free(toW[w], {"REFRESH"})
    BY EndsEmpty DEF Quiet
  <2> QED
    BY <1>1, <2>1 DEF Numbered
<1>2. ASSUME Steady, NEW x \in stale, NEW w \in Workers, status[w] = "up"
      PROVE  /\ serv[w].sid > x.ord
             /\ serv[w].sess[x.slot] # None => serv[w].sess[x.slot].ord > x.ord
  <2>1. /\ session_id \in Nat /\ NoPool /\ serv[w] \in Server
        /\ x.slot \in Slots /\ x.ord \in Nat
    BY <1>2, SteadyPort DEF TypeOK
  <2>2. x.ord < session_id
    <3>1. PICK v \in Workers : x.ord < Reached(v)
      BY <1>2 DEF Ahead
    <3>2. Reached(v) = session_id + Owed(<<>>)
      BY DEF Quiet, Reached
    <3> QED
      BY <2>1, <3>1, <3>2, OwedFew
  <2>3. Fresh(serv[w], session_id)
    BY <1>1, <1>2, <2>1
  <2> QED
    BY <2>1, <2>2, <2>3, ServerShape DEF Fresh
<1> QED
  BY <1>1, <1>2 DEF Refreshed, Fresh, NoPool

\* Sessions of two workers, and the users of one.
LEMMA ServersApart == ASSUME Base, Immortal PROVE RotatedApart
<1> DEFINE live == {w \in Workers : serv[w] # None /\ serv[w].sess[Main] # None}
<1> SUFFICES ASSUME world.mode = "rotate"
             PROVE  /\ \A w \in live : Cardinality(serv[w].sess[Main].users) <= 1
                    /\ "crash" \notin world.besides =>
                         \A v, w \in live :
                           v # w => serv[v].sess[Main].ord # serv[w].sess[Main].ord
  BY DEF RotatedApart
<1>1. ASSUME NEW w \in live
      PROVE  status[w] = "up" /\ Drawn(serv[w].sess[Main], w) /\ Alone(serv[w].sess[Main])
  <2>1. status[w] = "up" /\ Apart(serv[w], w)
    BY <1>1 DEF Base, Servers
  <2> QED
    BY <1>1, <2>1 DEF Apart
<1>2. ASSUME NEW w \in live PROVE Cardinality(serv[w].sess[Main].users) <= 1
  <2>1. Alone(serv[w].sess[Main])
    BY <1>1, <1>2
  <2>2. CASE serv[w].sess[Main].users = {}
    BY <2>2, FS_EmptySet
  <2>3. CASE \E r \in Requests : serv[w].sess[Main].users = {r}
    <3>1. PICK r \in Requests : serv[w].sess[Main].users = {r}
      BY <2>3
    <3>2. Cardinality({r}) = 1
      BY FS_Singleton
    <3> QED
      BY <3>1, <3>2
  <2> QED
    BY <2>1, <2>2, <2>3 DEF Alone
<1>3. ASSUME "crash" \notin world.besides, NEW v \in live, NEW w \in live, v # w
      PROVE  serv[v].sess[Main].ord # serv[w].sess[Main].ord
  <2>1. v \in 1 .. NumWorkers /\ w \in 1 .. NumWorkers
    <3>1. status[v] = "up" /\ status[w] = "up" /\ v \in Workers /\ w \in Workers
      BY <1>1, <1>3
    <3>2. v <= NumWorkers /\ w <= NumWorkers
      BY <1>3, <3>1 DEF Immortal
    <3> QED
      BY <3>1, <3>2, NumbersAssumption DEF Workers
  <2>2. /\ Drawn(serv[v].sess[Main], v) /\ Drawn(serv[w].sess[Main], w)
    BY <1>1, <1>3
  <2>3. PICK a \in Nat : serv[v].sess[Main].ord = a * NumWorkers + v - 1
    BY <2>2 DEF Drawn
  <2>4. PICK b \in Nat : serv[w].sess[Main].ord = b * NumWorkers + w - 1
    BY <2>2 DEF Drawn
  <2> QED
    BY <1>3, <2>1, <2>3, <2>4, NumbersApart
<1> QED
  BY <1>2, <1>3

-----------------------------------------------------------------------------
(***************************************************************************)
(* The theorems.                                                           *)
(***************************************************************************)
IInv == Base /\ Immortal /\ Pools /\ Sound /\ Reserved /\ Numbered /\ Ahead

\* A step that changes nothing.
LEMMA Stutter == ASSUME IInv, UNCHANGED vars PROVE IInv'
<1>1. UNCHANGED <<world, api, stale, session_id, conf, opt, banned, renewing, zone, status,
                  listening, toW, toM, serv, req>>
  BY DEF vars, calls, master, cloud, procs
<1>2. Base /\ Immortal /\ Pools /\ Sound /\ Reserved /\ Numbered /\ Ahead
  BY DEF IInv
<1>3. TypeOK'
  BY <1>1, <1>2 DEF Base, TypeOK
<1>4. Servers' /\ Placed'
  BY <1>1, <1>2, ServersKept, PlacedKept DEF Base, Servers, Placed
<1>5. Created' /\ ForkedInOrder' /\ Immortal' /\ Pools'
  BY <1>1, <1>2 DEF Base, Created, ForkedInOrder, Immortal, Pools
<1>6. Sound' /\ Reserved'
  BY <1>1, <1>2 DEF Sound, PoolSound, Reserved, Reports
<1>7. Numbered'
  BY <1>1, <1>2 DEF Numbered, NoPool, pool_size, Fresh
<1>8. Ahead'
  BY <1>1, <1>2 DEF Ahead, Steady, pool_size, Reached, Owed
<1> QED
  BY <1>3, <1>4, <1>5, <1>6, <1>7, <1>8 DEF IInv, Base

\* The conjunction is an invariant: it holds at first, and every step keeps it.
THEOREM Invariance == Spec => []IInv
<1>1. Init => IInv
  BY InitBase, InitPools, InitSound, InitReserved, InitNumbered, InitAhead DEF IInv
<1>2. IInv /\ [Next]_vars => IInv'
  <2> SUFFICES ASSUME IInv, [Next]_vars PROVE IInv'
    OBVIOUS
  <2>1. CASE Next
    <3>1. Base' /\ Immortal' /\ Moves
      BY <2>1, StepBase DEF IInv
    <3> QED
      BY <2>1, <3>1, StepPools, StepSound, StepReserved, StepNumbered, StepAhead DEF IInv
  <2>2. CASE UNCHANGED vars
    BY <2>2, Stutter
  <2> QED
    BY <2>1, <2>2
<1> QED
  BY <1>1, <1>2, PTL DEF Spec

\* Every variable keeps its type: the processes, the channels with the
\* messages that are in them, the Sess_mgr of every worker and the requests,
\* whose retries stay within the caps of their rules (rules.js:203).
THEOREM TypeCorrect == Spec => []TypeOK
<1>1. IInv => TypeOK
  BY DEF IInv, Base
<1> QED
  BY <1>1, Invariance, PTL

\* When nothing is under way, the configuration, the port and all of its
\* workers have the same IPs in the pool (mgr_proxy.js:111-136).
THEOREM PoolsAgree == Spec => []PoolAgreement
<1>1. IInv => PoolAgreement
  BY PoolsAgreed DEF IInv
<1> QED
  BY <1>1, Invariance, PTL

\* The pool stays within pool_size, whatever the workers reserve, and has no
\* IP twice as long as none is renewed (session.js:31, mgr_proxy.js:111).
THEOREM PoolStaysSound == Spec => []PoolSound
<1>1. IInv => PoolSound
  BY DEF IInv, Sound
<1> QED
  BY <1>1, Invariance, PTL

\* A reservation is forgotten when it is refused: what a worker remembers as
\* reserved is on its way to the master, or a configuration that ends it is
\* on its way to the worker (session.js:38).
THEOREM ReservationsAreAnswered == Spec => []ReservationsAnswered
<1>1. IInv => ReservationsAnswered
  BY ReservedAnswered DEF IInv
<1> QED
  BY <1>1, Invariance, PTL

\* A refresh by the API switches to new sessions (swagger.json:969): when
\* everything is read, no worker of a steady port has a session that was in
\* use in any of them at the call, nor a number that would give it one
\* (proxy_port.js:162, session.js:44, rules.js:201).
THEOREM RefreshReachesAll == Spec => []Refreshed
<1>1. IInv => Refreshed
  BY NumbersRefreshed DEF IInv
<1> QED
  BY <1>1, Invariance, PTL

\* With rotate_session no two requests share a session, in one worker or in
\* two (session.js:72, 143), for any number of workers.
THEOREM RequestsRotateApart == Spec => []RotatedApart
<1>1. IInv => RotatedApart
  BY ServersApart DEF IInv
<1> QED
  BY <1>1, Invariance, PTL
=============================================================================
