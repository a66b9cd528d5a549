---------------------------- MODULE BanSync_proofs ----------------------------
(***************************************************************************)
(* Proofs about BanSync for any number of masters, workers, ports and      *)
(* IPs, and any number of operations and crashes.                          *)
(***************************************************************************)
EXTENDS BanSync, SequenceFacts, FiniteSetTheorems

-----------------------------------------------------------------------------
(***************************************************************************)
(* Channels.  Of the messages in D that are in a channel the last one      *)
(* decides.                                                                *)
(***************************************************************************)
Free(s, D) == \A i \in DOMAIN s : s[i] \notin D
Closes(s, D, Y) == \E i \in DOMAIN s : s[i] \in D \cap Y /\ \A j \in DOMAIN s : j > i => s[j] \notin D

\* The messages of two channels, one after the other.
LEMMA ConcatShape ==
    ASSUME NEW S, NEW s \in Seq(S), NEW t \in Seq(S)
    PROVE  /\ s \o t \in Seq(S)
           /\ Len(s) \in Nat /\ Len(t) \in Nat
           /\ DOMAIN s = 1 .. Len(s) /\ DOMAIN t = 1 .. Len(t)
           /\ DOMAIN (s \o t) = 1 .. Len(s) + Len(t)
           /\ \A i \in 1 .. Len(s) : (s \o t)[i] = s[i]
           /\ \A i \in 1 .. Len(t) : (s \o t)[Len(s) + i] = t[i]
OBVIOUS

\* ... which are those of both.
LEMMA RangeConcat ==
    ASSUME NEW S, NEW s \in Seq(S), NEW t \in Seq(S)
    PROVE  Range(s \o t) = Range(s) \cup Range(t)
<1> DEFINE u == s \o t
<1>1. /\ Len(s) \in Nat /\ Len(t) \in Nat
      /\ DOMAIN s = 1 .. Len(s) /\ DOMAIN t = 1 .. Len(t) /\ DOMAIN u = 1 .. Len(s) + Len(t)
      /\ \A i \in 1 .. Len(s) : u[i] = s[i]
      /\ \A i \in 1 .. Len(t) : u[Len(s) + i] = t[i]
  BY ConcatShape
<1> HIDE DEF u
<1>2. ASSUME NEW x \in Range(u) PROVE x \in Range(s) \cup Range(t)
  <2>1. PICK i \in 1 .. Len(s) + Len(t) : u[i] = x
    BY <1>1, <1>2 DEF Range
  <2>2. CASE i <= Len(s)
    BY <1>1, <2>1, <2>2 DEF Range
  <2>3. CASE i > Len(s)
    <3>1. i - Len(s) \in 1 .. Len(t) /\ i = Len(s) + (i - Len(s))
      BY <1>1, <2>3
    <3> QED
      BY <1>1, <2>1, <3>1 DEF Range
  <2> QED
    BY <1>1, <2>2, <2>3
<1>3. ASSUME NEW x \in Range(s) PROVE x \in Range(u)
  BY <1>1, <1>3 DEF Range
<1>4. ASSUME NEW x \in Range(t) PROVE x \in Range(u)
  <2>1. PICK i \in 1 .. Len(t) : t[i] = x
    BY <1>1, <1>4 DEF Range
  <2>2. Len(s) + i \in 1 .. Len(s) + Len(t)
    BY <1>1
  <2> QED
    BY <1>1, <2>1, <2>2 DEF Range
<1> QED
  BY <1>2, <1>3, <1>4 DEF u

\* What decides after messages were added.
LEMMA DecidesConcat ==
    ASSUME NEW S, NEW s \in Seq(S), NEW t \in Seq(S), NEW D, NEW Y
    PROVE  /\ Free(s \o t, D) <=> Free(s, D) /\ Free(t, D)
           /\ Closes(s \o t, D, Y) <=> Closes(t, D, Y) \/ (Free(t, D) /\ Closes(s, D, Y))
<1> DEFINE u == s \o t
<1>1. /\ Len(s) \in Nat /\ Len(t) \in Nat
      /\ DOMAIN s = 1 .. Len(s) /\ DOMAIN t = 1 .. Len(t) /\ DOMAIN u = 1 .. Len(s) + Len(t)
      /\ \A i \in 1 .. Len(s) : u[i] = s[i]
      /\ \A i \in 1 .. Len(t) : u[Len(s) + i] = t[i]
  BY ConcatShape
<1> HIDE DEF u
<1>2. /\ \A i \in DOMAIN s : i \in DOMAIN u /\ u[i] = s[i]
      /\ \A i \in DOMAIN t : Len(s) + i \in DOMAIN u /\ u[Len(s) + i] = t[i]
  BY <1>1
<1>3. \A i \in DOMAIN u : \/ i \in DOMAIN s
                          \/ \E j \in DOMAIN t : i = Len(s) + j
  <2> SUFFICES ASSUME NEW i \in DOMAIN u, i \notin DOMAIN s
               PROVE  \E j \in DOMAIN t : i = Len(s) + j
    OBVIOUS
  <2>1. i - Len(s) \in DOMAIN t /\ i = Len(s) + (i - Len(s))
    BY <1>1
  <2> QED
    BY <2>1
<1>4. Free(u, D) <=> Free(s, D) /\ Free(t, D)
  BY <1>2, <1>3 DEF Free
<1>5. ASSUME Closes(t, D, Y) PROVE Closes(u, D, Y)
  <2>1. PICK i \in DOMAIN t : t[i] \in D \cap Y /\ \A j \in DOMAIN t : j > i => t[j] \notin D
    BY <1>5 DEF Closes
  <2>2. ASSUME NEW k \in DOMAIN u, k > Len(s) + i PROVE u[k] \notin D
    <3>1. k \notin DOMAIN s
      BY <1>1, <2>2
    <3>2. PICK j \in DOMAIN t : k = Len(s) + j
      BY <1>3, <3>1
    <3>3. j > i
      BY <1>1, <2>2, <3>2
    <3> QED
      BY <1>2, <2>1, <3>2, <3>3
  <2> QED
    BY <1>2, <2>1, <2>2 DEF Closes
<1>6. ASSUME Free(t, D), Closes(s, D, Y) PROVE Closes(u, D, Y)
  <2>1. PICK i \in DOMAIN s : s[i] \in D \cap Y /\ \A j \in DOMAIN s : j > i => s[j] \notin D
    BY <1>6 DEF Closes
  <2>2. \A k \in DOMAIN u : k > i => u[k] \notin D
    BY <1>2, <1>3, <1>6, <2>1 DEF Free
  <2> QED
    BY <1>2, <2>1, <2>2 DEF Closes
<1>7. ASSUME Closes(u, D, Y) PROVE Closes(t, D, Y) \/ (Free(t, D) /\ Closes(s, D, Y))
  <2>1. PICK i \in DOMAIN u : u[i] \in D \cap Y /\ \A j \in DOMAIN u : j > i => u[j] \notin D
    BY <1>7 DEF Closes
  <2>2. CASE i \in DOMAIN s
    <3>1. ASSUME NEW j \in DOMAIN t PROVE t[j] \notin D
      <4>1. Len(s) + j \in DOMAIN u /\ Len(s) + j > i
        BY <1>1, <2>2
      <4> QED
        BY <1>2, <2>1, <4>1
    <3>2. \A j \in DOMAIN s : j > i => s[j] \notin D
      BY <1>2, <2>1
    <3> QED
      BY <1>2, <2>1, <2>2, <3>1, <3>2 DEF Free, Closes
  <2>3. ASSUME NEW k \in DOMAIN t, i = Len(s) + k PROVE Closes(t, D, Y)
    <3>1. ASSUME NEW j \in DOMAIN t, j > k PROVE t[j] \notin D
      <4>1. Len(s) + j \in DOMAIN u /\ Len(s) + j > i
        BY <1>1, <2>3, <3>1
      <4> QED
        BY <1>2, <2>1, <4>1
    <3> QED
      BY <1>2, <2>1, <2>3, <3>1 DEF Closes
  <2> QED
    BY <1>3, <2>2, <2>3
<1> QED
  BY <1>4, <1>5, <1>6, <1>7 DEF u

\* What decides after the first message was read.
LEMMA DecidesTail ==
    ASSUME NEW S, NEW s \in Seq(S), s # <<>>, NEW D, NEW Y
    PROVE  /\ Free(s, D) <=> Head(s) \notin D /\ Free(Tail(s), D)
           /\ Closes(s, D, Y) <=> \/ Closes(Tail(s), D, Y)
                                  \/ Free(Tail(s), D) /\ Head(s) \in D \cap Y
<1> DEFINE t == Tail(s)
           h == <<Head(s)>>
<1>1. Head(s) \in S /\ t \in Seq(S) /\ s = h \o t
  BY TailShape
<1>2. h \in Seq(S) /\ Len(h) = 1 /\ h[1] = Head(s) /\ DOMAIN h = {1}
  BY <1>1
<1> HIDE DEF t, h
<1>3. Free(h, D) <=> Head(s) \notin D
  BY <1>2 DEF Free
<1>4. Closes(h, D, Y) <=> Head(s) \in D \cap Y
  BY <1>2 DEF Closes
<1>5. /\ Free(h \o t, D) <=> Free(h, D) /\ Free(t, D)
      /\ Closes(h \o t, D, Y) <=> Closes(t, D, Y) \/ (Free(t, D) /\ Closes(h, D, Y))
  BY <1>1, <1>2, DecidesConcat
<1>6. /\ Free(s, D) <=> Free(h, D) /\ Free(t, D)
      /\ Closes(s, D, Y) <=> Closes(t, D, Y) \/ (Free(t, D) /\ Closes(h, D, Y))
  BY <1>1, <1>5
<1> QED
  BY <1>3, <1>4, <1>6 DEF t

\* The only message that decides.
LEMMA DecidesOne ==
    ASSUME NEW s, NEW D, NEW Y, NEW i \in DOMAIN s, s[i] \in D,
           \A j \in DOMAIN s : s[j] \in D => j = i, DOMAIN s \subseteq Nat
    PROVE  ~Free(s, D) /\ (Closes(s, D, Y) <=> s[i] \in Y)
<1>1. \A j \in DOMAIN s : j > i => s[j] \notin D
  OBVIOUS
<1> QED
  BY <1>1 DEF Free, Closes

\* A list of a finite set has every element once.
LEMMA ListShape ==
    ASSUME NEW Q, IsFiniteSet(Q)
    PROVE  LET s == SetToSeq(Q)
           IN  /\ s \in Seq(Q) /\ Len(s) \in Nat /\ DOMAIN s = 1 .. Len(s)
               /\ \A i, j \in DOMAIN s : s[i] = s[j] => i = j
               /\ \A q \in Q : \E i \in DOMAIN s : s[i] = q
<1> DEFINE n == Cardinality(Q)
           s == SetToSeq(Q)
<1>1. n \in Nat /\ ExistsBijection(1 .. n, Q)
  BY FS_CardinalityType
<1> HIDE DEF n
<1>2. PICK f : f \in Bijection(1 .. n, Q)
  BY <1>1 DEF ExistsBijection
<1>3. f \in [1 .. n -> Q] /\ IsInjective(f)
  BY <1>2 DEF Bijection, Injection, IsInjective
<1>4. s \in [1 .. n -> Q] /\ IsInjective(s)
  BY <1>3 DEF SetToSeq, n
<1> HIDE DEF s
<1>5. s \in Seq(Q) /\ Len(s) = n /\ DOMAIN s = 1 .. n
  BY <1>1, <1>4
<1>6. \A i, j \in DOMAIN s : s[i] = s[j] => i = j
  BY <1>4 DEF IsInjective
<1>7. s \in Surjection(1 .. n, Q)
  <2>1. s \in Injection(1 .. n, Q)
    BY <1>4 DEF Injection
  <2>2. IsFiniteSet(1 .. n) /\ Cardinality(1 .. n) = n
    BY <1>1, FS_Interval
  <2>3. Cardinality(1 .. n) = Cardinality(Q)
    BY <2>2 DEF n
  <2> QED
    BY <2>1, <2>3, FS_Injection
<1>8. \A q \in Q : \E i \in 1 .. n : s[i] = q
  BY <1>7 DEF Surjection
<1> QED
  BY <1>1, <1>5, <1>6, <1>8 DEF s

-----------------------------------------------------------------------------
(***************************************************************************)
(* Messages and types.                                                     *)
(***************************************************************************)
Lists == [Ports -> SUBSET Entries]
Changes == {"BANIP", "UNBANIP", "UNBANIPS"}

\* The fields of the messages.
LEMMA CommandShape ==
    ASSUME NEW c \in Command
    PROVE  /\ c.port \in Ports
           /\ c.code \in Changes \cup {"CREATE", "UPDATE_CONFIG"}
           /\ c.code \in {"BANIP", "UNBANIP"} =>
                c.entry \in Entries /\ c = Msg(c.code, c.port, c.entry) /\ c \in Event
           /\ c.code = "UNBANIPS" => c = [code |-> "UNBANIPS", port |-> c.port]
           /\ c.code \in {"CREATE", "UPDATE_CONFIG"} =>
                c.bans \in SUBSET Entries /\ c = [code |-> c.code, port |-> c.port, bans |-> c.bans]
<1> DEFINE L == SUBSET Entries
<1>1. Command = [code : {"BANIP", "UNBANIP"}, port : Ports, entry : Entries]
                \union [code : {"CREATE", "UPDATE_CONFIG"}, port : Ports, bans : L]
                \union [code : {"UNBANIPS"}, port : Ports]
  BY DEF Command
<1> HIDE DEF L
<1>2. CASE c \in [code : {"BANIP", "UNBANIP"}, port : Ports, entry : Entries]
  BY <1>2 DEF Changes, Msg, Event
<1>3. CASE c \in [code : {"CREATE", "UPDATE_CONFIG"}, port : Ports, bans : L]
  BY <1>3 DEF Changes, L
<1>4. CASE c \in [code : {"UNBANIPS"}, port : Ports]
  BY <1>4 DEF Changes
<1> QED
  BY <1>1, <1>2, <1>3, <1>4

\* Messages that are sent.
LEMMA Sendable ==
    ASSUME NEW p \in Ports
    PROVE  /\ \A e \in Entries : /\ Msg("BANIP", p, e) \in Command \cap Event
                                 /\ Msg("UNBANIP", p, e) \in Command \cap Event
                                 /\ Msg("BANIP_GLOBAL", p, e) \in Event
           /\ [code |-> "UNBANIPS", port |-> p] \in Command
           /\ \A B \in SUBSET Entries :
                /\ [code |-> "CREATE", port |-> p, bans |-> B] \in Command
                /\ [code |-> "UPDATE_CONFIG", port |-> p, bans |-> B] \in Command
                /\ [port |-> p, bans |-> B] \in Stored
<1>1. \A e \in Entries : /\ Msg("BANIP", p, e) \in Command \cap Event
                         /\ Msg("UNBANIP", p, e) \in Command \cap Event
                         /\ Msg("BANIP_GLOBAL", p, e) \in Event
  BY DEF Msg, Command, Event
<1>2. [code |-> "UNBANIPS", port |-> p] \in Command
  BY DEF Command
<1>3. ASSUME NEW B \in SUBSET Entries
      PROVE  /\ [code |-> "CREATE", port |-> p, bans |-> B] \in Command
             /\ [code |-> "UPDATE_CONFIG", port |-> p, bans |-> B] \in Command
             /\ [port |-> p, bans |-> B] \in Stored
  <2> DEFINE L == SUBSET Entries
  <2>1. /\ Command = [code : {"BANIP", "UNBANIP"}, port : Ports, entry : Entries]
                     \union [code : {"CREATE", "UPDATE_CONFIG"}, port : Ports, bans : L]
                     \union [code : {"UNBANIPS"}, port : Ports]
        /\ Stored = [port : Ports, bans : L] /\ B \in L
    BY DEF Command, Stored
  <2> HIDE DEF L
  <2> QED
    BY <2>1
<1> QED
  BY <1>1, <1>2, <1>3

\* The fields of an event.
LEMMA EventShape ==
    ASSUME NEW x \in Event
    PROVE  x.port \in Ports /\ x.entry \in Entries /\ x.code \in {"BANIP", "UNBANIP", "BANIP_GLOBAL"}
           /\ x = Msg(x.code, x.port, x.entry)
BY DEF Event, Msg

\* The fields of a list that is stored.
LEMMA StoredShape ==
    ASSUME NEW x \in Stored PROVE x.port \in Ports /\ x.bans \in SUBSET Entries
<1> DEFINE L == SUBSET Entries
<1>1. Stored = [port : Ports, bans : L]
  BY DEF Stored
<1> HIDE DEF L
<1>2. x.port \in Ports /\ x.bans \in L
  BY <1>1
<1> QED
  BY <1>2 DEF L

\* What a command makes of a list.
LEMMA AppliedShape ==
    ASSUME NEW c \in Command, c.code \in Changes, NEW B \in SUBSET Entries
    PROVE  /\ Applied(B, c) \in SUBSET Entries
           /\ c.code = "BANIP" => Applied(B, c) = B \union {c.entry}
           /\ c.code = "UNBANIP" => Applied(B, c) = B \ {c.entry}
           /\ c.code = "UNBANIPS" => Applied(B, c) = {}
           /\ Applied(Applied(B, c), c) = Applied(B, c)
<1>1. c.code \in {"BANIP", "UNBANIP"} => c.entry \in Entries
  BY CommandShape
<1>2. CASE c.code = "BANIP"
  <2>1. \A A : Applied(A, c) = A \union {c.entry}
    BY <1>2 DEF Applied
  <2> QED
    BY <1>1, <1>2, <2>1
<1>3. CASE c.code = "UNBANIP"
  <2>1. \A A : Applied(A, c) = A \ {c.entry}
    BY <1>3 DEF Applied
  <2> QED
    BY <1>1, <1>3, <2>1
<1>4. CASE c.code = "UNBANIPS"
  <2>1. \A A : Applied(A, c) = {}
    BY <1>4 DEF Applied
  <2> QED
    BY <1>4, <2>1
<1> QED
  BY <1>2, <1>3, <1>4 DEF Changes

\* The types by themselves.
LEMMA Typed ==
    ASSUME TypeOK
    PROVE  /\ world \in World /\ world \in Worlds
           /\ world.ports \subseteq Ports /\ world.entries \subseteq Entries
           /\ world.master \in [Workers -> Masters] /\ Running \subseteq Masters
           /\ \A w \in Workers : world.master[w] \in Running
           /\ IsFiniteSet(world.ports)
           /\ \A m \in Masters, p \in Ports : mban[m][p] \in SUBSET Entries
           /\ \A m \in Masters : mban[m] \in Lists /\ news[m] \subseteq Command /\ sets[m] \in Seq(Stored)
           /\ \A w \in Workers, p \in Ports : wban[w][p] \in SUBSET Entries
           /\ \A w \in Workers : /\ wban[w] \in Lists
                                 /\ created[w] \subseteq Ports
                                 /\ down[w] \in Seq(Command) /\ up[w] \in Seq(Event)
           /\ \A p \in Ports : stored[p] \in SUBSET Entries
<1>1. world \in World /\ world \in Worlds
  BY SyncAssumption DEF TypeOK
<1>2. /\ world.ports \subseteq Ports /\ world.entries \subseteq Entries
      /\ world.master \in [Workers -> Masters]
  BY <1>1 DEF World
<1>3. Running \subseteq Masters /\ \A w \in Workers : world.master[w] \in Running
  BY <1>2 DEF Running, Range
<1>4. IsFiniteSet(world.ports)
  BY <1>2, PortsAssumption, FS_Subset
<1> QED
  BY <1>1, <1>2, <1>3, <1>4 DEF TypeOK, Lists
-----------------------------------------------------------------------------
(***************************************************************************)
(* What a master does with a change: its list, its workers, redis.         *)
(***************************************************************************)

\* The commands of one change: at most one for a port.
Change(t) ==
  /\ t \in Seq(Command)
  /\ \A c \in Range(t) : c.code \in Changes /\ c.port \in world.ports
  /\ \A i, j \in DOMAIN t : t[i].port = t[j].port => i = j

\* They say what happens to the lists of master m, ...
Turned(m, t) ==
  /\ mban' \in [Masters -> Lists]
  /\ \A n \in Masters \ {m} : mban'[n] = mban[n]
  /\ \A p \in Ports : mban'[m][p] = mban[m][p] \/ \E c \in Range(t) : c.port = p
  /\ \A c \in Range(t) : mban'[m][c.port] = Applied(mban[m][c.port], c)

\* ... every worker of m is told, ...
Told(m, t) ==
  /\ down' \in [Workers -> Seq(Command)]
  /\ \A w \in Workers : down'[w] = IF world.master[w] = m THEN down[w] \o t ELSE down[w]

\* ... and every master is informed and the lists are stored.
Record(m, c) == [port |-> c.port, bans |-> mban'[m][c.port]]
Informed(m, t) ==
  /\ news' \in [Masters -> SUBSET Command] /\ sets' \in [Masters -> Seq(Stored)]
  /\ UNCHANGED <<stored, loading>>
  /\ ~world.cloud => UNCHANGED <<news, sets>>
  /\ world.cloud =>
       /\ \A n \in Running : news'[n] = news[n] \cup Range(t)
       /\ \A n \in Masters \ Running : news'[n] = {} \/ news'[n] = news[n]
       /\ \A n \in Masters \ {m} : sets'[n] = sets[n]
       /\ Range(sets'[m]) = Range(sets[m]) \cup {Record(m, c) : c \in Range(t)}

Publishes(m, t) == m \in Running /\ Change(t) /\ Turned(m, t) /\ Told(m, t) /\ Informed(m, t)

\* Send appends to the channels of the workers of m.
LEMMA SendTells ==
    ASSUME TypeOK, NEW m, NEW t \in Seq(Command), down' = Send(m, t)
    PROVE  Told(m, t)
<1>1. /\ \A w \in Workers : down[w] \in Seq(Command)
      /\ \A w \in Workers : w \in WorkersOf(m) <=> world.master[w] = m
  BY Typed DEF WorkersOf
<1>2. down' = [w \in Workers |-> IF w \in WorkersOf(m) THEN down[w] \o t ELSE down[w]]
  BY DEF Send
<1>3. \A w \in Workers : down[w] \o t \in Seq(Command)
  BY <1>1, ConcatShape
<1> HIDE DEF Told
<1>4. down' \in [Workers -> Seq(Command)]
  BY <1>1, <1>2, <1>3
<1> QED
  BY <1>1, <1>2, <1>4 DEF Told

\* Spread tells the workers and informs the masters.
LEMMA SpreadPublishes ==
    ASSUME TypeOK, NEW m \in Running, NEW t, Change(t), Turned(m, t), Spread(m, t)
    PROVE  Publishes(m, t)
<1>1. /\ t \in Seq(Command) /\ down' = Send(m, t) /\ Cmd(m, t)
      /\ Len(t) \in Nat /\ DOMAIN t = 1 .. Len(t) /\ Range(t) \subseteq Command
      /\ m \in Masters
  BY Typed, RangeType DEF Change, Spread
<1>2. Told(m, t)
  BY <1>1, SendTells
<1>3. Informed(m, t)
  <2>1. CASE ~world.cloud
    BY <1>1, <2>1 DEF Cmd, redis, Informed, TypeOK
  <2>2. CASE world.cloud
    <3> DEFINE r == [i \in DOMAIN t |-> Record(m, t[i])]
    <3>1. /\ news' = [n \in Masters |-> IF n \in Running THEN news[n] \union Range(t) ELSE {}]
          /\ sets' = [sets EXCEPT ![m] = @ \o r]
          /\ UNCHANGED <<stored, loading>>
      BY <1>1, <2>2 DEF Cmd, Record
    <3>2. r \in Seq(Stored)
      <4>1. \A i \in 1 .. Len(t) : Record(m, t[i]) \in Stored
        <5> SUFFICES ASSUME NEW i \in 1 .. Len(t) PROVE Record(m, t[i]) \in Stored
          OBVIOUS
        <5>1. t[i] \in Command /\ t[i].port \in Ports
          BY <1>1, RangeType, CommandShape
        <5>2. mban'[m][t[i].port] \in SUBSET Entries
          BY <1>1, <5>1 DEF Turned, Lists
        <5> QED
          BY <5>1, <5>2, Sendable DEF Record
      <4> QED
        BY <1>1, <4>1
    <3>3. Range(r) = {Record(m, c) : c \in Range(t)}
      BY <1>1 DEF Range
    <3> HIDE DEF r
    <3>4. /\ \A n \in Masters : news[n] \subseteq Command /\ sets[n] \in Seq(Stored)
          /\ sets \in [Masters -> Seq(Stored)]
      BY Typed DEF TypeOK
    <3>5. sets[m] \o r \in Seq(Stored) /\ Range(sets[m] \o r) = Range(sets[m]) \cup Range(r)
      BY <1>1, <3>2, <3>4, ConcatShape, RangeConcat
    <3>6. sets' \in [Masters -> Seq(Stored)] /\ sets'[m] = sets[m] \o r
          /\ \A n \in Masters \ {m} : sets'[n] = sets[n]
      BY <1>1, <3>1, <3>4, <3>5
    <3>7. news' \in [Masters -> SUBSET Command]
      BY <1>1, <3>1, <3>4
    <3>8. Running \subseteq Masters
      BY Typed
    <3> QED
      BY <2>2, <3>1, <3>3, <3>5, <3>6, <3>7, <3>8 DEF Informed
  <2> QED
    BY <2>1, <2>2
<1> QED
  BY <1>2, <1>3 DEF Publishes

\* No change.
LEMMA NothingPublishes ==
    ASSUME TypeOK, NEW m \in Running, UNCHANGED <<mban, down, redis>>
    PROVE  Publishes(m, <<>>)
<1>1. Change(<<>>) /\ Range(<<>>) = {}
  BY RangeEmpty DEF Change
<1>2. /\ mban \in [Masters -> Lists] /\ down \in [Workers -> Seq(Command)]
      /\ news \in [Masters -> SUBSET Command] /\ sets \in [Masters -> Seq(Stored)]
      /\ Running \subseteq Masters
  BY Typed DEF TypeOK, Lists
<1>3. \A w \in Workers : down[w] \o <<>> = down[w]
  <2>1. \A w \in Workers : down[w] \in Seq(Command)
    BY <1>2
  <2> QED
    BY <2>1, ConcatEmptySeq
<1>4. Turned(m, <<>>)
  BY <1>1, <1>2 DEF Turned
<1>5. Told(m, <<>>)
  BY <1>2, <1>3 DEF Told
<1>6. Informed(m, <<>>)
  <2>1. {Record(m, c) : c \in Range(<<>>)} = {}
    BY <1>1
  <2> HIDE DEF Record
  <2> QED
    BY <1>1, <1>2, <2>1 DEF Informed, redis
<1> QED
  BY <1>1, <1>4, <1>5, <1>6 DEF Publishes

\* One command, ...
LEMMA OneTurned ==
    ASSUME TypeOK, NEW m \in Running, NEW c \in Command, c.code \in Changes, c.port \in world.ports,
           mban' = [mban EXCEPT ![m] = [@ EXCEPT ![c.port] = Applied(mban[m][c.port], c)]]
    PROVE  Change(<<c>>) /\ Turned(m, <<c>>) /\ Range(<<c>>) = {c}
<1> DEFINE t == <<c>>
<1>1. t \in Seq(Command) /\ Range(t) = {c} /\ DOMAIN t = {1} /\ t[1] = c
  BY DEF Range
<1>2. m \in Masters /\ c.port \in Ports /\ mban \in [Masters -> Lists]
  BY Typed DEF TypeOK, Lists
<1>3. Applied(mban[m][c.port], c) \in SUBSET Entries
  <2>1. mban[m][c.port] \in SUBSET Entries
    BY <1>2 DEF Lists
  <2> QED
    BY <2>1, AppliedShape
<1>4. [mban[m] EXCEPT ![c.port] = Applied(mban[m][c.port], c)] \in Lists
  BY <1>2, <1>3 DEF Lists
<1>5. /\ mban' \in [Masters -> Lists] /\ \A n \in Masters \ {m} : mban'[n] = mban[n]
      /\ mban'[m] = [mban[m] EXCEPT ![c.port] = Applied(mban[m][c.port], c)]
  BY <1>2, <1>4
<1>6. \A p \in Ports : mban'[m][p] = IF p = c.port THEN Applied(mban[m][p], c) ELSE mban[m][p]
  BY <1>2, <1>5 DEF Lists
<1> HIDE DEF t
<1>7. Turned(m, t)
  BY <1>1, <1>2, <1>5, <1>6 DEF Turned
<1>8. Change(t)
  BY <1>1 DEF Change
<1> QED
  BY <1>1, <1>7, <1>8 DEF t

\* ... which everyone is told.
LEMMA OneChange ==
    ASSUME TypeOK, NEW m \in Running, NEW c \in Command, c.code \in Changes, c.port \in world.ports,
           mban' = [mban EXCEPT ![m] = [@ EXCEPT ![c.port] = Applied(mban[m][c.port], c)]],
           Spread(m, <<c>>)
    PROVE  Publishes(m, <<c>>) /\ Range(<<c>>) = {c}
BY OneTurned, SpreadPublishes

\* A ban: the ports that did not have it.
LEMMA BanipPublishes ==
    ASSUME TypeOK, NEW m \in Running, NEW P \in SUBSET world.ports, NEW e \in Entries,
           handle_banip(m, P, e)
    PROVE  \E t : /\ Publishes(m, t)
                  /\ \A c \in Range(t) : /\ c = Msg("BANIP", c.port, e) /\ c.port \in P
                                         /\ ~Has(mban[m][c.port], e)
                  /\ \A p \in P : Has(mban[m][p], e) \/ Msg("BANIP", p, e) \in Range(t)
<1> DEFINE Q == NewOn(m, P, e)
           ports == SetToSeq(Q)
           t == [i \in DOMAIN ports |-> Msg("BANIP", ports[i], e)]
<1>1. /\ mban' = [mban EXCEPT ![m] = [p \in Ports |-> IF p \in Q THEN mban[m][p] \union {e} ELSE mban[m][p]]]
      /\ Spread(m, t)
  BY DEF handle_banip
<1>2. /\ Q \subseteq P /\ \A p \in Q : ~Has(mban[m][p], e)
      /\ \A p \in P : Has(mban[m][p], e) \/ p \in Q
  BY DEF NewOn
<1> HIDE DEF Q
<1>3. /\ m \in Masters /\ P \subseteq Ports /\ IsFiniteSet(Q)
      /\ mban \in [Masters -> Lists] /\ \A p \in Ports : mban[m][p] \in SUBSET Entries
  <2>1. P \subseteq Ports /\ IsFiniteSet(world.ports) /\ m \in Masters
    BY Typed
  <2>2. IsFiniteSet(Q)
    BY <1>2, <2>1, FS_Subset
  <2> QED
    BY <2>1, <2>2, Typed DEF TypeOK, Lists
<1>4. /\ ports \in Seq(Q) /\ Len(ports) \in Nat /\ DOMAIN ports = 1 .. Len(ports)
      /\ \A i, j \in DOMAIN ports : ports[i] = ports[j] => i = j
      /\ \A q \in Q : \E i \in DOMAIN ports : ports[i] = q
  BY <1>3, ListShape
<1> HIDE DEF ports
<1>5. \A i \in DOMAIN ports : ports[i] \in Q
  BY <1>4
<1>6. \A p \in Ports : /\ Msg("BANIP", p, e) \in Command
                       /\ Msg("BANIP", p, e).port = p /\ Msg("BANIP", p, e).code = "BANIP"
                       /\ Msg("BANIP", p, e).entry = e
  BY Sendable DEF Msg
<1>7. t \in Seq(Command) /\ DOMAIN t = DOMAIN ports
  BY <1>2, <1>3, <1>4, <1>5, <1>6
<1>8. Range(t) = {Msg("BANIP", q, e) : q \in Q}
  BY <1>4, <1>5 DEF Range
<1>9. \A i \in DOMAIN t : t[i].port = ports[i]
  BY <1>2, <1>3, <1>5, <1>6
<1> HIDE DEF t
<1>10. Change(t)
  <2>1. \A c \in Range(t) : c.code \in Changes /\ c.port \in world.ports
    BY <1>2, <1>3, <1>6, <1>8 DEF Changes
  <2> QED
    BY <1>4, <1>7, <1>9, <2>1 DEF Change
<1>11. Turned(m, t)
  <2> DEFINE B == [p \in Ports |-> IF p \in Q THEN mban[m][p] \union {e} ELSE mban[m][p]]
  <2>1. B \in Lists
    BY <1>3 DEF Lists
  <2>2. \A p \in Ports : B[p] = IF p \in Q THEN mban[m][p] \union {e} ELSE mban[m][p]
    OBVIOUS
  <2>3. mban' = [mban EXCEPT ![m] = B]
    BY <1>1
  <2> HIDE DEF B
  <2>4. /\ mban' \in [Masters -> Lists] /\ mban'[m] = B
        /\ \A n \in Masters \ {m} : mban'[n] = mban[n]
    BY <1>3, <2>1, <2>3
  <2>5. ASSUME NEW c \in Range(t) PROVE B[c.port] = Applied(mban[m][c.port], c)
    <3>1. PICK q \in Q : c = Msg("BANIP", q, e)
      BY <1>8
    <3>2. q \in Ports /\ c \in Command /\ c.port = q /\ c.code = "BANIP" /\ c.entry = e
      BY <1>2, <1>3, <1>6, <3>1
    <3>3. Applied(mban[m][q], c) = mban[m][q] \union {e}
      BY <1>3, <3>2, AppliedShape DEF Changes
    <3> QED
      BY <2>2, <3>2, <3>3
  <2>6. ASSUME NEW p \in Ports PROVE B[p] = mban[m][p] \/ \E c \in Range(t) : c.port = p
    <3>1. CASE p \in Q
      BY <1>6, <1>8, <3>1
    <3>2. CASE p \notin Q
      BY <2>2, <3>2
    <3> QED
      BY <3>1, <3>2
  <2> QED
    BY <2>4, <2>5, <2>6 DEF Turned
<1>12. Publishes(m, t)
  BY <1>1, <1>10, <1>11, SpreadPublishes DEF t
<1>13. ASSUME NEW c \in Range(t)
       PROVE  c = Msg("BANIP", c.port, e) /\ c.port \in P /\ ~Has(mban[m][c.port], e)
  BY <1>2, <1>3, <1>6, <1>8
<1>14. \A p \in P : Has(mban[m][p], e) \/ Msg("BANIP", p, e) \in Range(t)
  BY <1>2, <1>8
<1> QED
  BY <1>12, <1>13, <1>14

\* The end of a ban.
LEMMA UnbanipPublishes ==
    ASSUME TypeOK, NEW m \in Running, NEW p \in world.ports, NEW e \in Entries,
           handle_unbanip(m, p, e)
    PROVE  \E t : /\ Publishes(m, t)
                  /\ Range(t) = IF Has(mban[m][p], e) THEN {Msg("UNBANIP", p, e)} ELSE {}
<1>1. CASE Has(mban[m][p], e)
  <2> DEFINE c == Msg("UNBANIP", p, e)
  <2>1. p \in Ports
    BY Typed
  <2>2. c \in Command /\ c.code \in Changes /\ c.port = p /\ c.code = "UNBANIP" /\ c.entry = e
    BY <2>1, Sendable DEF Msg, Changes
  <2>3. mban' = [mban EXCEPT ![m] = [mban[m] EXCEPT ![p] = mban[m][p] \ {e}]] /\ Spread(m, <<c>>)
    BY <1>1 DEF handle_unbanip
  <2> HIDE DEF c
  <2>4. Applied(mban[m][p], c) = mban[m][p] \ {e}
    <3>1. mban[m][p] \in SUBSET Entries
      BY <2>1, Typed
    <3> QED
      BY <2>2, <3>1, AppliedShape
  <2>5. Publishes(m, <<c>>) /\ Range(<<c>>) = {c}
    BY <2>2, <2>3, <2>4, OneChange
  <2> QED
    BY <1>1, <2>5 DEF c
<1>2. CASE ~Has(mban[m][p], e)
  <2>1. UNCHANGED <<mban, down, redis>>
    BY <1>2 DEF handle_unbanip
  <2> QED
    BY <1>2, <2>1, NothingPublishes, RangeEmpty
<1> QED
  BY <1>1, <1>2

\* All bans of a port.
LEMMA UnbanipsPublishes ==
    ASSUME TypeOK, NEW m \in Running, NEW p \in world.ports,
           mban' = [mban EXCEPT ![m][p] = {}], Spread(m, <<[code |-> "UNBANIPS", port |-> p]>>)
    PROVE  \E t : Publishes(m, t) /\ Range(t) = {[code |-> "UNBANIPS", port |-> p]}
<1> DEFINE c == [code |-> "UNBANIPS", port |-> p]
<1>1. p \in Ports
  BY Typed
<1>2. c \in Command /\ c.code \in Changes /\ c.port = p /\ c.code = "UNBANIPS"
  BY <1>1, Sendable DEF Changes
<1>3. mban' = [mban EXCEPT ![m] = [mban[m] EXCEPT ![p] = {}]] /\ Spread(m, <<c>>)
  OBVIOUS
<1> HIDE DEF c
<1>4. Applied(mban[m][p], c) = {}
  BY <1>2 DEF Applied
<1>5. Publishes(m, <<c>>) /\ Range(<<c>>) = {c}
  BY <1>2, <1>3, <1>4, OneChange
<1> QED
  BY <1>5 DEF c

-----------------------------------------------------------------------------
(***************************************************************************)
(* The steps, by what they do to the channels.                             *)
(***************************************************************************)

\* Of a user, who publishes t, ...
ByUser(m, t) ==
  /\ Publishes(m, t)
  /\ UNCHANGED <<world, wban, created, up, restarts>>
  /\ world.patient => Quiet
  /\ \A c \in Range(t) : /\ c.code = "BANIP" => c.entry \in world.entries
                         /\ c.code = "UNBANIP" => "unban" \in world.operations
                         /\ c.code = "UNBANIPS" => "unbans" \in world.operations

\* ... and of the master of w, which publishes what is new in an event.
ByEvent(w, t) ==
  /\ up[w] # <<>>
  /\ Publishes(world.master[w], t)
  /\ up' = [up EXCEPT ![w] = Tail(@)]
  /\ UNCHANGED <<world, wban, created, restarts>>
  /\ LET x == Head(up[w]) IN
       /\ \A c \in Range(t) : c = x
       /\ x.code = "BANIP" => Has(mban[world.master[w]][x.port], x.entry) \/ x \in Range(t)

ByConfig == \E m \in Running, p \in world.ports : update_config(m, p)
ByRule == \E w \in Workers, p \in world.ports, e \in world.entries :
             rule_ban(w, p, e) \/ rule_ban_global(w, p, e.ip)

\* Users ban, ...
LEMMA BansByUser ==
    ASSUME TypeOK, NEW m \in Running, NEW P \in SUBSET world.ports, NEW e \in world.entries,
           NEW name, Operation(name), handle_banip(m, P, e)
    PROVE  \E t : ByUser(m, t)
<1>1. e \in Entries
  BY Typed
<1>2. PICK t : Publishes(m, t) /\ \A c \in Range(t) : c = Msg("BANIP", c.port, e)
  BY <1>1, BanipPublishes
<1>3. \A c \in Range(t) : c.code = "BANIP" /\ c.entry = e
  BY <1>2 DEF Msg
<1> QED
  BY <1>2, <1>3 DEF ByUser, Operation

\* ... lift a ban ...
LEMMA UnbanByUser ==
    ASSUME TypeOK, NEW m \in Running, NEW p \in world.ports, NEW e \in world.entries,
           proxy_unbanip(m, p, e)
    PROVE  \E t : ByUser(m, t)
<1>1. e \in Entries
  BY Typed
<1>2. PICK t : Publishes(m, t)
               /\ Range(t) = IF Has(mban[m][p], e) THEN {Msg("UNBANIP", p, e)} ELSE {}
  BY <1>1, UnbanipPublishes DEF proxy_unbanip
<1>3. \A c \in Range(t) : c.code = "UNBANIP"
  BY <1>2 DEF Msg
<1> QED
  BY <1>2, <1>3 DEF ByUser, Operation, proxy_unbanip

\* ... or all bans of a port.
LEMMA UnbansByUser ==
    ASSUME TypeOK, NEW m \in Running, NEW p \in world.ports, proxy_unbanips(m, p)
    PROVE  \E t : ByUser(m, t)
<1>1. mban' = [mban EXCEPT ![m][p] = {}] /\ Spread(m, <<[code |-> "UNBANIPS", port |-> p]>>)
  BY DEF proxy_unbanips
<1>2. PICK t : Publishes(m, t) /\ Range(t) = {[code |-> "UNBANIPS", port |-> p]}
  BY <1>1, UnbanipsPublishes
<1>3. \A c \in Range(t) : c.code = "UNBANIPS"
  BY <1>2
<1> QED
  BY <1>2, <1>3 DEF ByUser, Operation, proxy_unbanips

\* A master handles an event of a worker.
LEMMA HandlesByEvent ==
    ASSUME TypeOK, NEW w \in Workers, MasterHandles(w), Head(up[w]).port \in world.ports
    PROVE  \E t : ByEvent(w, t)
<1> DEFINE x == Head(up[w])
           m == world.master[w]
<1>1. /\ up[w] # <<>> /\ UNCHANGED <<world, wban, created, restarts>>
      /\ up' = [up EXCEPT ![w] = Tail(@)]
      /\ \/ x.code = "BANIP" /\ handle_banip(m, {x.port}, x.entry)
         \/ x.code = "UNBANIP" /\ handle_unbanip(m, x.port, x.entry)
         \/ x.code = "BANIP_GLOBAL" /\ handle_banip(m, Selected(NoPorts), x.entry)
  BY DEF MasterHandles
<1>2. m \in Running /\ x \in Event /\ x.port \in world.ports
  BY <1>1, Typed, TailShape
<1>3. x.entry \in Entries /\ x = Msg(x.code, x.port, x.entry)
  BY <1>2, EventShape
<1> HIDE DEF m, x
<1>4. SUFFICES \E t : /\ Publishes(m, t) /\ \A c \in Range(t) : c = x
                      /\ x.code = "BANIP" => Has(mban[m][x.port], x.entry) \/ x \in Range(t)
  BY <1>1 DEF ByEvent, x, m
<1>5. CASE x.code = "BANIP" /\ handle_banip(m, {x.port}, x.entry)
  <2>1. PICK t : /\ Publishes(m, t)
                 /\ \A c \in Range(t) : c = Msg("BANIP", c.port, x.entry) /\ c.port \in {x.port}
                 /\ \A p \in {x.port} : Has(mban[m][p], x.entry) \/ Msg("BANIP", p, x.entry) \in Range(t)
    <3> DEFINE P == {x.port}
               e == x.entry
    <3>1. P \in SUBSET world.ports /\ e \in Entries /\ handle_banip(m, P, e)
      BY <1>2, <1>3, <1>5
    <3> HIDE DEF P, e
    <3>2. \E t : /\ Publishes(m, t)
                 /\ \A c \in Range(t) : /\ c = Msg("BANIP", c.port, e) /\ c.port \in P
                                        /\ ~Has(mban[m][c.port], e)
                 /\ \A p \in P : Has(mban[m][p], e) \/ Msg("BANIP", p, e) \in Range(t)
      BY <1>2, <3>1, BanipPublishes
    <3> QED
      BY <3>2 DEF P, e
  <2>2. \A c \in Range(t) : c = x
    BY <1>3, <1>5, <2>1
  <2>3. Has(mban[m][x.port], x.entry) \/ x \in Range(t)
    BY <1>3, <1>5, <2>1
  <2> QED
    BY <2>1, <2>2, <2>3
<1>6. CASE x.code = "UNBANIP" /\ handle_unbanip(m, x.port, x.entry)
  <2> DEFINE p == x.port
             e == x.entry
  <2>1. p \in world.ports /\ e \in Entries /\ handle_unbanip(m, p, e) /\ x = Msg("UNBANIP", p, e)
    BY <1>2, <1>3, <1>6
  <2> HIDE DEF p, e
  <2>2. PICK t : Publishes(m, t)
                 /\ Range(t) = IF Has(mban[m][p], e) THEN {Msg("UNBANIP", p, e)} ELSE {}
    BY <1>2, <2>1, UnbanipPublishes
  <2>3. \A c \in Range(t) : c = x
    BY <2>1, <2>2
  <2> QED
    BY <1>6, <2>2, <2>3
<1>7. CASE x.code = "BANIP_GLOBAL" /\ handle_banip(m, Selected(NoPorts), x.entry)
  <2> DEFINE P == Selected(NoPorts)
             e == x.entry
  <2>1. P = {} /\ e \in Entries /\ handle_banip(m, P, e)
    BY <1>3, <1>7 DEF Selected, NoPorts
  <2> HIDE DEF P, e
  <2>2. PICK t : Publishes(m, t) /\ \A c \in Range(t) : c.port \in P
    BY <1>2, <2>1, BanipPublishes
  <2>3. \A c \in Range(t) : c = x
    BY <2>1, <2>2
  <2> QED
    BY <1>7, <2>2, <2>3
<1> QED
  BY <1>1, <1>5, <1>6, <1>7

\* The steps of the specification.
LEMMA Steps ==
    ASSUME TypeOK, Next,
           \A w \in Workers : up[w] # <<>> => Head(up[w]).port \in world.ports
    PROVE  \/ \E m \in Running : \E t : ByUser(m, t)
           \/ ByConfig
           \/ ByRule
           \/ \E w \in Workers : \E t : ByEvent(w, t)
           \/ \E w \in Workers : WorkerHandles(w) \/ Restart(w)
           \/ \E m \in Running : MasterHears(m) \/ RedisSets(m) \/ load_data(m) \/ Reboot(m)
<1>1. ASSUME NEW m \in Running, NEW p \in world.ports, NEW e \in world.entries,
             proxy_banip(m, p, e) \/ proxy_unbanip(m, p, e)
      PROVE  \E t : ByUser(m, t)
  <2>1. CASE proxy_banip(m, p, e)
    <3>1. Operation("ban") /\ handle_banip(m, {p}, e) /\ {p} \in SUBSET world.ports
      BY <2>1 DEF proxy_banip
    <3> QED
      BY <3>1, BansByUser
  <2>2. CASE proxy_unbanip(m, p, e)
    BY <2>2, UnbanByUser
  <2> QED
    BY <1>1, <2>1, <2>2
<1>2. ASSUME NEW m \in Running, NEW P \in SUBSET world.ports, NEW e \in world.entries,
             global_banip(m, P, e)
      PROVE  \E t : ByUser(m, t)
  <2>1. Operation("global") /\ handle_banip(m, Selected(P), e) /\ Selected(P) \in SUBSET world.ports
    BY <1>2 DEF global_banip, Selected
  <2> QED
    BY <2>1, BansByUser
<1>3. ASSUME NEW m \in Running, NEW p \in world.ports, proxy_unbanips(m, p)
      PROVE  \E t : ByUser(m, t)
  BY <1>3, UnbansByUser
<1>4. ASSUME NEW w \in Workers, MasterHandles(w) PROVE \E t : ByEvent(w, t)
  BY <1>4, HandlesByEvent DEF MasterHandles
<1> QED
  BY <1>1, <1>2, <1>3, <1>4 DEF Next, ByConfig, ByRule

-----------------------------------------------------------------------------
(***************************************************************************)
(* Everything is about ports that exist, and only masters that run have    *)
(* anything under way.                                                     *)
(***************************************************************************)
Named(s, P) == \A x \in Range(s) : x.port \in P

PlacedMasters ==
  /\ \A w \in Workers : Named(down[w], world.ports)
  /\ \A m \in Masters : Named(sets[m], world.ports)
  /\ \A m \in Masters : \A x \in news[m] : x.port \in world.ports /\ x.code \in Changes
  /\ \A m \in Masters \ Running : news[m] = {} /\ sets[m] = <<>>
  /\ \A m \in Masters, p \in Ports \ world.ports : mban[m][p] = {}

PlacedWorkers ==
  /\ \A w \in Workers : created[w] \subseteq world.ports /\ Named(up[w], world.ports)
  /\ \A w \in Workers, p \in Ports \ world.ports : wban[w][p] = {}
  /\ \A p \in Ports \ world.ports : stored[p] = {}

\* The types with the places: Base is inductive.
Base == TypeOK /\ PlacedMasters /\ PlacedWorkers

\* The first message of a channel names a port.
LEMMA HeadNamed ==
    ASSUME NEW S, NEW s \in Seq(S), s # <<>>, NEW P, Named(s, P)
    PROVE  Head(s) \in S /\ Head(s).port \in P /\ Named(Tail(s), P) /\ Tail(s) \in Seq(S)
BY RangeTail DEF Named

\* So do the messages of two channels.
LEMMA ConcatNamed ==
    ASSUME NEW S, NEW s \in Seq(S), NEW t \in Seq(S), NEW P, Named(s, P), Named(t, P)
    PROVE  s \o t \in Seq(S) /\ Named(s \o t, P)
BY RangeConcat, ConcatShape DEF Named

\* The running masters stay the same.
LEMMA SameWorld ==
    ASSUME world' = world
    PROVE  /\ Running' = Running
           /\ \A m : WorkersOf(m)' = WorkersOf(m)
BY DEF Running, WorkersOf

\* A change keeps the places.
LEMMA PublishesPlaced ==
    ASSUME Base, NEW m, NEW t, Publishes(m, t), world' = world
    PROVE  PlacedMasters'
<1>1. /\ Change(t) /\ Turned(m, t) /\ Told(m, t) /\ Informed(m, t) /\ m \in Running /\ m \in Masters
      /\ t \in Seq(Command) /\ \A c \in Range(t) : c.code \in Changes /\ c.port \in world.ports
  BY Typed DEF Publishes, Change, Base
<1>2. /\ Running \subseteq Masters /\ world.ports \subseteq Ports
      /\ \A w \in Workers : down[w] \in Seq(Command)
  BY Typed DEF Base
<1>3. ASSUME NEW w \in Workers PROVE Named(down'[w], world.ports)
  <2>1. Named(t, world.ports)
    BY <1>1 DEF Named
  <2>2. Named(down[w], world.ports)
    BY <1>3 DEF Base, PlacedMasters
  <2>3. Named(down[w] \o t, world.ports)
    BY <1>1, <1>2, <1>3, <2>1, <2>2, ConcatNamed
  <2> QED
    BY <1>1, <1>3, <2>2, <2>3 DEF Told
<1>4. ASSUME NEW n \in Masters PROVE Named(sets'[n], world.ports)
  <2>1. Named(sets[n], world.ports)
    BY <1>4 DEF Base, PlacedMasters
  <2>2. \A c \in Range(t) : Record(m, c).port \in world.ports
    BY <1>1 DEF Record
  <2>3. CASE sets'[n] = sets[n]
    BY <2>1, <2>3
  <2>4. CASE n = m /\ Range(sets'[m]) = Range(sets[m]) \cup {Record(m, c) : c \in Range(t)}
    <3> HIDE DEF Record
    <3> QED
      BY <2>1, <2>2, <2>4 DEF Named
  <2> QED
    BY <1>1, <1>4, <2>3, <2>4 DEF Informed
<1>5. ASSUME NEW n \in Masters PROVE \A x \in news'[n] : x.port \in world.ports /\ x.code \in Changes
  <2>1. \A x \in news[n] : x.port \in world.ports /\ x.code \in Changes
    BY <1>5 DEF Base, PlacedMasters
  <2>2. news'[n] \in {news[n], {}, news[n] \cup Range(t)}
    BY <1>1, <1>5 DEF Informed
  <2> QED
    BY <1>1, <2>1, <2>2
<1>6. ASSUME NEW n \in Masters \ Running PROVE news'[n] = {} /\ sets'[n] = <<>>
  <2>1. news[n] = {} /\ sets[n] = <<>>
    BY <1>6 DEF Base, PlacedMasters
  <2>2. n # m
    BY <1>1, <1>6
  <2> QED
    BY <1>1, <1>6, <2>1, <2>2 DEF Informed
<1>7. ASSUME NEW n \in Masters, NEW p \in Ports \ world.ports PROVE mban'[n][p] = {}
  <2>1. mban[n][p] = {}
    BY <1>7 DEF Base, PlacedMasters
  <2>2. mban'[n][p] = mban[n][p]
    <3>1. CASE n = m
      BY <1>1, <1>7, <3>1 DEF Turned
    <3>2. CASE n # m
      BY <1>1, <1>7, <3>2 DEF Turned
    <3> QED
      BY <3>1, <3>2
  <2> QED
    BY <2>1, <2>2
<1>8. Running' = Running
  BY SameWorld
<1> QED
  BY <1>3, <1>4, <1>5, <1>6, <1>7, <1>8 DEF PlacedMasters

\* The history and the counters keep their types.
LEMMA HistoryTyped ==
    ASSUME TypeOK, Next
    PROVE  world' = world /\ lifted' \in [Ports -> SUBSET Entries] /\ ops' \in Nat /\ restarts' \in Nat
<1> DEFINE Good == /\ world' = world /\ lifted' \in [Ports -> SUBSET Entries]
                   /\ ops' \in Nat /\ restarts' \in Nat
<1>1. /\ lifted \in [Ports -> SUBSET Entries] /\ ops \in Nat /\ restarts \in Nat
      /\ world.entries \subseteq Entries
  BY Typed DEF TypeOK
<1>2. ASSUME NEW m, NEW p, NEW e \in world.entries,
             proxy_banip(m, p, e) \/ proxy_unbanip(m, p, e)
      PROVE  Good
  BY <1>1, <1>2 DEF proxy_banip, proxy_unbanip, Operation
<1>3. ASSUME NEW m, NEW P, NEW e \in world.entries, global_banip(m, P, e)
      PROVE  Good
  BY <1>1, <1>3 DEF global_banip, Operation
<1>4. ASSUME NEW m, NEW p, proxy_unbanips(m, p) \/ update_config(m, p)
      PROVE  Good
  BY <1>1, <1>4 DEF proxy_unbanips, update_config, Operation
<1>5. ASSUME NEW w, NEW p, NEW e \in world.entries,
             rule_ban(w, p, e) \/ rule_ban_global(w, p, e.ip)
      PROVE  Good
  BY <1>1, <1>5 DEF rule_ban, rule_ban_global
<1>6. ASSUME NEW w, WorkerHandles(w) \/ MasterHandles(w) \/ Restart(w)
      PROVE  Good
  <2>1. UNCHANGED <<world, lifted, ops>>
    <3>1. CASE WorkerHandles(w)
      BY <3>1, Zenon DEF WorkerHandles
    <3>2. CASE MasterHandles(w)
      BY <3>2, Zenon DEF MasterHandles
    <3>3. CASE Restart(w)
      BY <3>3, Zenon DEF Restart, Die
    <3> QED
      BY <1>6, <3>1, <3>2, <3>3
  <2>2. restarts' \in {restarts, restarts + 1}
    BY <1>6, Zenon DEF WorkerHandles, MasterHandles, Restart, Die
  <2> QED
    BY <1>1, <2>1, <2>2
<1>7. ASSUME NEW m, MasterHears(m) \/ RedisSets(m) \/ load_data(m) \/ Reboot(m)
      PROVE  Good
  BY <1>1, <1>7 DEF MasterHears, RedisSets, load_data, Reboot, Die
<1> HIDE DEF Good
<1>8. Good
  BY <1>2, <1>3, <1>4, <1>5, <1>6, <1>7 DEF Next
<1> QED
  BY <1>8 DEF Good

-----------------------------------------------------------------------------
(***************************************************************************)
(* The other steps, by their parts.                                        *)
(***************************************************************************)

\* The CREATEs of a worker: one per port, with its list.
LEMMA CreatesShape ==
    ASSUME TypeOK, NEW list \in Lists
    PROVE  /\ Creates(list) \in Seq(Command)
           /\ \A x \in Range(Creates(list)) :
                x.port \in world.ports /\ x = [code |-> "CREATE", port |-> x.port, bans |-> list[x.port]]
           /\ \A p \in world.ports : \E i \in DOMAIN Creates(list) :
                /\ Creates(list)[i] = [code |-> "CREATE", port |-> p, bans |-> list[p]]
                /\ \A j \in DOMAIN Creates(list) : Creates(list)[j].port = p => j = i
<1> DEFINE ports == SetToSeq(world.ports)
           msg(p) == [code |-> "CREATE", port |-> p, bans |-> list[p]]
           t == [i \in DOMAIN ports |-> msg(ports[i])]
<1>1. Creates(list) = t
  BY DEF Creates
<1>2. /\ ports \in Seq(world.ports) /\ Len(ports) \in Nat /\ DOMAIN ports = 1 .. Len(ports)
      /\ \A i, j \in DOMAIN ports : ports[i] = ports[j] => i = j
      /\ \A q \in world.ports : \E i \in DOMAIN ports : ports[i] = q
  BY Typed, ListShape
<1> HIDE DEF ports
<1>3. \A i \in DOMAIN ports : ports[i] \in world.ports
  BY <1>2
<1>4. \A p \in world.ports : msg(p) \in Command
  <2> SUFFICES ASSUME NEW p \in world.ports PROVE msg(p) \in Command
    OBVIOUS
  <2>1. p \in Ports /\ list[p] \in SUBSET Entries
    BY Typed DEF Lists
  <2> QED
    BY <2>1, Sendable
<1>5. \A p : msg(p).port = p
  OBVIOUS
<1> HIDE DEF msg
<1>6. /\ t \in Seq(Command) /\ DOMAIN t = DOMAIN ports
      /\ \A i \in DOMAIN t : t[i] = msg(ports[i]) /\ t[i].port = ports[i]
  BY <1>2, <1>3, <1>4, <1>5
<1> HIDE DEF t
<1>7. \A x \in Range(t) : x.port \in world.ports /\ x = msg(x.port)
  BY <1>3, <1>6 DEF Range
<1>8. \A p \in world.ports : \E i \in DOMAIN t :
         t[i] = msg(p) /\ \A j \in DOMAIN t : t[j].port = p => j = i
  BY <1>2, <1>6
<1> QED
  BY <1>1, <1>6, <1>7, <1>8 DEF msg

\* A worker handles a command.
LEMMA HandlesShape ==
    ASSUME Base, NEW w \in Workers, WorkerHandles(w)
    PROVE  LET c == Head(down[w]) IN
           /\ down[w] # <<>> /\ c \in Command /\ c.port \in world.ports /\ c.port \in Ports
           /\ Handled(w, c) \in SUBSET Entries
           /\ Echo(w, c) \in Seq(Event) /\ Range(Echo(w, c)) \subseteq {c}
           /\ wban' \in [Workers -> Lists]
           /\ wban' = [wban EXCEPT ![w] = [wban[w] EXCEPT ![c.port] = Handled(w, c)]]
           /\ created' = IF c.code = "CREATE"
                         THEN [created EXCEPT ![w] = created[w] \union {c.port}] ELSE created
           /\ up' = [up EXCEPT ![w] = up[w] \o Echo(w, c)]
           /\ down' = [down EXCEPT ![w] = Tail(down[w])]
           /\ UNCHANGED <<world, mban, redis, restarts>>
<1> DEFINE c == Head(down[w])
<1>1. /\ down[w] # <<>>
      /\ wban' = [wban EXCEPT ![w] = [wban[w] EXCEPT ![c.port] = Handled(w, c)]]
      /\ created' = IF c.code = "CREATE"
                    THEN [created EXCEPT ![w] = created[w] \union {c.port}] ELSE created
      /\ up' = [up EXCEPT ![w] = up[w] \o Echo(w, c)]
      /\ down' = [down EXCEPT ![w] = Tail(down[w])]
      /\ UNCHANGED <<world, mban, redis, restarts>>
  BY Zenon DEF WorkerHandles
<1>2. c \in Command /\ c.port \in world.ports /\ c.port \in Ports
  <2>1. down[w] \in Seq(Command) /\ Named(down[w], world.ports) /\ world.ports \subseteq Ports
    BY Typed DEF Base, PlacedMasters
  <2> QED
    BY <1>1, <2>1, HeadNamed
<1> HIDE DEF c
<1>3. Handled(w, c) \in SUBSET Entries
  <2>1. wban[w][c.port] \in SUBSET Entries
    BY <1>2, Typed DEF Base
  <2>2. /\ c.code \in {"CREATE", "UPDATE_CONFIG"} => c.bans \in SUBSET Entries
        /\ c.code \in Changes \cup {"CREATE", "UPDATE_CONFIG"}
    BY <1>2, CommandShape
  <2>3. c.code \in Changes => Applied(wban[w][c.port], c) \in SUBSET Entries
    BY <1>2, <2>1, AppliedShape
  <2> QED
    BY <2>1, <2>2, <2>3 DEF Handled
<1>4. Echo(w, c) \in Seq(Event) /\ Range(Echo(w, c)) \subseteq {c}
  <2>1. c.code \in {"BANIP", "UNBANIP"} => c \in Event
    BY <1>2, CommandShape
  <2>2. CASE Echo(w, c) = <<>>
    BY <2>2, RangeEmpty
  <2>3. CASE Echo(w, c) = <<c>> /\ c.code \in {"BANIP", "UNBANIP"}
    BY <2>1, <2>3 DEF Range
  <2> QED
    BY <2>2, <2>3 DEF Echo
<1>5. wban' \in [Workers -> Lists]
  <2>1. wban \in [Workers -> Lists]
    BY DEF Base, TypeOK, Lists
  <2>2. [wban[w] EXCEPT ![c.port] = Handled(w, c)] \in Lists
    BY <1>2, <1>3, <2>1 DEF Lists
  <2> QED
    BY <1>1, <2>1, <2>2
<1> QED
  BY <1>1, <1>2, <1>3, <1>4, <1>5 DEF c

\* A master hears of a change that it or another one published.
LEMMA HearsShape ==
    ASSUME Base, NEW m \in Running, MasterHears(m)
    PROVE  \E c \in news[m] :
             /\ c \in Command /\ c.port \in world.ports /\ c.code \in Changes
             /\ Change(<<c>>) /\ Turned(m, <<c>>) /\ Told(m, <<c>>) /\ Range(<<c>>) = {c}
             /\ news' = [news EXCEPT ![m] = news[m] \ {c}]
             /\ UNCHANGED <<world, wban, created, up, sets, stored, loading, restarts>>
<1>1. PICK c \in news[m] :
         /\ news' = [news EXCEPT ![m] = news[m] \ {c}]
         /\ mban' = [mban EXCEPT ![m] = [mban[m] EXCEPT ![c.port] = Applied(mban[m][c.port], c)]]
         /\ down' = Send(m, <<c>>)
         /\ UNCHANGED <<world, wban, created, up, sets, stored, loading, restarts>>
  BY DEF MasterHears
<1>2. c \in Command /\ c.port \in world.ports /\ c.code \in Changes
  BY Typed DEF Base, PlacedMasters
<1>3. Change(<<c>>) /\ Turned(m, <<c>>) /\ Range(<<c>>) = {c}
  BY <1>1, <1>2, OneTurned DEF Base
<1>4. Told(m, <<c>>)
  BY <1>1, <1>3, SendTells DEF Base, Change
<1> QED
  BY <1>1, <1>2, <1>3, <1>4

\* A list is stored.
LEMMA SetsShape ==
    ASSUME Base, NEW m \in Running, RedisSets(m)
    PROVE  LET x == Head(sets[m]) IN
           /\ m \in Masters /\ sets[m] # <<>> /\ x \in Stored /\ x.port \in world.ports
           /\ x.port \in Ports /\ x.bans \in SUBSET Entries
           /\ stored' \in Lists /\ stored' = [stored EXCEPT ![x.port] = x.bans]
           /\ sets' \in [Masters -> Seq(Stored)] /\ sets' = [sets EXCEPT ![m] = Tail(sets[m])]
           /\ Range(sets[m]) = {x} \cup Range(sets'[m])
           /\ UNCHANGED <<world, mban, wban, created, down, up, news, loading, restarts>>
<1> DEFINE x == Head(sets[m])
<1>1. /\ sets[m] # <<>> /\ stored' = [stored EXCEPT ![x.port] = x.bans]
      /\ sets' = [sets EXCEPT ![m] = Tail(sets[m])]
      /\ UNCHANGED <<world, mban, wban, created, down, up, news, loading, restarts>>
  BY DEF RedisSets
<1>2. /\ m \in Masters /\ sets \in [Masters -> Seq(Stored)] /\ sets[m] \in Seq(Stored)
      /\ Named(sets[m], world.ports) /\ stored \in Lists /\ world.ports \subseteq Ports
  BY Typed DEF Base, TypeOK, PlacedMasters, Lists
<1>3. x \in Stored /\ x.port \in world.ports /\ Tail(sets[m]) \in Seq(Stored)
  BY <1>1, <1>2, HeadNamed
<1>4. Range(sets[m]) = {x} \cup Range(Tail(sets[m]))
  BY <1>1, <1>2, RangeTail
<1> HIDE DEF x
<1>5. x.port \in Ports /\ x.bans \in SUBSET Entries
  BY <1>3, StoredShape
<1>6. stored' \in Lists
  BY <1>1, <1>2, <1>5 DEF Lists
<1>7. sets' \in [Masters -> Seq(Stored)] /\ sets'[m] = Tail(sets[m])
  BY <1>1, <1>2, <1>3
<1> QED
  BY <1>1, <1>2, <1>3, <1>4, <1>5, <1>6, <1>7 DEF x

-----------------------------------------------------------------------------
(***************************************************************************)
(* Types.                                                                  *)
(***************************************************************************)
Shapes ==
  /\ mban \in [Masters -> Lists] /\ wban \in [Workers -> Lists] /\ stored \in Lists
  /\ created \in [Workers -> SUBSET Ports]
  /\ down \in [Workers -> Seq(Command)]
  /\ up \in [Workers -> Seq(Event)]
  /\ news \in [Masters -> SUBSET Command]
  /\ sets \in [Masters -> Seq(Stored)]
  /\ loading \subseteq Running

Framed == Shapes /\ PlacedMasters /\ PlacedWorkers

\* At first everything is empty.
LEMMA BaseInit == Init => Base
<1> SUFFICES ASSUME Init PROVE Base
  OBVIOUS
<1>1. world \in World
  BY SyncAssumption DEF Init
<1>2. world.ports \subseteq Ports
  BY <1>1 DEF World
<1>3. TypeOK
  BY <1>2 DEF Init, TypeOK
<1>4. \A P : Named(<<>>, P)
  BY RangeEmpty DEF Named
<1>5. PlacedMasters
  BY <1>2, <1>4 DEF Init, PlacedMasters
<1>6. PlacedWorkers
  BY <1>2, <1>4 DEF Init, PlacedWorkers
<1> QED
  BY <1>3, <1>5, <1>6 DEF Base

\* A change in a master.
LEMMA PublishesFramed ==
    ASSUME Base, NEW m, NEW t, Publishes(m, t), UNCHANGED <<world, wban, created>>,
           up' \in [Workers -> Seq(Event)], \A w \in Workers : Named(up'[w], world.ports)
    PROVE  Framed'
<1>1. Shapes /\ PlacedWorkers /\ PlacedMasters'
  BY PublishesPlaced DEF Shapes, Base, TypeOK, Lists
<1>2. /\ mban' \in [Masters -> Lists] /\ down' \in [Workers -> Seq(Command)]
      /\ news' \in [Masters -> SUBSET Command] /\ sets' \in [Masters -> Seq(Stored)]
      /\ UNCHANGED <<stored, loading>>
  BY DEF Publishes, Turned, Told, Informed
<1>3. Running' = Running
  BY SameWorld
<1>4. Shapes'
  BY <1>1, <1>2, <1>3 DEF Shapes, Lists
<1>5. PlacedWorkers'
  BY <1>1, <1>2 DEF PlacedWorkers
<1> QED
  BY <1>1, <1>4, <1>5 DEF Framed

\* A user or an event.
LEMMA UserFramed ==
    ASSUME Base, NEW m, NEW t, ByUser(m, t) PROVE Framed'
BY PublishesFramed DEF ByUser, Base, TypeOK, PlacedWorkers

\* A master handles an event.
LEMMA EventFramed ==
    ASSUME Base, NEW w \in Workers, NEW t, ByEvent(w, t) PROVE Framed'
<1>1. /\ up \in [Workers -> Seq(Event)] /\ up[w] \in Seq(Event) /\ up[w] # <<>>
      /\ up' = [up EXCEPT ![w] = Tail(up[w])]
      /\ \A v \in Workers : Named(up[v], world.ports)
  BY DEF ByEvent, Base, TypeOK, PlacedWorkers
<1>2. Tail(up[w]) \in Seq(Event) /\ Named(Tail(up[w]), world.ports)
  BY <1>1, HeadNamed
<1>3. /\ up' \in [Workers -> Seq(Event)]
      /\ \A v \in Workers : Named(up'[v], world.ports)
  BY <1>1, <1>2
<1>4. Publishes(world.master[w], t) /\ UNCHANGED <<world, wban, created>>
  BY DEF ByEvent
<1> QED
  BY <1>3, <1>4, PublishesFramed

\* A port is configured.
LEMMA ConfigShape ==
    ASSUME Base, NEW m \in Running, NEW p \in world.ports, update_config(m, p)
    PROVE  LET c == Config(m, "UPDATE_CONFIG", p) IN
           /\ c \in Command /\ c.code = "UPDATE_CONFIG" /\ c.port = p /\ c.bans = mban[m][p]
           /\ <<c>> \in Seq(Command) /\ Range(<<c>>) = {c} /\ Told(m, <<c>>)
           /\ UNCHANGED <<world, mban, wban, created, up, news, sets, stored, loading, restarts>>
<1> DEFINE c == Config(m, "UPDATE_CONFIG", p)
<1>1. /\ down' = Send(m, <<c>>)
      /\ UNCHANGED <<world, mban, wban, created, up, news, sets, stored, loading, restarts>>
  BY DEF update_config, Operation, redis
<1>2. c \in Command
  <2>1. p \in Ports /\ m \in Masters
    BY Typed DEF Base
  <2>2. mban[m][p] \in SUBSET Entries
    BY <2>1, Typed DEF Base
  <2> QED
    BY <2>1, <2>2, Sendable DEF Config
<1>3. c.code = "UPDATE_CONFIG" /\ c.port = p /\ c.bans = mban[m][p]
  BY DEF Config
<1> HIDE DEF c
<1>4. <<c>> \in Seq(Command) /\ Range(<<c>>) = {c}
  BY <1>2 DEF Range
<1>5. Told(m, <<c>>)
  BY <1>1, <1>4, SendTells DEF Base
<1> QED
  BY <1>1, <1>2, <1>3, <1>4, <1>5 DEF c

\* Messages carry lists of ports that exist.
LEMMA ConfigFramed ==
    ASSUME Base, ByConfig PROVE Framed'
<1>1. PICK m \in Running, p \in world.ports : update_config(m, p)
  BY DEF ByConfig
<1> DEFINE c == Config(m, "UPDATE_CONFIG", p)
<1>2. /\ c \in Command /\ c.port = p
      /\ <<c>> \in Seq(Command) /\ Range(<<c>>) = {c} /\ Told(m, <<c>>)
      /\ UNCHANGED <<world, mban, wban, created, up, news, sets, stored, loading>>
  BY <1>1, ConfigShape
<1> HIDE DEF c
<1>4. Named(<<c>>, world.ports)
  BY <1>2 DEF Named
<1>6. Shapes /\ PlacedWorkers /\ PlacedMasters
  BY DEF Shapes, Base, TypeOK, Lists
<1>7. Running' = Running
  BY <1>2, SameWorld
<1>8. Shapes'
  BY <1>2, <1>6, <1>7 DEF Shapes, Told, Lists
<1>9. PlacedWorkers'
  BY <1>2, <1>6 DEF PlacedWorkers
<1>10. \A w \in Workers : Named(down'[w], world.ports)
  <2> SUFFICES ASSUME NEW w \in Workers PROVE Named(down'[w], world.ports)
    OBVIOUS
  <2>1. down[w] \in Seq(Command) /\ Named(down[w], world.ports)
    BY <1>6 DEF Shapes, PlacedMasters
  <2>2. Named(down[w] \o <<c>>, world.ports)
    BY <1>2, <1>4, <2>1, ConcatNamed
  <2> QED
    BY <1>2, <2>1, <2>2 DEF Told
<1>11. PlacedMasters'
  BY <1>2, <1>6, <1>7, <1>10 DEF PlacedMasters
<1> QED
  BY <1>8, <1>9, <1>11 DEF Framed

\* A rule bans in a worker.
LEMMA RuleShape ==
    ASSUME Base, NEW w \in Workers, NEW p \in world.ports, NEW e \in world.entries,
           rule_ban(w, p, e) \/ rule_ban_global(w, p, e.ip)
    PROVE  \E x \in Event :
             /\ p \in Ports /\ e \in Entries /\ p \in created[w] /\ x.port = p
             /\ up' = [up EXCEPT ![w] = Append(up[w], x)]
             /\ wban' \in [Workers -> Lists]
             /\ \/ x = Msg("BANIP", p, e) /\ "rule" \in world.operations
                   /\ wban' = [wban EXCEPT ![w] = [wban[w] EXCEPT ![p] = wban[w][p] \union {e}]]
                \/ x.code = "BANIP_GLOBAL" /\ wban' = wban
             /\ UNCHANGED <<world, mban, created, down, redis, restarts>>
<1>1. /\ p \in Ports /\ e \in Entries /\ wban[w] \in Lists /\ wban[w][p] \in SUBSET Entries
      /\ wban \in [Workers -> Lists]
  BY Typed DEF Base, TypeOK, Lists
<1>2. CASE rule_ban(w, p, e)
  <2> DEFINE x == Msg("BANIP", p, e)
  <2>1. /\ up' = [up EXCEPT ![w] = Append(up[w], x)]
        /\ wban' = [wban EXCEPT ![w] = [wban[w] EXCEPT ![p] = wban[w][p] \union {e}]]
        /\ UNCHANGED <<world, mban, created, down, redis, restarts>>
        /\ p \in created[w] /\ "rule" \in world.operations
    BY <1>2 DEF rule_ban
  <2>2. x \in Event /\ x.port = p
    BY <1>1, Sendable DEF Msg
  <2> HIDE DEF x
  <2>3. [wban[w] EXCEPT ![p] = wban[w][p] \union {e}] \in Lists
    BY <1>1 DEF Lists
  <2>4. wban' \in [Workers -> Lists]
    BY <1>1, <2>1, <2>3
  <2> QED
    BY <1>1, <2>1, <2>2, <2>4 DEF x
<1>3. CASE rule_ban_global(w, p, e.ip)
  <2> DEFINE b == [ip |-> e.ip, dom |-> NoDomain]
             x == Msg("BANIP_GLOBAL", p, b)
  <2>1. /\ up' = [up EXCEPT ![w] = Append(up[w], x)]
        /\ UNCHANGED <<world, mban, wban, created, down, redis, restarts>> /\ p \in created[w]
    BY <1>3 DEF rule_ban_global
  <2>2. b \in Entries
    BY <1>1 DEF Entries
  <2> HIDE DEF b
  <2>3. x \in Event /\ x.port = p /\ x.code = "BANIP_GLOBAL"
    BY <1>1, <2>2, Sendable DEF Msg
  <2> HIDE DEF x
  <2> QED
    BY <1>1, <2>1, <2>3
<1> QED
  BY <1>2, <1>3

\* Rules act in workers that have created the port.
LEMMA RuleFramed ==
    ASSUME Base, ByRule PROVE Framed'
<1>1. PICK w \in Workers, p \in world.ports, e \in world.entries :
         rule_ban(w, p, e) \/ rule_ban_global(w, p, e.ip)
  BY DEF ByRule
<1>2. PICK x \in Event :
         /\ p \in Ports /\ e \in Entries /\ p \in created[w] /\ x.port = p
         /\ up' = [up EXCEPT ![w] = Append(up[w], x)]
         /\ wban' \in [Workers -> Lists]
         /\ \/ wban' = [wban EXCEPT ![w] = [wban[w] EXCEPT ![p] = wban[w][p] \union {e}]]
            \/ wban' = wban
         /\ UNCHANGED <<world, mban, created, down, redis, restarts>>
  BY <1>1, RuleShape
<1>3. Shapes /\ PlacedWorkers /\ PlacedMasters
  BY DEF Shapes, Base, TypeOK, Lists
<1>4. Append(up[w], x) \in Seq(Event) /\ Range(Append(up[w], x)) = Range(up[w]) \cup {x}
  BY <1>3, RangeAppend DEF Shapes
<1>5. /\ up' \in [Workers -> Seq(Event)] /\ up'[w] = Append(up[w], x)
      /\ \A v \in Workers \ {w} : up'[v] = up[v]
  BY <1>2, <1>3, <1>4 DEF Shapes
<1>6. \A v \in Workers : Named(up'[v], world.ports)
  BY <1>2, <1>3, <1>4, <1>5 DEF PlacedWorkers, Named
<1>7. Running' = Running
  BY <1>2, SameWorld
<1>8. Shapes'
  BY <1>2, <1>3, <1>5, <1>7 DEF Shapes, redis, Lists
<1>9. \A v \in Workers, q \in Ports \ world.ports : wban'[v][q] = {}
  <2> SUFFICES ASSUME NEW v \in Workers, NEW q \in Ports \ world.ports PROVE wban'[v][q] = {}
    OBVIOUS
  <2>1. wban[v][q] = {} /\ q # p /\ wban \in [Workers -> Lists] /\ wban[w] \in Lists
    BY <1>3 DEF PlacedWorkers, Shapes
  <2>2. wban'[v][q] = wban[v][q]
    <3>1. CASE v = w
      BY <1>2, <2>1, <3>1 DEF Lists
    <3>2. CASE v # w
      BY <1>2, <2>1, <3>2
    <3> QED
      BY <3>1, <3>2
  <2> QED
    BY <2>1, <2>2
<1>10. PlacedWorkers'
  BY <1>2, <1>3, <1>6, <1>9 DEF PlacedWorkers, redis
<1>11. PlacedMasters'
  BY <1>2, <1>3, <1>7 DEF PlacedMasters, redis
<1> QED
  BY <1>8, <1>10, <1>11 DEF Framed

\* A worker handles commands for ports that exist.
LEMMA HandlesFramed ==
    ASSUME Base, NEW w \in Workers, WorkerHandles(w) PROVE Framed'
<1> DEFINE c == Head(down[w])
           s == Echo(w, c)
           B == [wban[w] EXCEPT ![c.port] = Handled(w, c)]
<1>1. /\ down[w] # <<>> /\ c.port \in world.ports /\ c.port \in Ports
      /\ s \in Seq(Event) /\ Range(s) \subseteq {c}
      /\ wban' \in [Workers -> Lists] /\ wban' = [wban EXCEPT ![w] = B]
      /\ created' = IF c.code = "CREATE"
                    THEN [created EXCEPT ![w] = created[w] \union {c.port}] ELSE created
      /\ up' = [up EXCEPT ![w] = up[w] \o s]
      /\ down' = [down EXCEPT ![w] = Tail(down[w])]
      /\ UNCHANGED <<world, mban, redis, restarts>>
  BY HandlesShape
<1>2. wban[w] \in Lists => \A q \in Ports \ {c.port} : B[q] = wban[w][q]
  BY DEF Lists
<1> HIDE DEF B, s, c
<1>3. Shapes /\ PlacedWorkers /\ PlacedMasters
  BY DEF Shapes, Base, TypeOK, Lists
<1>4. up[w] \o s \in Seq(Event) /\ Named(up[w] \o s, world.ports)
  <2>1. up[w] \in Seq(Event) /\ Named(up[w], world.ports) /\ Named(s, world.ports)
    BY <1>1, <1>3 DEF Shapes, PlacedWorkers, Named
  <2> QED
    BY <1>1, <2>1, ConcatNamed
<1>5. /\ up' \in [Workers -> Seq(Event)] /\ \A v \in Workers : Named(up'[v], world.ports)
  BY <1>1, <1>3, <1>4 DEF Shapes, PlacedWorkers
<1>6. Tail(down[w]) \in Seq(Command) /\ Named(Tail(down[w]), world.ports)
  <2>1. down[w] \in Seq(Command) /\ Named(down[w], world.ports)
    BY <1>3 DEF Shapes, PlacedMasters
  <2> QED
    BY <1>1, <2>1, HeadNamed
<1>7. /\ down' \in [Workers -> Seq(Command)] /\ \A v \in Workers : Named(down'[v], world.ports)
  BY <1>1, <1>3, <1>6 DEF Shapes, PlacedMasters
<1>8. /\ created' \in [Workers -> SUBSET Ports]
      /\ \A v \in Workers : created'[v] \subseteq world.ports
  BY <1>1, <1>3 DEF Shapes, PlacedWorkers
<1>9. Running' = Running
  BY <1>1, SameWorld
<1>10. Shapes'
  BY <1>1, <1>3, <1>5, <1>7, <1>8, <1>9 DEF Shapes, redis, Lists
<1>11. \A v \in Workers, q \in Ports \ world.ports : wban'[v][q] = {}
  BY <1>1, <1>2, <1>3 DEF PlacedWorkers, Shapes
<1>12. PlacedWorkers'
  BY <1>1, <1>3, <1>5, <1>8, <1>11 DEF PlacedWorkers, redis
<1>13. PlacedMasters'
  BY <1>1, <1>3, <1>7, <1>9 DEF PlacedMasters, redis
<1> QED
  BY <1>10, <1>12, <1>13 DEF Framed

\* Processes that die.
LEMMA DieShape ==
    ASSUME Base, NEW W, NEW creates \in Seq(Command), Named(creates, world.ports), Die(W, creates)
    PROVE  /\ wban' \in [Workers -> Lists] /\ created' \in [Workers -> SUBSET Ports]
           /\ down' \in [Workers -> Seq(Command)] /\ up' \in [Workers -> Seq(Event)]
           /\ \A w \in Workers : Named(down'[w], world.ports)
           /\ \A w \in Workers : IF w \in W
                THEN wban'[w] = [p \in Ports |-> {}] /\ created'[w] = {} /\ up'[w] = <<>>
                     /\ down'[w] = creates
                ELSE wban'[w] = wban[w] /\ created'[w] = created[w] /\ up'[w] = up[w]
                     /\ down'[w] = down[w]
           /\ PlacedWorkers' /\ world' = world /\ stored' = stored /\ restarts' > 0
<1>1. /\ restarts' = restarts + 1
      /\ wban' = [w \in Workers |-> IF w \in W THEN [p \in Ports |-> {}] ELSE wban[w]]
      /\ created' = [w \in Workers |-> IF w \in W THEN {} ELSE created[w]]
      /\ up' = [w \in Workers |-> IF w \in W THEN <<>> ELSE up[w]]
      /\ down' = [w \in Workers |-> IF w \in W THEN creates ELSE down[w]]
      /\ world' = world /\ stored' = stored
  BY DEF Die
<1>2. Shapes /\ PlacedWorkers /\ PlacedMasters /\ restarts \in Nat
  BY DEF Shapes, Base, TypeOK, Lists
<1>3. [p \in Ports |-> {}] \in Lists
  BY DEF Lists
<1>4. wban' \in [Workers -> Lists]
  BY <1>1, <1>2, <1>3 DEF Shapes
<1>5. created' \in [Workers -> SUBSET Ports]
  BY <1>1, <1>2 DEF Shapes
<1>6. up' \in [Workers -> Seq(Event)]
  BY <1>1, <1>2 DEF Shapes
<1>7. down' \in [Workers -> Seq(Command)]
  BY <1>1, <1>2 DEF Shapes
<1>8. \A w \in Workers : Named(down'[w], world.ports)
  BY <1>1, <1>2 DEF PlacedMasters
<1>9. Named(<<>>, world.ports)
  BY RangeEmpty DEF Named
<1>10. \A w \in Workers : created'[w] \subseteq world.ports /\ Named(up'[w], world.ports)
  BY <1>1, <1>2, <1>9 DEF PlacedWorkers
<1>11. \A w \in Workers, p \in Ports \ world.ports : wban'[w][p] = {}
  BY <1>1, <1>2 DEF PlacedWorkers
<1>12. PlacedWorkers'
  BY <1>1, <1>2, <1>10, <1>11 DEF PlacedWorkers
<1>13. restarts' > 0
  BY <1>1, <1>2
<1>14. \A w \in Workers : IF w \in W
         THEN wban'[w] = [p \in Ports |-> {}] /\ created'[w] = {} /\ up'[w] = <<>>
              /\ down'[w] = creates
         ELSE wban'[w] = wban[w] /\ created'[w] = created[w] /\ up'[w] = up[w]
              /\ down'[w] = down[w]
  BY <1>1
<1> QED
  BY <1>1, <1>4, <1>5, <1>6, <1>7, <1>8, <1>12, <1>13, <1>14

\* A worker dies.
LEMMA RestartShape ==
    ASSUME Base, NEW w \in Workers, Restart(w)
    PROVE  /\ mban[world.master[w]] \in Lists
           /\ Creates(mban[world.master[w]]) \in Seq(Command)
           /\ Named(Creates(mban[world.master[w]]), world.ports)
           /\ Die({w}, Creates(mban[world.master[w]]))
           /\ UNCHANGED <<mban, news, sets, loading>>
<1>1. mban[world.master[w]] \in Lists
  BY Typed DEF Base
<1>2. /\ Creates(mban[world.master[w]]) \in Seq(Command)
      /\ Named(Creates(mban[world.master[w]]), world.ports)
  BY <1>1, CreatesShape DEF Base, Named
<1> QED
  BY <1>1, <1>2 DEF Restart

\* A new worker starts with nothing.
LEMMA RestartFramed ==
    ASSUME Base, NEW w \in Workers, Restart(w) PROVE Framed'
<1>1. /\ wban' \in [Workers -> Lists] /\ created' \in [Workers -> SUBSET Ports]
      /\ down' \in [Workers -> Seq(Command)] /\ up' \in [Workers -> Seq(Event)]
      /\ \A v \in Workers : Named(down'[v], world.ports)
      /\ PlacedWorkers' /\ world' = world /\ stored' = stored
      /\ UNCHANGED <<mban, news, sets, loading>>
  BY RestartShape, DieShape
<1>2. Shapes /\ PlacedMasters
  BY DEF Shapes, Base, TypeOK, Lists
<1>3. Running' = Running
  BY <1>1, SameWorld
<1>4. Shapes'
  BY <1>1, <1>2, <1>3 DEF Shapes, Lists
<1>5. PlacedMasters'
  BY <1>1, <1>2, <1>3 DEF PlacedMasters
<1> QED
  BY <1>1, <1>4, <1>5 DEF Framed

\* The masters hear, store and load.
LEMMA MastersFramed ==
    ASSUME Base, NEW m \in Running, MasterHears(m) \/ RedisSets(m) \/ load_data(m)
    PROVE  Framed'
<1>1. Shapes /\ PlacedWorkers /\ PlacedMasters /\ Running \subseteq Masters /\ m \in Masters
  BY Typed DEF Shapes, Base, TypeOK, Lists
<1>2. CASE MasterHears(m)
  <2>1. PICK c \in news[m] :
          /\ c.port \in world.ports /\ Range(<<c>>) = {c} /\ <<c>> \in Seq(Command)
          /\ Turned(m, <<c>>) /\ Told(m, <<c>>)
          /\ news' = [news EXCEPT ![m] = news[m] \ {c}]
          /\ UNCHANGED <<world, wban, created, up, sets, stored, loading, restarts>>
    BY <1>2, HearsShape DEF Change
  <2>2. Running' = Running
    BY <2>1, SameWorld
  <2>3. news' \in [Masters -> SUBSET Command] /\ \A n \in Masters : news'[n] \subseteq news[n]
    BY <1>1, <2>1 DEF Shapes
  <2>4. Shapes'
    BY <1>1, <2>1, <2>2, <2>3 DEF Shapes, Turned, Told, Lists
  <2>5. PlacedWorkers'
    BY <1>1, <2>1 DEF PlacedWorkers
  <2>6. ASSUME NEW w \in Workers PROVE Named(down'[w], world.ports)
    <3>1. down[w] \in Seq(Command) /\ Named(down[w], world.ports) /\ Named(<<c>>, world.ports)
      BY <1>1, <2>1, <2>6 DEF Shapes, PlacedMasters, Named
    <3>2. Named(down[w] \o <<c>>, world.ports)
      BY <2>1, <3>1, ConcatNamed
    <3> QED
      BY <2>1, <2>6, <3>1, <3>2 DEF Told
  <2>7. ASSUME NEW n \in Masters, NEW p \in Ports \ world.ports PROVE mban'[n][p] = {}
    <3>1. mban[n][p] = {}
      BY <1>1, <2>7 DEF PlacedMasters
    <3>2. CASE n = m
      BY <2>1, <2>7, <3>1, <3>2 DEF Turned
    <3>3. CASE n # m
      BY <2>1, <2>7, <3>1, <3>3 DEF Turned
    <3> QED
      BY <3>2, <3>3
  <2>8. \A n \in Masters \ Running : news'[n] = {}
    BY <1>1, <2>3 DEF PlacedMasters
  <2>9. PlacedMasters'
    BY <1>1, <2>1, <2>2, <2>3, <2>6, <2>7, <2>8 DEF PlacedMasters
  <2> QED
    BY <2>4, <2>5, <2>9 DEF Framed
<1>3. CASE RedisSets(m)
  <2> DEFINE x == Head(sets[m])
  <2>1. /\ x.port \in world.ports
        /\ stored' \in Lists /\ stored' = [stored EXCEPT ![x.port] = x.bans]
        /\ sets' \in [Masters -> Seq(Stored)] /\ sets' = [sets EXCEPT ![m] = Tail(sets[m])]
        /\ Range(sets[m]) = {x} \cup Range(sets'[m])
        /\ UNCHANGED <<world, mban, wban, created, down, up, news, loading, restarts>>
    BY <1>3, SetsShape
  <2> HIDE DEF x
  <2>2. Running' = Running
    BY <2>1, SameWorld
  <2>3. Shapes'
    BY <1>1, <2>1, <2>2 DEF Shapes, Lists
  <2>4. \A p \in Ports \ world.ports : stored'[p] = {}
    BY <1>1, <2>1 DEF PlacedWorkers, Shapes, Lists
  <2>5. PlacedWorkers'
    BY <1>1, <2>1, <2>4 DEF PlacedWorkers
  <2>6. \A n \in Masters : Range(sets'[n]) \subseteq Range(sets[n])
    BY <1>1, <2>1 DEF Shapes
  <2>7. \A n \in Masters : Named(sets'[n], world.ports)
    BY <1>1, <2>6 DEF PlacedMasters, Named
  <2>8. \A n \in Masters \ Running : sets'[n] = <<>>
    BY <1>1, <2>1 DEF PlacedMasters
  <2>9. PlacedMasters'
    BY <1>1, <2>1, <2>2, <2>7, <2>8 DEF PlacedMasters
  <2> QED
    BY <2>3, <2>5, <2>9 DEF Framed
<1>4. CASE load_data(m)
  <2>1. /\ loading' = loading \ {m} /\ mban' = [mban EXCEPT ![m] = stored]
        /\ UNCHANGED <<world, wban, created, down, up, news, sets, stored>>
    BY <1>4 DEF load_data
  <2>2. Running' = Running
    BY <2>1, SameWorld
  <2>3. Shapes'
    BY <1>1, <2>1, <2>2 DEF Shapes, Lists
  <2>4. PlacedWorkers'
    BY <1>1, <2>1 DEF PlacedWorkers
  <2>5. \A n \in Masters, p \in Ports \ world.ports : mban'[n][p] = {}
    BY <1>1, <2>1 DEF PlacedWorkers, PlacedMasters, Shapes
  <2>6. PlacedMasters'
    BY <1>1, <2>1, <2>2, <2>5 DEF PlacedMasters
  <2> QED
    BY <2>3, <2>4, <2>6 DEF Framed
<1> QED
  BY <1>2, <1>3, <1>4

\* A master dies with its workers.
LEMMA RebootShape ==
    ASSUME Base, NEW m \in Running, Reboot(m)
    PROVE  LET none == [p \in Ports |-> {}] IN
           /\ none \in Lists /\ m \in Masters
           /\ Creates(none) \in Seq(Command) /\ Named(Creates(none), world.ports)
           /\ Die(WorkersOf(m), Creates(none))
           /\ "reboot" \in world.operations /\ (world.patient => Quiet)
           /\ mban' = [mban EXCEPT ![m] = none]
           /\ news' = [news EXCEPT ![m] = {}]
           /\ sets' = [sets EXCEPT ![m] = <<>>]
           /\ loading' = loading \union {m}
<1> DEFINE none == [p \in Ports |-> {}]
<1>1. none \in Lists
  BY DEF Lists
<1>2. /\ Die(WorkersOf(m), Creates(none))
      /\ "reboot" \in world.operations /\ (world.patient => Quiet)
      /\ mban' = [mban EXCEPT ![m] = none]
      /\ news' = [news EXCEPT ![m] = {}]
      /\ sets' = [sets EXCEPT ![m] = <<>>]
      /\ loading' = loading \union {m}
  BY DEF Reboot
<1>3. m \in Masters
  BY Typed DEF Base
<1> HIDE DEF none
<1>4. Creates(none) \in Seq(Command) /\ Named(Creates(none), world.ports)
  BY <1>1, CreatesShape DEF Base, Named
<1> QED
  BY <1>1, <1>2, <1>3, <1>4 DEF none

\* So does a new master.
LEMMA RebootFramed ==
    ASSUME Base, NEW m \in Running, Reboot(m) PROVE Framed'
<1> DEFINE none == [p \in Ports |-> {}]
<1>1. /\ none \in Lists /\ m \in Masters
      /\ Creates(none) \in Seq(Command) /\ Named(Creates(none), world.ports)
      /\ Die(WorkersOf(m), Creates(none))
      /\ mban' = [mban EXCEPT ![m] = none]
      /\ news' = [news EXCEPT ![m] = {}]
      /\ sets' = [sets EXCEPT ![m] = <<>>]
      /\ loading' = loading \union {m}
  BY RebootShape
<1>2. \A p \in Ports : none[p] = {}
  OBVIOUS
<1> HIDE DEF none
<1>3. /\ wban' \in [Workers -> Lists] /\ created' \in [Workers -> SUBSET Ports]
      /\ down' \in [Workers -> Seq(Command)] /\ up' \in [Workers -> Seq(Event)]
      /\ \A v \in Workers : Named(down'[v], world.ports)
      /\ PlacedWorkers' /\ world' = world /\ stored' = stored
  <2> DEFINE W == WorkersOf(m)
  <2> HIDE DEF W
  <2>1. Die(W, Creates(none))
    BY <1>1 DEF W
  <2> QED
    BY <1>1, <2>1, DieShape
<1>4. Shapes /\ PlacedMasters
  BY DEF Shapes, Base, TypeOK, Lists
<1>5. Running' = Running
  BY <1>3, SameWorld
<1>6. mban' \in [Masters -> Lists] /\ news' \in [Masters -> SUBSET Command]
  BY <1>1, <1>4 DEF Shapes
<1>7. sets' \in [Masters -> Seq(Stored)]
  BY <1>1, <1>4 DEF Shapes
<1>8. loading' \subseteq Running'
  BY <1>1, <1>4, <1>5 DEF Shapes
<1>9. Shapes'
  BY <1>3, <1>4, <1>6, <1>7, <1>8 DEF Shapes, Lists
<1>10. \A n \in Masters : Named(sets'[n], world.ports)
  BY <1>1, <1>4, RangeEmpty DEF Shapes, PlacedMasters, Named
<1>11. \A n \in Masters : \A x \in news'[n] : x.port \in world.ports /\ x.code \in Changes
  BY <1>1, <1>4 DEF Shapes, PlacedMasters
<1>12. \A n \in Masters \ Running : news'[n] = {} /\ sets'[n] = <<>>
  BY <1>1, <1>4 DEF Shapes, PlacedMasters
<1>13. \A n \in Masters, p \in Ports \ world.ports : mban'[n][p] = {}
  BY <1>1, <1>2, <1>4 DEF Shapes, PlacedMasters
<1>14. PlacedMasters'
  BY <1>3, <1>5, <1>10, <1>11, <1>12, <1>13 DEF PlacedMasters
<1> QED
  BY <1>3, <1>9, <1>14 DEF Framed

\* In Base the events name ports that exist, so that the lemma on the steps holds.
LEMMA BaseSteps ==
    ASSUME Base, Next
    PROVE  \/ \E m \in Running : \E t : ByUser(m, t)
           \/ ByConfig
           \/ ByRule
           \/ \E w \in Workers : \E t : ByEvent(w, t)
           \/ \E w \in Workers : WorkerHandles(w) \/ Restart(w)
           \/ \E m \in Running : MasterHears(m) \/ RedisSets(m) \/ load_data(m) \/ Reboot(m)
<1>1. \A w \in Workers : up[w] # <<>> => Head(up[w]).port \in world.ports
  BY Typed, HeadNamed DEF Base, PlacedWorkers
<1> QED
  BY <1>1, Steps DEF Base

\* Every step keeps the types and the places.
LEMMA BaseStep == Base /\ [Next]_vars => Base'
<1>1. ASSUME Base, Next PROVE Base'
  <2>1. Framed'
    BY <1>1, BaseSteps, UserFramed, ConfigFramed, RuleFramed, EventFramed, HandlesFramed,
       RestartFramed, MastersFramed, RebootFramed
  <2>2. world' = world /\ lifted' \in [Ports -> SUBSET Entries] /\ ops' \in Nat /\ restarts' \in Nat
    BY <1>1, HistoryTyped DEF Base
  <2>3. world' \in Worlds
    BY <1>1, <2>2 DEF Base, TypeOK
  <2>4. TypeOK'
    BY <2>1, <2>2, <2>3 DEF Framed, Shapes, TypeOK, Lists
  <2> QED
    BY <2>1, <2>4 DEF Framed, Base
<1>2. ASSUME Base, UNCHANGED vars PROVE Base'
  <2>1. UNCHANGED <<world, mban, wban, created, down, up, news, sets, stored, loading, lifted, ops, restarts>>
    BY <1>2 DEF vars, redis
  <2>2. TypeOK' /\ PlacedMasters' /\ PlacedWorkers'
    BY <1>2, <2>1 DEF Base, TypeOK, PlacedMasters, PlacedWorkers, Running
  <2> QED
    BY <2>2 DEF Base
<1> QED
  BY <1>1, <1>2

\* The types hold in every behaviour.
LEMMA BaseHolds == Spec => []Base
BY BaseInit, BaseStep, PTL DEF Spec

\* Workers send only events that Proxy_port handles, masters only commands that
\* workers understand, and all of them are about ports that exist.
THEOREM TypeCorrect == Spec => []TypeOK
<1>1. Base => TypeOK
  BY DEF Base
<1> QED
  BY <1>1, BaseHolds, PTL

-----------------------------------------------------------------------------
(***************************************************************************)
(* Agreement.  Of everything that a worker has got and will get for a port *)
(* and a ban, the last thing decides whether the ban will be in its list.  *)
(***************************************************************************)
Decides(p, e) ==
    {c \in Command : c.port = p /\ (c.code \in {"BANIP", "UNBANIP"} => c.entry = e)}
Grants(e) == {c \in Command : \/ c.code = "BANIP"
                              \/ c.code \in {"CREATE", "UPDATE_CONFIG"} /\ e \in c.bans}
Will(w, p, e) == \/ Closes(down[w], Decides(p, e), Grants(e))
                 \/ Free(down[w], Decides(p, e)) /\ e \in wban[w][p]

Rules == "rule" \in world.operations
Crowd == world.cloud /\ ~world.patient
Calm == world.cloud /\ world.patient

\* A worker that has not created a port will be told to.
Starts == \A w \in Workers : \A p \in world.ports \ created[w] :
             \E x \in Range(down[w]) : x.code = "CREATE" /\ x.port = p

\* Rules ban for whole IPs, and masters that act at the same time only ban.
Lawful(x) == /\ Rules /\ x.code = "BANIP" => x.entry.dom = NoDomain
             /\ Crowd => x.code \notin {"UNBANIP", "UNBANIPS"}
Orderly == /\ \A w \in Workers : /\ \A x \in Range(down[w]) : Lawful(x)
                                 /\ \A x \in Range(up[w]) : Lawful(x)
           /\ \A m \in Masters : \A x \in news[m] : Lawful(x)

\* Lists are loaded after a master died.
Lagging == loading # {} => WorkersLag

\* Every worker will have the list of its master, with the bans of rules that
\* the master is yet to hear of.
Followed(w, p, e) ==
    /\ e \in mban[world.master[w]][p] => Will(w, p, e)
    /\ Will(w, p, e) => \/ e \in mban[world.master[w]][p]
                        \/ Rules /\ Msg("BANIP", p, e) \in Range(up[w])
Follows == ~WorkersLag => \A w \in Workers, p \in world.ports, e \in Entries : Followed(w, p, e)

\* Of masters that act at the same time each knows every ban, or is about to hear.
Known(m, p, e) == e \in mban[m][p] \/ Msg("BANIP", p, e) \in news[m]
Gathers == Crowd => /\ loading = {}
                    /\ \A m, n \in Running, p \in Ports, e \in Entries :
                          Known(m, p, e) => Known(n, p, e)

\* Where users wait there are lists G that all masters will have: what is under
\* way are the commands T of one change, which G has already.
Orders(w) == {x \in Range(down[w]) \cup Range(up[w]) : x.code \in Changes}
Commands(G, T) ==
  /\ \A c \in T : c \in Command /\ c.code \in Changes /\ Applied(G[c.port], c) = G[c.port]
  /\ \A c, d \in T : c.port = d.port => c = d
MastersAgree(G, T) ==
  /\ \A m \in Running : news[m] \subseteq T
  /\ \A m \in Running \ loading, p \in Ports :
        \/ mban[m][p] = G[p]
        \/ \E c \in news[m] : c.port = p /\ Applied(mban[m][p], c) = G[p]
WorkersAgree(G, T) ==
  \A w \in Workers : \A c \in Orders(w) : c \in T /\ mban[world.master[w]][c.port] = G[c.port]
StoreAgrees(G) ==
  /\ \A m \in Running : \A x \in Range(sets[m]) : x.bans = G[x.port]
  /\ \A p \in Ports : \/ stored[p] = G[p]
                      \/ \E m \in Running : \E x \in Range(sets[m]) : x.port = p
NobodyActs == /\ \A m \in Running : news[m] = {} /\ Range(sets[m]) = {}
              /\ \A w \in Workers : Orders(w) = {}
Agreed(G, T) ==
  /\ Commands(G, T) /\ MastersAgree(G, T) /\ WorkersAgree(G, T) /\ StoreAgrees(G)
  /\ loading # {} => NobodyActs
Settled == Calm => \E G \in Lists, T \in SUBSET Command : Agreed(G, T)

\* What a step keeps, in a coherent world.
Inv == /\ Base /\ Coherent(world)
       /\ Starts /\ Orderly /\ Lagging /\ Follows /\ Gathers /\ Settled

-----------------------------------------------------------------------------
\* What the workers of m are told.
LEMMA ToldRange ==
    ASSUME Base, NEW m, NEW t \in Seq(Command), Told(m, t)
    PROVE  \A w \in Workers : Range(down'[w]) = IF world.master[w] = m
                                                THEN Range(down[w]) \cup Range(t)
                                                ELSE Range(down[w])
<1> SUFFICES ASSUME NEW w \in Workers
             PROVE  Range(down'[w]) = IF world.master[w] = m THEN Range(down[w]) \cup Range(t)
                                      ELSE Range(down[w])
  OBVIOUS
<1>1. down[w] \in Seq(Command)
  BY Typed DEF Base
<1>2. Range(down[w] \o t) = Range(down[w]) \cup Range(t)
  BY <1>1, RangeConcat
<1> QED
  BY <1>2 DEF Told

\* CREATEs are on their way to a worker that has not created its ports.
LEMMA StartsStep == Base /\ Starts /\ Next => Starts'
<1> SUFFICES ASSUME Base, Starts, Next PROVE Starts'
  OBVIOUS
<1>1. /\ \A w \in Workers : down[w] \in Seq(Command)
  BY Typed DEF Base
<1>2. world' = world
  BY HistoryTyped DEF Base
<1>3. ASSUME UNCHANGED created, \A w \in Workers : Range(down[w]) \subseteq Range(down'[w])
      PROVE  Starts'
  BY <1>2, <1>3 DEF Starts
<1>4. ASSUME NEW m, NEW t, Change(t), Told(m, t)
      PROVE  \A w \in Workers : Range(down[w]) \subseteq Range(down'[w])
  BY <1>4, ToldRange DEF Change
<1>5. ASSUME NEW m, NEW t, ByUser(m, t) PROVE Starts'
  BY <1>3, <1>4, <1>5 DEF ByUser, Publishes
<1>6. ASSUME NEW w, NEW t, ByEvent(w, t) PROVE Starts'
  BY <1>3, <1>4, <1>6 DEF ByEvent, Publishes
<1>7. CASE ByConfig
  <2>1. PICK m \in Running, p \in world.ports : update_config(m, p)
    BY <1>7 DEF ByConfig
  <2> DEFINE c == Config(m, "UPDATE_CONFIG", p)
  <2>2. Told(m, <<c>>) /\ <<c>> \in Seq(Command) /\ UNCHANGED created
    BY <2>1, ConfigShape
  <2> HIDE DEF c
  <2>3. \A w \in Workers : Range(down[w]) \subseteq Range(down'[w])
    BY <2>2, ToldRange
  <2> QED
    BY <1>3, <2>2, <2>3
<1>8. CASE ByRule
  <2>1. PICK w \in Workers, p \in world.ports, e \in world.entries :
           rule_ban(w, p, e) \/ rule_ban_global(w, p, e.ip)
    BY <1>8 DEF ByRule
  <2>2. UNCHANGED <<created, down>>
    BY <2>1 DEF rule_ban, rule_ban_global
  <2> QED
    BY <1>3, <2>2
<1>9. ASSUME NEW w \in Workers, WorkerHandles(w) PROVE Starts'
  <2> DEFINE c == Head(down[w])
  <2>1. /\ down[w] # <<>>
        /\ created' = IF c.code = "CREATE"
                      THEN [created EXCEPT ![w] = created[w] \union {c.port}] ELSE created
        /\ down' = [down EXCEPT ![w] = Tail(down[w])]
    BY <1>9, HandlesShape
  <2>2. Range(down[w]) = {c} \cup Range(Tail(down[w]))
    BY <1>1, <2>1, RangeTail
  <2>3. down \in [Workers -> Seq(Command)] /\ created \in [Workers -> SUBSET Ports]
    BY DEF Base, TypeOK
  <2> HIDE DEF c
  <2> SUFFICES ASSUME NEW v \in Workers, NEW p \in world.ports, p \notin created'[v]
               PROVE  \E x \in Range(down'[v]) : x.code = "CREATE" /\ x.port = p
    BY <1>2 DEF Starts
  <2>4. p \notin created[v]
    BY <2>1, <2>3
  <2>5. PICK x \in Range(down[v]) : x.code = "CREATE" /\ x.port = p
    BY <2>4 DEF Starts
  <2>6. CASE v = w
    <3>1. x # c
      BY <2>1, <2>3, <2>5, <2>6
    <3> QED
      BY <2>1, <2>2, <2>3, <2>5, <2>6, <3>1
  <2>7. CASE v # w
    BY <2>1, <2>3, <2>5, <2>7
  <2> QED
    BY <2>6, <2>7
<1>10. ASSUME NEW list \in Lists, NEW p \in world.ports
       PROVE  \E x \in Range(Creates(list)) : x.code = "CREATE" /\ x.port = p
  <2>1. PICK i \in DOMAIN Creates(list) :
           Creates(list)[i] = [code |-> "CREATE", port |-> p, bans |-> list[p]]
    BY <1>10, CreatesShape DEF Base
  <2> QED
    BY <2>1 DEF Range
<1>11. ASSUME NEW W, NEW list \in Lists, Die(W, Creates(list)) PROVE Starts'
  <2> DEFINE creates == Creates(list)
  <2>1. creates \in Seq(Command) /\ Named(creates, world.ports)
    BY <1>11, CreatesShape DEF Base, Named
  <2>2. \A p \in world.ports : \E x \in Range(creates) : x.code = "CREATE" /\ x.port = p
    BY <1>10
  <2>3. Die(W, creates)
    BY <1>11
  <2> HIDE DEF creates
  <2>4. \A w \in Workers : IF w \in W THEN down'[w] = creates
                           ELSE created'[w] = created[w] /\ down'[w] = down[w]
    BY <2>1, <2>3, DieShape
  <2> QED
    BY <1>2, <2>2, <2>4 DEF Starts
<1>12. ASSUME NEW w \in Workers, Restart(w) PROVE Starts'
  BY <1>11, <1>12, RestartShape
<1>13. ASSUME NEW m \in Running, MasterHears(m) PROVE Starts'
  <2>1. PICK c \in news[m] : Change(<<c>>) /\ Told(m, <<c>>) /\ UNCHANGED created
    BY <1>13, HearsShape
  <2> QED
    BY <1>3, <1>4, <2>1
<1>14. ASSUME NEW m, RedisSets(m) \/ load_data(m) PROVE Starts'
  BY <1>3, <1>14 DEF RedisSets, load_data
<1>15. ASSUME NEW m \in Running, Reboot(m) PROVE Starts'
  <2> DEFINE none == [p \in Ports |-> {}]
  <2>1. none \in Lists /\ Die(WorkersOf(m), Creates(none))
    BY <1>15, RebootShape
  <2> HIDE DEF none
  <2> QED
    BY <1>11, <2>1
<1> QED
  BY <1>5, <1>6, <1>7, <1>8, <1>9, <1>12, <1>13, <1>14, <1>15, BaseSteps

\* Messages stay lawful.
LEMMA LawfulStays == ASSUME world' = world, NEW x PROVE Lawful(x)' <=> Lawful(x)
BY DEF Lawful, Rules, Crowd

\* A change of lawful commands keeps the order.
LEMMA PublishesOrderly ==
    ASSUME Base, Orderly, NEW m, NEW t, Publishes(m, t), world' = world,
           \A c \in Range(t) : Lawful(c), \A w \in Workers : \A x \in Range(up'[w]) : Lawful(x)
    PROVE  Orderly'
<1>1. Told(m, t) /\ t \in Seq(Command) /\ Informed(m, t)
  BY DEF Publishes, Change
<1>2. \A w \in Workers : Range(down'[w]) \subseteq Range(down[w]) \cup Range(t)
  BY <1>1, ToldRange
<1>3. \A n \in Masters : news'[n] \subseteq news[n] \cup Range(t)
  BY <1>1 DEF Informed
<1>4. \A w \in Workers : \A x \in Range(down'[w]) : Lawful(x)
  BY <1>2 DEF Orderly
<1>5. \A n \in Masters : \A x \in news'[n] : Lawful(x)
  BY <1>3 DEF Orderly
<1>6. \A x : Lawful(x)' <=> Lawful(x)
  BY LawfulStays
<1> QED
  BY <1>4, <1>5, <1>6 DEF Orderly

\* Every message that is sent is lawful.
LEMMA OrderlyStep == Base /\ Coherent(world) /\ Orderly /\ Next => Orderly'
<1> SUFFICES ASSUME Base, Coherent(world), Orderly, Next PROVE Orderly'
  OBVIOUS
<1>1. world' = world /\ \A x : Lawful(x)' <=> Lawful(x)
  BY HistoryTyped, LawfulStays DEF Base
<1>2. /\ down \in [Workers -> Seq(Command)] /\ up \in [Workers -> Seq(Event)]
      /\ news \in [Masters -> SUBSET Command]
      /\ \A w \in Workers : down[w] \in Seq(Command) /\ up[w] \in Seq(Event)
  BY DEF Base, TypeOK
<1>3. ASSUME \A w \in Workers : \A x \in Range(down'[w]) : Lawful(x),
             \A w \in Workers : \A x \in Range(up'[w]) : Lawful(x),
             \A m \in Masters : news'[m] \subseteq news[m]
      PROVE  Orderly'
  BY <1>1, <1>3 DEF Orderly
<1>4. ASSUME NEW e \in world.entries PROVE Rules => e.dom = NoDomain
  BY <1>4 DEF Coherent, Rules
<1>5. ASSUME NEW m, NEW t, ByUser(m, t) PROVE Orderly'
  <2>1. ASSUME NEW c \in Range(t) PROVE Lawful(c)
    <3>1. /\ c.code = "BANIP" => c.entry \in world.entries
          /\ c.code = "UNBANIP" => "unban" \in world.operations
          /\ c.code = "UNBANIPS" => "unbans" \in world.operations
      BY <1>5, <2>1 DEF ByUser
    <3>2. Crowd => "unban" \notin world.operations /\ "unbans" \notin world.operations
      BY DEF Coherent, Crowd
    <3> QED
      BY <1>4, <3>1, <3>2 DEF Lawful
  <2>2. Publishes(m, t) /\ up' = up
    BY <1>5 DEF ByUser
  <2> QED
    BY <1>1, <2>1, <2>2, PublishesOrderly DEF Orderly
<1>6. ASSUME NEW w \in Workers, NEW t, ByEvent(w, t) PROVE Orderly'
  <2>1. /\ Publishes(world.master[w], t) /\ up[w] # <<>> /\ up' = [up EXCEPT ![w] = Tail(up[w])]
        /\ \A c \in Range(t) : c = Head(up[w])
    BY <1>6 DEF ByEvent
  <2>2. Range(up[w]) = {Head(up[w])} \cup Range(Tail(up[w]))
    BY <1>2, <2>1, RangeTail
  <2>3. \A c \in Range(t) : Lawful(c)
    BY <2>1, <2>2 DEF Orderly
  <2>4. \A v \in Workers : \A x \in Range(up'[v]) : Lawful(x)
    BY <1>2, <2>1, <2>2 DEF Orderly
  <2> QED
    BY <1>1, <2>1, <2>3, <2>4, PublishesOrderly
<1>7. CASE ByConfig
  <2>1. PICK m \in Running, p \in world.ports : update_config(m, p)
    BY <1>7 DEF ByConfig
  <2> DEFINE c == Config(m, "UPDATE_CONFIG", p)
  <2>2. /\ Told(m, <<c>>) /\ <<c>> \in Seq(Command) /\ Range(<<c>>) = {c}
        /\ c.code = "UPDATE_CONFIG" /\ UNCHANGED <<up, news>>
    BY <2>1, ConfigShape
  <2> HIDE DEF c
  <2>3. \A w \in Workers : Range(down'[w]) \subseteq Range(down[w]) \cup {c}
    BY <2>2, ToldRange
  <2>4. Lawful(c)
    BY <2>2 DEF Lawful
  <2> QED
    BY <1>3, <2>2, <2>3, <2>4 DEF Orderly
<1>8. CASE ByRule
  <2>1. PICK w \in Workers, p \in world.ports, e \in world.entries :
           rule_ban(w, p, e) \/ rule_ban_global(w, p, e.ip)
    BY <1>8 DEF ByRule
  <2>2. PICK x \in Event :
           /\ up' = [up EXCEPT ![w] = Append(up[w], x)]
           /\ x = Msg("BANIP", p, e) \/ x.code = "BANIP_GLOBAL"
           /\ UNCHANGED <<down, redis>>
    BY <2>1, RuleShape
  <2>3. Lawful(x)
    BY <1>4, <2>2 DEF Lawful, Msg
  <2>4. Range(Append(up[w], x)) = Range(up[w]) \cup {x}
    BY <1>2, RangeAppend
  <2>5. \A v \in Workers : \A y \in Range(up'[v]) : Lawful(y)
    BY <1>2, <2>2, <2>3, <2>4 DEF Orderly
  <2> QED
    BY <1>3, <2>2, <2>5 DEF Orderly, redis
<1>9. ASSUME NEW w \in Workers, WorkerHandles(w) PROVE Orderly'
  <2> DEFINE c == Head(down[w])
             s == Echo(w, c)
  <2>1. /\ down[w] # <<>> /\ s \in Seq(Event) /\ Range(s) \subseteq {c}
        /\ up' = [up EXCEPT ![w] = up[w] \o s]
        /\ down' = [down EXCEPT ![w] = Tail(down[w])]
        /\ UNCHANGED redis
    BY <1>9, HandlesShape
  <2>2. Range(down[w]) = {c} \cup Range(Tail(down[w]))
    BY <1>2, <2>1, RangeTail
  <2> HIDE DEF c, s
  <2>3. Range(up[w] \o s) = Range(up[w]) \cup Range(s)
    BY <1>2, <2>1, RangeConcat
  <2>4. Lawful(c)
    BY <2>2 DEF Orderly
  <2>5. \A v \in Workers : \A x \in Range(up'[v]) : Lawful(x)
    BY <1>2, <2>1, <2>3, <2>4 DEF Orderly
  <2>6. \A v \in Workers : \A x \in Range(down'[v]) : Lawful(x)
    BY <1>2, <2>1, <2>2 DEF Orderly
  <2> QED
    BY <1>3, <2>1, <2>5, <2>6 DEF redis
<1>10. ASSUME NEW W, NEW list \in Lists, Die(W, Creates(list)),
              \A m \in Masters : news'[m] \subseteq news[m]
       PROVE  Orderly'
  <2> DEFINE creates == Creates(list)
  <2>1. /\ creates \in Seq(Command) /\ Named(creates, world.ports)
        /\ \A x \in Range(creates) : x.code = "CREATE"
    BY <1>10, CreatesShape DEF Base, Named
  <2>2. Die(W, creates)
    BY <1>10
  <2> HIDE DEF creates
  <2>3. \A w \in Workers : IF w \in W THEN down'[w] = creates /\ up'[w] = <<>>
                           ELSE down'[w] = down[w] /\ up'[w] = up[w]
    BY <2>1, <2>2, DieShape
  <2>4. \A x \in Range(creates) : Lawful(x)
    BY <2>1 DEF Lawful
  <2> QED
    BY <1>3, <1>10, <2>3, <2>4, RangeEmpty DEF Orderly
<1>11. ASSUME NEW w \in Workers, Restart(w) PROVE Orderly'
  BY <1>10, <1>11, RestartShape
<1>12. ASSUME NEW m \in Running, MasterHears(m) PROVE Orderly'
  <2>1. PICK c \in news[m] :
           /\ Change(<<c>>) /\ Told(m, <<c>>) /\ Range(<<c>>) = {c}
           /\ news' = [news EXCEPT ![m] = news[m] \ {c}] /\ up' = up
    BY <1>12, HearsShape
  <2>2. \A w \in Workers : Range(down'[w]) \subseteq Range(down[w]) \cup {c}
    BY <2>1, ToldRange DEF Change
  <2>3. Lawful(c)
    BY Typed DEF Orderly, Base
  <2>4. \A n \in Masters : news'[n] \subseteq news[n]
    BY <1>2, <2>1
  <2> QED
    BY <1>3, <2>1, <2>2, <2>3, <2>4 DEF Orderly
<1>13. ASSUME NEW m, RedisSets(m) \/ load_data(m) PROVE Orderly'
  BY <1>3, <1>13 DEF RedisSets, load_data, Orderly
<1>14. ASSUME NEW m \in Running, Reboot(m) PROVE Orderly'
  <2> DEFINE none == [p \in Ports |-> {}]
  <2>1. none \in Lists /\ Die(WorkersOf(m), Creates(none)) /\ news' = [news EXCEPT ![m] = {}]
    BY <1>14, RebootShape
  <2> HIDE DEF none
  <2>2. \A n \in Masters : news'[n] \subseteq news[n]
    BY <1>2, <2>1
  <2> QED
    BY <1>10, <2>1, <2>2
<1> QED
  BY <1>5, <1>6, <1>7, <1>8, <1>9, <1>11, <1>12, <1>13, <1>14, BaseSteps

\* Only a master that died loads its lists.
LEMMA LaggingStep == Base /\ Lagging /\ Next => Lagging'
<1> SUFFICES ASSUME Base, Lagging, Next PROVE Lagging'
  OBVIOUS
<1>1. world' = world /\ restarts \in Nat
  BY HistoryTyped DEF Base, TypeOK
<1>2. ASSUME loading' \subseteq loading, restarts' = restarts \/ restarts' > 0
      PROVE  Lagging'
  BY <1>1, <1>2 DEF Lagging, WorkersLag
<1>3. ASSUME NEW m, NEW t, ByUser(m, t) PROVE Lagging'
  BY <1>2, <1>3 DEF ByUser, Publishes, Informed
<1>4. ASSUME NEW w, NEW t, ByEvent(w, t) PROVE Lagging'
  BY <1>2, <1>4 DEF ByEvent, Publishes, Informed
<1>5. CASE ByConfig
  BY <1>2, <1>5 DEF ByConfig, update_config, Operation, redis
<1>6. CASE ByRule
  BY <1>2, <1>6 DEF ByRule, rule_ban, rule_ban_global, redis
<1>7. ASSUME NEW w \in Workers, WorkerHandles(w) PROVE Lagging'
  BY <1>2, <1>7, HandlesShape DEF redis
<1>8. ASSUME NEW w, Restart(w) PROVE Lagging'
  <2>1. restarts' = restarts + 1 /\ loading' = loading
    BY <1>8 DEF Restart, Die
  <2> QED
    BY <1>1, <1>2, <2>1
<1>9. ASSUME NEW m, MasterHears(m) \/ RedisSets(m) \/ load_data(m) PROVE Lagging'
  <2>1. loading' \subseteq loading /\ restarts' = restarts
    BY <1>9 DEF MasterHears, RedisSets, load_data
  <2> QED
    BY <1>2, <2>1
<1>10. ASSUME NEW m, Reboot(m) PROVE Lagging'
  <2>1. restarts' = restarts + 1 /\ "reboot" \in world.operations
    BY <1>10 DEF Reboot, Die
  <2> QED
    BY <1>1, <2>1 DEF Lagging, WorkersLag
<1> QED
  BY <1>3, <1>4, <1>5, <1>6, <1>7, <1>8, <1>9, <1>10, BaseSteps

\* In a crowd a change is a ban, and every master knows it at once.
LEMMA CrowdPublishes ==
    ASSUME Base, Orderly', Crowd, NEW m, NEW t, Publishes(m, t), world' = world,
           NEW n \in Running, NEW p \in Ports, NEW e \in Entries
    PROVE  Known(n, p, e)' <=> Known(n, p, e) \/ Msg("BANIP", p, e) \in Range(t)
<1>1. /\ m \in Running /\ Change(t) /\ Turned(m, t) /\ Informed(m, t) /\ Running \subseteq Masters
      /\ t \in Seq(Command) /\ \A c \in Range(t) : c.code \in Changes
  BY Typed DEF Publishes, Change, Base
<1>2. news'[n] = news[n] \cup Range(t)
  BY <1>1 DEF Informed, Crowd
<1>3. ASSUME NEW c \in Range(t)
      PROVE  /\ c.code = "BANIP" /\ c \in Command /\ c = Msg("BANIP", c.port, c.entry)
             /\ c.entry \in Entries
  <2>1. c \in Command
    BY <1>1, <1>3, RangeType
  <2>2. Lawful(c)'
    BY <1>1, <1>2, <1>3 DEF Orderly
  <2>3. c.code = "BANIP"
    BY <1>1, <1>3, <2>2 DEF Lawful, Crowd, Changes
  <2> QED
    BY <2>1, <2>3, CommandShape
<1>4. e \in mban'[n][p] <=> e \in mban[n][p] \/ (n = m /\ Msg("BANIP", p, e) \in Range(t))
  <2>1. CASE n # m
    BY <1>1, <2>1 DEF Turned
  <2>2. CASE n = m
    <3>1. mban[m][p] \in SUBSET Entries
      BY <1>1, Typed DEF Base
    <3>2. ASSUME NEW c \in Range(t), c.port = p
          PROVE  mban'[m][p] = mban[m][p] \union {c.entry}
      <4>1. mban'[m][p] = Applied(mban[m][p], c)
        BY <1>1, <3>2 DEF Turned
      <4>2. c \in Command /\ c.code \in Changes /\ c.code = "BANIP"
        BY <1>3, <3>2 DEF Changes
      <4> QED
        BY <3>1, <4>1, <4>2, AppliedShape
    <3>3. Msg("BANIP", p, e).port = p /\ Msg("BANIP", p, e).entry = e
      BY DEF Msg
    <3>4. CASE mban'[m][p] = mban[m][p]
      BY <2>2, <3>2, <3>3, <3>4
    <3>5. ASSUME NEW c \in Range(t), c.port = p
          PROVE  e \in mban'[m][p] <=> e \in mban[m][p] \/ Msg("BANIP", p, e) \in Range(t)
      <4>1. mban'[m][p] = mban[m][p] \union {c.entry} /\ c = Msg("BANIP", p, c.entry)
        BY <1>3, <3>2, <3>5
      <4>2. Msg("BANIP", p, e) \in Range(t) => e \in mban'[m][p]
        BY <3>2, <3>3
      <4> QED
        BY <3>5, <4>1, <4>2
    <3> QED
      BY <1>1, <2>2, <3>4, <3>5 DEF Turned
  <2> QED
    BY <2>1, <2>2
<1> QED
  BY <1>2, <1>4 DEF Known

\* A master that hears of a ban knows what it knew.
LEMMA CrowdHears ==
    ASSUME Base, Orderly, Crowd, NEW m \in Running, MasterHears(m),
           NEW n \in Running, NEW p \in Ports, NEW e \in Entries
    PROVE  Known(n, p, e)' <=> Known(n, p, e)
<1>1. PICK c \in news[m] :
         /\ c \in Command /\ c.code \in Changes /\ Turned(m, <<c>>) /\ Range(<<c>>) = {c}
         /\ news' = [news EXCEPT ![m] = news[m] \ {c}]
  BY HearsShape
<1>2. m \in Masters /\ n \in Masters /\ news \in [Masters -> SUBSET Command]
  BY Typed DEF Base, TypeOK
<1>3. c.code = "BANIP" /\ c = Msg("BANIP", c.port, c.entry)
  <2>1. Lawful(c)
    BY <1>1, <1>2 DEF Orderly
  <2>2. c.code = "BANIP"
    BY <1>1, <2>1 DEF Lawful, Crowd, Changes
  <2> QED
    BY <1>1, <2>2, CommandShape
<1>4. CASE n # m
  BY <1>1, <1>2, <1>4 DEF Known, Turned
<1>5. CASE n = m
  <2>1. mban[m][p] \in SUBSET Entries
    BY <1>2, Typed DEF Base
  <2>2. mban'[m][p] = IF p = c.port THEN mban[m][p] \union {c.entry} ELSE mban[m][p]
    <3>1. CASE p = c.port
      <4>1. mban'[m][p] = Applied(mban[m][p], c)
        BY <1>1, <3>1 DEF Turned
      <4> QED
        BY <1>1, <1>3, <2>1, <3>1, <4>1, AppliedShape
    <3>2. CASE p # c.port
      BY <1>1, <3>2 DEF Turned
    <3> QED
      BY <3>1, <3>2
  <2>3. news'[m] = news[m] \ {c}
    BY <1>1, <1>2
  <2>4. Msg("BANIP", p, e) = c <=> p = c.port /\ e = c.entry
    <3>1. Msg("BANIP", p, e).port = p /\ Msg("BANIP", p, e).entry = e
      BY DEF Msg
    <3> QED
      BY <1>3, <3>1
  <2> QED
    BY <1>1, <1>5, <2>2, <2>3, <2>4 DEF Known
<1> QED
  BY <1>4, <1>5

\* All masters know the same.
LEMMA GathersStep ==
    Base /\ Coherent(world) /\ Orderly /\ Orderly' /\ Gathers /\ Next => Gathers'
<1> SUFFICES ASSUME Base, Coherent(world), Orderly, Orderly', Gathers, Next PROVE Gathers'
  OBVIOUS
<1> DEFINE Good == /\ loading' = {}
                   /\ \A m, n \in Running, p \in Ports, e \in Entries :
                         Known(m, p, e)' => Known(n, p, e)'
<1> SUFFICES ASSUME Crowd PROVE Good
  <2>1. world' = world /\ Running' = Running
    BY HistoryTyped, SameWorld DEF Base
  <2> QED
    BY <2>1 DEF Gathers, Crowd
<1>1. /\ loading = {} /\ world' = world
      /\ \A m, n \in Running, p \in Ports, e \in Entries : Known(m, p, e) => Known(n, p, e)
  BY HistoryTyped DEF Gathers, Base
<1>2. ASSUME NEW m, NEW t, Publishes(m, t) PROVE Good
  <2>1. loading' = {}
    BY <1>1, <1>2 DEF Publishes, Informed
  <2>2. \A n \in Running, p \in Ports, e \in Entries :
           Known(n, p, e)' <=> Known(n, p, e) \/ Msg("BANIP", p, e) \in Range(t)
    BY <1>1, <1>2, CrowdPublishes
  <2> QED
    BY <1>1, <2>1, <2>2
<1>3. ASSUME UNCHANGED <<mban, news, loading>> PROVE Good
  BY <1>1, <1>3 DEF Known
<1>4. ASSUME NEW m, NEW t, ByUser(m, t) PROVE Good
  BY <1>2, <1>4 DEF ByUser
<1>5. ASSUME NEW w, NEW t, ByEvent(w, t) PROVE Good
  BY <1>2, <1>5 DEF ByEvent
<1>6. CASE ByConfig
  BY <1>3, <1>6 DEF ByConfig, update_config, Operation, redis
<1>7. CASE ByRule
  BY <1>3, <1>7 DEF ByRule, rule_ban, rule_ban_global, redis
<1>8. ASSUME NEW w \in Workers, WorkerHandles(w) PROVE Good
  BY <1>3, <1>8, HandlesShape DEF redis
<1>9. ASSUME NEW w, Restart(w) PROVE Good
  BY <1>3, <1>9 DEF Restart
<1>10. ASSUME NEW m \in Running, MasterHears(m) PROVE Good
  <2>1. \A n \in Running, p \in Ports, e \in Entries : Known(n, p, e)' <=> Known(n, p, e)
    BY <1>10, CrowdHears
  <2>2. loading' = loading
    BY <1>10 DEF MasterHears
  <2> QED
    BY <1>1, <2>1, <2>2
<1>11. ASSUME NEW m, RedisSets(m) PROVE Good
  BY <1>3, <1>11 DEF RedisSets
<1>12. ASSUME NEW m, load_data(m) PROVE Good
  BY <1>1, <1>12 DEF load_data
<1>13. ASSUME NEW m, Reboot(m) PROVE Good
  BY <1>13 DEF Reboot, Coherent, Crowd
<1> HIDE DEF Good
<1> QED
  BY <1>4, <1>5, <1>6, <1>7, <1>8, <1>9, <1>10, <1>11, <1>12, <1>13, BaseSteps

-----------------------------------------------------------------------------
(***************************************************************************)
(* Users who wait.                                                         *)
(***************************************************************************)

\* Commands that a master has applied change nothing.
LEMMA AppliedTwice ==
    ASSUME Base, NEW G \in Lists, NEW T \in SUBSET Command, Commands(G, T), MastersAgree(G, T),
           NEW m \in Running, m \notin loading, NEW c \in news[m]
    PROVE  /\ c \in T /\ Applied(mban[m][c.port], c) = G[c.port]
           /\ Applied(G[c.port], c) = G[c.port]
<1>1. c \in T /\ Applied(G[c.port], c) = G[c.port] /\ c.port \in Ports
  BY CommandShape DEF MastersAgree, Commands
<1>2. \/ mban[m][c.port] = G[c.port]
      \/ \E d \in news[m] : d.port = c.port /\ Applied(mban[m][c.port], d) = G[c.port]
  BY <1>1 DEF MastersAgree
<1>3. \A d \in news[m] : d.port = c.port => d = c
  BY <1>1 DEF MastersAgree, Commands
<1> QED
  BY <1>1, <1>2, <1>3

\* Steps that change nothing that is agreed on.
LEMMA AgreedStays ==
    ASSUME UNCHANGED <<world, mban, news, sets, stored, loading>>, NEW G, NEW T, Agreed(G, T),
           \A w \in Workers : Orders(w)' \subseteq Orders(w)
    PROVE  Agreed(G, T)'
<1>1. Running' = Running
  BY SameWorld
<1>2. Commands(G, T)'
  BY DEF Agreed, Commands
<1>3. MastersAgree(G, T)'
  BY <1>1 DEF Agreed, MastersAgree
<1>4. WorkersAgree(G, T)'
  BY DEF Agreed, WorkersAgree
<1>5. StoreAgrees(G)'
  BY <1>1 DEF Agreed, StoreAgrees
<1>6. (loading # {} => NobodyActs)'
  BY <1>1 DEF Agreed, NobodyActs
<1> QED
  BY <1>2, <1>3, <1>4, <1>5, <1>6 DEF Agreed

\* A user changes the lists when nothing is under way.
LEMMA AgreedUser ==
    ASSUME Base, Calm, NEW G \in Lists, NEW T \in SUBSET Command, Agreed(G, T),
           NEW m, NEW t, ByUser(m, t)
    PROVE  \E H \in Lists, U \in SUBSET Command : Agreed(H, U)'
<1>1. /\ Change(t) /\ Turned(m, t) /\ Told(m, t) /\ Informed(m, t)
      /\ m \in Running /\ m \in Masters /\ Running \subseteq Masters
      /\ UNCHANGED <<world, up>> /\ Quiet
      /\ t \in Seq(Command) /\ Range(t) \subseteq Command
  BY Typed, RangeType DEF ByUser, Publishes, Change, Calm, Base
<1>2. /\ \A n \in Masters : news[n] = {} /\ Range(sets[n]) = {}
      /\ \A w \in Workers : Range(down[w]) = {} /\ Range(up[w]) = {}
      /\ loading = {}
  BY <1>1, RangeEmpty DEF Quiet
<1>3. \A n \in Running, p \in Ports : mban[n][p] = G[p]
  BY <1>1, <1>2 DEF Agreed, MastersAgree
<1>4. \A p \in Ports : stored[p] = G[p]
  BY <1>1, <1>2 DEF Agreed, StoreAgrees
<1>5. PICK H \in Lists : H = mban'[m]
  BY <1>1 DEF Turned
<1> DEFINE U == Range(t)
<1>6. ASSUME NEW c \in U
      PROVE  /\ c \in Command /\ c.code \in Changes /\ c.port \in Ports
             /\ H[c.port] = Applied(G[c.port], c) /\ Applied(H[c.port], c) = H[c.port]
  <2>1. c \in Command /\ c.code \in Changes /\ c.port \in Ports
    BY <1>1, <1>6, CommandShape DEF Change
  <2>2. H[c.port] = Applied(mban[m][c.port], c)
    BY <1>1, <1>5, <1>6 DEF Turned
  <2>3. G[c.port] \in SUBSET Entries
    BY <2>1 DEF Lists
  <2> QED
    BY <1>1, <1>3, <2>1, <2>2, <2>3, AppliedShape
<1>7. \A c, d \in U : c.port = d.port => c = d
  BY <1>1 DEF Change, Range
<1>8. \A p \in Ports : H[p] = G[p] \/ \E c \in U : c.port = p
  BY <1>1, <1>3, <1>5 DEF Turned
<1>9. /\ \A n \in Running : news'[n] = U
      /\ \A n \in Running \ {m} : Range(sets'[n]) = {}
      /\ Range(sets'[m]) = {Record(m, c) : c \in U}
      /\ stored' = stored /\ loading' = {}
  <2>1. /\ \A n \in Running : news'[n] = news[n] \cup U
        /\ \A n \in Masters \ {m} : sets'[n] = sets[n]
        /\ Range(sets'[m]) = Range(sets[m]) \cup {Record(m, c) : c \in U}
        /\ stored' = stored /\ loading' = loading
    BY <1>1 DEF Informed, Calm
  <2>2. \A n \in Running : n \in Masters /\ news[n] = {} /\ Range(sets[n]) = {}
    BY <1>1, <1>2
  <2> HIDE DEF U
  <2> QED
    BY <1>1, <1>2, <2>1, <2>2
<1>10. \A w \in Workers : Orders(w)' = IF world.master[w] = m THEN U ELSE {}
  <2> SUFFICES ASSUME NEW w \in Workers
               PROVE  Orders(w)' = IF world.master[w] = m THEN U ELSE {}
    OBVIOUS
  <2>1. Range(down'[w]) = IF world.master[w] = m THEN U ELSE {}
    <3>1. Range(down'[w]) = IF world.master[w] = m THEN Range(down[w]) \cup U ELSE Range(down[w])
      BY <1>1, ToldRange
    <3>2. Range(down[w]) = {}
      BY <1>2
    <3> QED
      BY <3>1, <3>2
  <2>2. Range(up'[w]) = {}
    BY <1>1, <1>2
  <2> QED
    BY <1>6, <2>1, <2>2 DEF Orders
<1>11. Running' = Running
  BY <1>1, SameWorld
<1> HIDE DEF U
<1>12. U \in SUBSET Command
  BY <1>6
<1>13. Commands(H, U)'
  BY <1>6, <1>7 DEF Commands
<1>14. MastersAgree(H, U)'
  <2>1. ASSUME NEW n \in Running, NEW p \in Ports
        PROVE  \/ mban'[n][p] = H[p]
               \/ \E c \in news'[n] : c.port = p /\ Applied(mban'[n][p], c) = H[p]
    <3>1. CASE n = m
      BY <1>5, <3>1
    <3>2. CASE n # m
      <4>1. mban'[n][p] = G[p]
        BY <1>1, <1>3, <2>1, <3>2 DEF Turned
      <4> QED
        BY <1>6, <1>8, <1>9, <2>1, <4>1
    <3> QED
      BY <3>1, <3>2
  <2> QED
    BY <1>9, <1>11, <2>1 DEF MastersAgree
<1>15. WorkersAgree(H, U)'
  BY <1>1, <1>5, <1>10 DEF WorkersAgree
<1>16. StoreAgrees(H)'
  <2>1. \A x \in Range(sets'[m]) : x.bans = H[x.port]
    BY <1>5, <1>9 DEF Record
  <2>2. \A p \in Ports : (\E c \in U : c.port = p) => \E x \in Range(sets'[m]) : x.port = p
    <3>1. \A c \in U : Record(m, c) \in Range(sets'[m])
      BY <1>9
    <3>2. \A c \in U : Record(m, c).port = c.port
      BY DEF Record
    <3> QED
      BY <3>1, <3>2
  <2>3. \A p \in Ports : stored'[p] = G[p]
    BY <1>4, <1>9
  <2>4. \A n \in Running : \A x \in Range(sets'[n]) : x.bans = H[x.port]
    BY <1>9, <2>1
  <2>5. \A p \in Ports : \/ stored'[p] = H[p]
                         \/ \E n \in Running : \E x \in Range(sets'[n]) : x.port = p
    BY <1>1, <1>8, <2>2, <2>3
  <2> QED
    BY <1>11, <2>4, <2>5 DEF StoreAgrees
<1>17. Agreed(H, U)'
  BY <1>9, <1>13, <1>14, <1>15, <1>16 DEF Agreed
<1> QED
  BY <1>12, <1>17

\* An event is news to nobody.
LEMMA AgreedEvent ==
    ASSUME Base, Calm, NEW G \in Lists, NEW T \in SUBSET Command, Agreed(G, T),
           NEW w \in Workers, NEW t, ByEvent(w, t)
    PROVE  Agreed(G, T)'
<1> DEFINE m == world.master[w]
           x == Head(up[w])
<1>1. /\ Change(t) /\ Turned(m, t) /\ Told(m, t) /\ Informed(m, t)
      /\ m \in Running /\ m \in Masters /\ Running \subseteq Masters
      /\ world' = world /\ up[w] # <<>> /\ up' = [up EXCEPT ![w] = Tail(up[w])]
      /\ t \in Seq(Command) /\ Range(t) \subseteq Command
      /\ \A c \in Range(t) : c = x
      /\ up \in [Workers -> Seq(Event)]
  BY Typed, RangeType DEF ByEvent, Publishes, Change, Base, TypeOK
<1>2. /\ Commands(G, T) /\ MastersAgree(G, T) /\ WorkersAgree(G, T) /\ StoreAgrees(G)
      /\ loading # {} => NobodyActs
  BY DEF Agreed
<1>3. Range(up[w]) = {x} \cup Range(Tail(up[w]))
  BY <1>1, RangeTail
<1> HIDE DEF x
<1>4. \A c \in Range(t) : /\ c \in Orders(w) /\ c \in T /\ c.port \in Ports
                          /\ mban[m][c.port] = G[c.port]
                          /\ Applied(G[c.port], c) = G[c.port]
  <2> SUFFICES ASSUME NEW c \in Range(t)
               PROVE  /\ c \in Orders(w) /\ c \in T /\ c.port \in Ports
                      /\ mban[m][c.port] = G[c.port] /\ Applied(G[c.port], c) = G[c.port]
    OBVIOUS
  <2>1. c \in Orders(w)
    BY <1>1, <1>3 DEF Orders, Change
  <2>2. c \in T /\ mban[m][c.port] = G[c.port]
    BY <1>2, <2>1 DEF WorkersAgree
  <2> QED
    BY <1>1, <1>2, <2>1, <2>2, CommandShape DEF Commands
<1>5. \A n \in Running, p \in Ports : mban'[n][p] = mban[n][p]
  <2> SUFFICES ASSUME NEW n \in Running, NEW p \in Ports PROVE mban'[n][p] = mban[n][p]
    OBVIOUS
  <2>1. CASE n # m
    BY <1>1, <2>1 DEF Turned
  <2>2. CASE n = m
    <3>1. ASSUME NEW c \in Range(t), c.port = p PROVE mban'[m][p] = mban[m][p]
      <4>1. mban'[m][p] = Applied(mban[m][p], c)
        BY <1>1, <3>1 DEF Turned
      <4> QED
        BY <1>4, <3>1, <4>1
    <3>2. mban'[m][p] = mban[m][p] \/ \E c \in Range(t) : c.port = p
      BY <1>1 DEF Turned
    <3> QED
      BY <2>2, <3>1, <3>2
  <2> QED
    BY <2>1, <2>2
<1>6. /\ \A n \in Running : news'[n] = news[n] \cup Range(t)
      /\ \A n \in Running \ {m} : sets'[n] = sets[n]
      /\ Range(sets'[m]) = Range(sets[m]) \cup {Record(m, c) : c \in Range(t)}
      /\ stored' = stored /\ loading' = loading
  BY <1>1 DEF Informed, Calm
<1>7. \A v \in Workers : Orders(v)' \subseteq Orders(v) \cup (IF world.master[v] = m THEN Range(t) ELSE {})
  <2> SUFFICES ASSUME NEW v \in Workers
               PROVE  Orders(v)' \subseteq Orders(v) \cup (IF world.master[v] = m THEN Range(t) ELSE {})
    OBVIOUS
  <2>1. Range(down'[v]) = IF world.master[v] = m THEN Range(down[v]) \cup Range(t) ELSE Range(down[v])
    BY <1>1, ToldRange
  <2>2. Range(up'[v]) \subseteq Range(up[v])
    BY <1>1, <1>3
  <2> QED
    BY <2>1, <2>2 DEF Orders
<1>8. Running' = Running
  BY <1>1, SameWorld
<1> HIDE DEF m
<1>9. Commands(G, T)'
  BY <1>2 DEF Commands
<1>10. MastersAgree(G, T)'
  BY <1>2, <1>4, <1>5, <1>6, <1>8 DEF MastersAgree
<1>11. WorkersAgree(G, T)'
  <2> SUFFICES ASSUME NEW v \in Workers, NEW c \in Orders(v)'
               PROVE  c \in T /\ mban'[world.master[v]][c.port] = G[c.port]
    BY <1>1 DEF WorkersAgree
  <2>1. c \in T /\ mban[world.master[v]][c.port] = G[c.port]
    BY <1>2, <1>4, <1>7 DEF WorkersAgree
  <2>2. c.port \in Ports /\ world.master[v] \in Running
    BY <2>1, CommandShape, Typed DEF Base
  <2> QED
    BY <1>5, <2>1, <2>2
<1>12. StoreAgrees(G)'
  <2>1. \A c \in Range(t) : Record(m, c).bans = G[Record(m, c).port]
    BY <1>1, <1>4, <1>5 DEF Record
  <2>2. \A n \in Running : \A y \in Range(sets'[n]) : y.bans = G[y.port]
    <3> HIDE DEF Record
    <3> QED
      BY <1>2, <1>6, <2>1 DEF StoreAgrees
  <2>3. \A n \in Running : Range(sets[n]) \subseteq Range(sets'[n])
    BY <1>6
  <2>4. \A p \in Ports : \/ stored'[p] = G[p]
                         \/ \E n \in Running : \E y \in Range(sets'[n]) : y.port = p
    BY <1>2, <1>6, <2>3 DEF StoreAgrees
  <2> QED
    BY <1>8, <2>2, <2>4 DEF StoreAgrees
<1>13. (loading # {} => NobodyActs)'
  <2> SUFFICES ASSUME loading # {} PROVE NobodyActs'
    BY <1>6
  <2>1. NobodyActs /\ Range(t) = {}
    BY <1>2, <1>4 DEF NobodyActs
  <2> QED
    BY <1>6, <1>7, <1>8, <2>1 DEF NobodyActs
<1> QED
  BY <1>9, <1>10, <1>11, <1>12, <1>13 DEF Agreed

\* A master hears of a change.
LEMMA AgreedHears ==
    ASSUME Base, Calm, NEW G \in Lists, NEW T \in SUBSET Command, Agreed(G, T),
           NEW m \in Running, MasterHears(m)
    PROVE  Agreed(G, T)'
<1>1. PICK c \in news[m] :
         /\ c \in Command /\ c.code \in Changes /\ <<c>> \in Seq(Command)
         /\ Turned(m, <<c>>) /\ Told(m, <<c>>) /\ Range(<<c>>) = {c}
         /\ news' = [news EXCEPT ![m] = news[m] \ {c}]
         /\ UNCHANGED <<world, wban, created, up, sets, stored, loading, restarts>>
  BY HearsShape DEF Change
<1>2. /\ Commands(G, T) /\ MastersAgree(G, T) /\ WorkersAgree(G, T) /\ StoreAgrees(G)
      /\ loading # {} => NobodyActs
  BY DEF Agreed
<1>3. loading = {} /\ m \in Masters /\ Running \subseteq Masters
  BY <1>1, <1>2, Typed DEF NobodyActs, Base
<1>4. /\ c \in T /\ Applied(mban[m][c.port], c) = G[c.port] /\ c.port \in Ports
      /\ Applied(G[c.port], c) = G[c.port]
  BY <1>1, <1>2, <1>3, AppliedTwice, CommandShape
<1>5. \A n \in Running, p \in Ports :
         mban'[n][p] = IF n = m /\ p = c.port THEN G[p] ELSE mban[n][p]
  <2> SUFFICES ASSUME NEW n \in Running, NEW p \in Ports
               PROVE  mban'[n][p] = IF n = m /\ p = c.port THEN G[p] ELSE mban[n][p]
    OBVIOUS
  <2>1. CASE n # m
    BY <1>1, <1>3, <2>1 DEF Turned
  <2>2. CASE n = m /\ p = c.port
    <3>1. mban'[m][c.port] = Applied(mban[m][c.port], c)
      BY <1>1 DEF Turned
    <3> QED
      BY <1>4, <2>2, <3>1
  <2>3. CASE n = m /\ p # c.port
    BY <1>1, <2>3 DEF Turned
  <2> QED
    BY <2>1, <2>2, <2>3
<1>6. \A n \in Running : news'[n] = IF n = m THEN news[m] \ {c} ELSE news[n]
  <2>1. news \in [Masters -> SUBSET Command]
    BY DEF Base, TypeOK
  <2> QED
    BY <1>1, <1>3, <2>1
<1>7. \A v \in Workers : Orders(v)' \subseteq Orders(v) \cup (IF world.master[v] = m THEN {c} ELSE {})
  <2> SUFFICES ASSUME NEW v \in Workers
               PROVE  Orders(v)' \subseteq Orders(v) \cup (IF world.master[v] = m THEN {c} ELSE {})
    OBVIOUS
  <2>1. Range(down'[v]) = IF world.master[v] = m THEN Range(down[v]) \cup {c} ELSE Range(down[v])
    <3>1. Range(down'[v]) = IF world.master[v] = m THEN Range(down[v]) \cup Range(<<c>>)
                            ELSE Range(down[v])
      BY <1>1, ToldRange
    <3> QED
      BY <1>1, <3>1
  <2> QED
    BY <1>1, <2>1 DEF Orders
<1>8. Running' = Running
  BY <1>1, SameWorld
<1>9. Commands(G, T)'
  BY <1>2 DEF Commands
<1>10. MastersAgree(G, T)'
  <2>1. ASSUME NEW n \in Running, NEW p \in Ports
        PROVE  \/ mban'[n][p] = G[p]
               \/ \E d \in news'[n] : d.port = p /\ Applied(mban'[n][p], d) = G[p]
    <3>1. CASE n = m /\ p = c.port
      BY <1>5, <3>1
    <3>2. CASE ~(n = m /\ p = c.port)
      <4>1. mban'[n][p] = mban[n][p]
        BY <1>5, <3>2
      <4>2. \A d \in news[n] : d.port = p => d \in news'[n]
        BY <1>6, <3>2
      <4>3. \/ mban[n][p] = G[p]
            \/ \E d \in news[n] : d.port = p /\ Applied(mban[n][p], d) = G[p]
        BY <1>2, <1>3 DEF MastersAgree
      <4> QED
        BY <4>1, <4>2, <4>3
    <3> QED
      BY <3>1, <3>2
  <2>2. \A n \in Running : news'[n] \subseteq T
    BY <1>2, <1>6 DEF MastersAgree
  <2> QED
    BY <1>8, <2>1, <2>2 DEF MastersAgree
<1>11. WorkersAgree(G, T)'
  <2> SUFFICES ASSUME NEW v \in Workers, NEW d \in Orders(v)'
               PROVE  d \in T /\ mban'[world.master[v]][d.port] = G[d.port]
    BY <1>1 DEF WorkersAgree
  <2>1. world.master[v] \in Running
    BY Typed DEF Base
  <2>2. CASE d = c /\ world.master[v] = m
    BY <1>4, <1>5, <2>1, <2>2
  <2>3. CASE d \in Orders(v)
    <3>1. d \in T /\ mban[world.master[v]][d.port] = G[d.port]
      BY <1>2, <2>3 DEF WorkersAgree
    <3>2. d.port \in Ports
      BY <3>1, CommandShape
    <3> QED
      BY <1>5, <2>1, <3>1, <3>2
  <2> QED
    BY <1>7, <2>2, <2>3
<1>12. StoreAgrees(G)'
  BY <1>1, <1>2, <1>8 DEF StoreAgrees
<1>13. (loading # {} => NobodyActs)'
  BY <1>1, <1>3
<1> QED
  BY <1>9, <1>10, <1>11, <1>12, <1>13 DEF Agreed

\* Redis stores a list that the masters have or will have.
LEMMA AgreedSets ==
    ASSUME Base, NEW G \in Lists, NEW T \in SUBSET Command, Agreed(G, T),
           NEW m \in Running, RedisSets(m)
    PROVE  Agreed(G, T)'
<1> DEFINE x == Head(sets[m])
<1>1. /\ m \in Masters /\ x.port \in Ports
      /\ stored' = [stored EXCEPT ![x.port] = x.bans]
      /\ sets' = [sets EXCEPT ![m] = Tail(sets[m])]
      /\ Range(sets[m]) = {x} \cup Range(sets'[m])
      /\ UNCHANGED <<world, mban, wban, created, down, up, news, loading, restarts>>
  BY SetsShape
<1> HIDE DEF x
<1>2. /\ Commands(G, T) /\ MastersAgree(G, T) /\ WorkersAgree(G, T) /\ StoreAgrees(G)
      /\ loading # {} => NobodyActs
  BY DEF Agreed
<1>3. /\ Running' = Running /\ Running \subseteq Masters
      /\ sets \in [Masters -> Seq(Stored)] /\ stored \in Lists
  BY <1>1, SameWorld, Typed DEF Base, TypeOK, Lists
<1>4. \A n \in Running : Range(sets'[n]) \subseteq Range(sets[n])
  BY <1>1, <1>3
<1>5. Commands(G, T)'
  BY <1>2 DEF Commands
<1>6. MastersAgree(G, T)'
  BY <1>1, <1>2, <1>3 DEF MastersAgree
<1>7. WorkersAgree(G, T)'
  BY <1>1, <1>2 DEF WorkersAgree, Orders
<1>8. StoreAgrees(G)'
  <2>1. x.bans = G[x.port]
    BY <1>1, <1>2 DEF StoreAgrees
  <2>2. \A n \in Running : \A y \in Range(sets'[n]) : y.bans = G[y.port]
    BY <1>2, <1>4 DEF StoreAgrees
  <2>3. ASSUME NEW p \in Ports
        PROVE  stored'[p] = G[p] \/ \E n \in Running : \E y \in Range(sets'[n]) : y.port = p
    <3>1. CASE p = x.port
      BY <1>1, <1>3, <2>1, <3>1 DEF Lists
    <3>2. CASE p # x.port /\ stored[p] = G[p]
      BY <1>1, <1>3, <3>2 DEF Lists
    <3>3. ASSUME p # x.port, NEW n \in Running, NEW y \in Range(sets[n]), y.port = p
          PROVE  \E k \in Running : \E z \in Range(sets'[k]) : z.port = p
      <4>1. y \in Range(sets'[n])
        <5>1. CASE n = m
          BY <1>1, <3>3, <5>1
        <5>2. CASE n # m
          BY <1>1, <1>3, <3>3, <5>2
        <5> QED
          BY <5>1, <5>2
      <4> QED
        BY <3>3, <4>1
    <3>4. stored[p] = G[p] \/ \E n \in Running : \E y \in Range(sets[n]) : y.port = p
      BY <1>2 DEF StoreAgrees
    <3> QED
      BY <3>1, <3>2, <3>3, <3>4
  <2> QED
    BY <1>3, <2>2, <2>3 DEF StoreAgrees
<1>9. (loading # {} => NobodyActs)'
  <2> SUFFICES ASSUME loading # {} PROVE NobodyActs'
    BY <1>1
  <2> QED
    BY <1>1, <1>2, <1>3, <1>4 DEF NobodyActs, Orders
<1> QED
  BY <1>5, <1>6, <1>7, <1>8, <1>9 DEF Agreed

\* A master that starts loads the list that the others have.
LEMMA AgreedLoad ==
    ASSUME Base, NEW G \in Lists, NEW T \in SUBSET Command, Agreed(G, T),
           NEW m \in Running, load_data(m)
    PROVE  Agreed(G, T)'
<1>1. /\ m \in loading /\ loading' = loading \ {m} /\ mban' = [mban EXCEPT ![m] = stored]
      /\ UNCHANGED <<world, wban, created, down, up, news, sets, stored>>
  BY DEF load_data
<1>2. /\ Commands(G, T) /\ MastersAgree(G, T) /\ StoreAgrees(G) /\ NobodyActs
  BY <1>1 DEF Agreed
<1>3. /\ Running' = Running /\ Running \subseteq Masters /\ mban \in [Masters -> Lists]
  BY <1>1, SameWorld, Typed DEF Base, TypeOK, Lists
<1>4. \A p \in Ports : stored[p] = G[p]
  BY <1>2 DEF StoreAgrees, NobodyActs
<1>5. Commands(G, T)'
  BY <1>2 DEF Commands
<1>6. MastersAgree(G, T)'
  BY <1>1, <1>2, <1>3, <1>4 DEF MastersAgree
<1>7. NobodyActs'
  BY <1>1, <1>2, <1>3 DEF NobodyActs, Orders
<1>8. WorkersAgree(G, T)'
  BY <1>7 DEF WorkersAgree, NobodyActs
<1>9. StoreAgrees(G)'
  BY <1>1, <1>2, <1>3 DEF StoreAgrees
<1> QED
  BY <1>5, <1>6, <1>7, <1>8, <1>9 DEF Agreed

\* What CREATEs are not orders.
LEMMA DieOrders ==
    ASSUME Base, NEW W, NEW list \in Lists, Die(W, Creates(list))
    PROVE  \A w \in Workers : Orders(w)' \subseteq IF w \in W THEN {} ELSE Orders(w)
<1> DEFINE creates == Creates(list)
<1>1. /\ creates \in Seq(Command) /\ Named(creates, world.ports) /\ Die(W, creates)
      /\ \A x \in Range(creates) : x.code = "CREATE"
  BY CreatesShape DEF Base, Named
<1> HIDE DEF creates
<1>2. \A w \in Workers : IF w \in W THEN up'[w] = <<>> /\ down'[w] = creates
                         ELSE up'[w] = up[w] /\ down'[w] = down[w]
  BY <1>1, DieShape
<1>3. \A w \in Workers : w \in W => \A x \in Range(down'[w]) \cup Range(up'[w]) : x.code = "CREATE"
  BY <1>1, <1>2, RangeEmpty
<1>4. \A w \in Workers : w \notin W => Orders(w)' = Orders(w)
  BY <1>2 DEF Orders
<1> QED
  BY <1>3, <1>4 DEF Orders, Changes

\* A master dies when nothing is under way.
LEMMA AgreedReboot ==
    ASSUME Base, Calm, NEW G \in Lists, NEW T \in SUBSET Command, Agreed(G, T),
           NEW m \in Running, Reboot(m)
    PROVE  Agreed(G, T)'
<1> DEFINE none == [p \in Ports |-> {}]
<1>1. /\ none \in Lists /\ m \in Masters /\ Die(WorkersOf(m), Creates(none)) /\ Quiet
      /\ mban' = [mban EXCEPT ![m] = none]
      /\ news' = [news EXCEPT ![m] = {}]
      /\ sets' = [sets EXCEPT ![m] = <<>>]
      /\ loading' = loading \union {m}
  BY RebootShape DEF Calm
<1> HIDE DEF none
<1>2. /\ Commands(G, T) /\ MastersAgree(G, T) /\ StoreAgrees(G)
  BY DEF Agreed
<1>3. UNCHANGED <<world, stored>>
  BY <1>1 DEF Die
<1>4. /\ Running' = Running /\ Running \subseteq Masters /\ mban \in [Masters -> Lists]
      /\ news \in [Masters -> SUBSET Command] /\ sets \in [Masters -> Seq(Stored)]
  BY <1>3, SameWorld, Typed DEF Base, TypeOK, Lists
<1>5. /\ \A n \in Running : news[n] = {} /\ Range(sets[n]) = {} /\ loading = {}
      /\ \A w \in Workers : Orders(w) = {}
  BY <1>1, <1>4, RangeEmpty DEF Quiet, Orders
<1>6. \A n \in Running : news'[n] = {} /\ Range(sets'[n]) = {}
  BY <1>1, <1>4, <1>5, RangeEmpty
<1>7. \A w \in Workers : Orders(w)' = {}
  <2>1. \A w \in Workers : Orders(w)' \subseteq IF w \in WorkersOf(m) THEN {} ELSE Orders(w)
    BY <1>1, DieOrders
  <2> QED
    BY <1>5, <2>1
<1>8. NobodyActs'
  BY <1>4, <1>3, <1>6, <1>7 DEF NobodyActs
<1>9. Commands(G, T)'
  BY <1>2 DEF Commands
<1>10. MastersAgree(G, T)'
  BY <1>1, <1>2, <1>4, <1>5, <1>6 DEF MastersAgree
<1>11. WorkersAgree(G, T)'
  BY <1>7 DEF WorkersAgree
<1>12. StoreAgrees(G)'
  BY <1>2, <1>3, <1>4, <1>5, <1>6 DEF StoreAgrees
<1> QED
  BY <1>8, <1>9, <1>10, <1>11, <1>12 DEF Agreed

\* Steps of the workers change no list of a master.
LEMMA AgreedWorkers ==
    ASSUME Base, Calm, Coherent(world), NEW G \in Lists, NEW T \in SUBSET Command, Agreed(G, T),
           ByConfig \/ ByRule \/ \E w \in Workers : WorkerHandles(w) \/ Restart(w)
    PROVE  Agreed(G, T)'
<1>1. CASE ByConfig
  <2>1. PICK m \in Running, p \in world.ports : update_config(m, p)
    BY <1>1 DEF ByConfig
  <2> DEFINE c == Config(m, "UPDATE_CONFIG", p)
  <2>2. /\ Told(m, <<c>>) /\ <<c>> \in Seq(Command) /\ Range(<<c>>) = {c}
        /\ c.code = "UPDATE_CONFIG"
        /\ UNCHANGED <<world, mban, wban, created, up, news, sets, stored, loading, restarts>>
    BY <2>1, ConfigShape
  <2> HIDE DEF c
  <2>3. \A w \in Workers : Range(down'[w]) \subseteq Range(down[w]) \cup {c}
    BY <2>2, ToldRange
  <2>4. c.code \notin Changes
    BY <2>2 DEF Changes
  <2>5. \A w \in Workers : Orders(w)' \subseteq Orders(w)
    BY <2>2, <2>3, <2>4 DEF Orders
  <2> QED
    BY <2>2, <2>5, AgreedStays
<1>2. CASE ByRule
  <2>1. PICK w \in Workers, p \in world.ports, e \in world.entries :
           rule_ban(w, p, e) \/ rule_ban_global(w, p, e.ip)
    BY <1>2 DEF ByRule
  <2>2. "rule" \notin world.operations
    BY DEF Calm, Coherent
  <2>3. PICK x \in Event :
           /\ up' = [up EXCEPT ![w] = Append(up[w], x)] /\ x.code = "BANIP_GLOBAL"
           /\ UNCHANGED <<world, mban, created, down, redis, restarts>>
    BY <2>1, <2>2, RuleShape
  <2>4. up \in [Workers -> Seq(Event)] /\ Range(Append(up[w], x)) = Range(up[w]) \cup {x}
    BY RangeAppend DEF Base, TypeOK
  <2>5. x.code \notin Changes
    BY <2>3 DEF Changes
  <2>6. \A v \in Workers : Orders(v)' \subseteq Orders(v)
    BY <2>3, <2>4, <2>5 DEF Orders
  <2>7. UNCHANGED <<world, mban, news, sets, stored, loading>>
    BY <2>3 DEF redis
  <2> QED
    BY <2>6, <2>7, AgreedStays
<1>3. ASSUME NEW w \in Workers, WorkerHandles(w) PROVE Agreed(G, T)'
  <2> DEFINE c == Head(down[w])
             s == Echo(w, c)
  <2>1. /\ down[w] # <<>> /\ s \in Seq(Event) /\ Range(s) \subseteq {c}
        /\ up' = [up EXCEPT ![w] = up[w] \o s]
        /\ down' = [down EXCEPT ![w] = Tail(down[w])]
        /\ UNCHANGED <<world, mban, redis, restarts>>
    BY <1>3, HandlesShape
  <2>2. down \in [Workers -> Seq(Command)] /\ up \in [Workers -> Seq(Event)]
    BY DEF Base, TypeOK
  <2>3. Range(down[w]) = {c} \cup Range(Tail(down[w]))
    BY <2>1, <2>2, RangeTail
  <2> HIDE DEF c, s
  <2>4. Range(up[w] \o s) = Range(up[w]) \cup Range(s)
    BY <2>1, <2>2, RangeConcat
  <2>5. \A v \in Workers : Orders(v)' \subseteq Orders(v)
    BY <2>1, <2>2, <2>3, <2>4 DEF Orders
  <2>6. UNCHANGED <<world, mban, news, sets, stored, loading>>
    BY <2>1 DEF redis
  <2> QED
    BY <2>5, <2>6, AgreedStays
<1>4. ASSUME NEW w \in Workers, Restart(w) PROVE Agreed(G, T)'
  <2>1. /\ mban[world.master[w]] \in Lists /\ Die({w}, Creates(mban[world.master[w]]))
        /\ UNCHANGED <<mban, news, sets, loading>>
    BY <1>4, RestartShape
  <2>2. \A v \in Workers : Orders(v)' \subseteq IF v \in {w} THEN {} ELSE Orders(v)
    BY <2>1, DieOrders
  <2>3. UNCHANGED <<world, stored>>
    BY <2>1 DEF Die
  <2> QED
    BY <2>1, <2>2, <2>3, AgreedStays
<1> QED
  BY <1>1, <1>2, <1>3, <1>4

\* The masters stay on their way to the same lists.
LEMMA SettledStep == Base /\ Coherent(world) /\ Settled /\ Next => Settled'
<1> SUFFICES ASSUME Base, Coherent(world), Settled, Next, Calm
             PROVE  \E G \in Lists, T \in SUBSET Command : Agreed(G, T)'
  <2>1. Base /\ Next => world' = world
    BY HistoryTyped DEF Base
  <2> QED
    BY <2>1 DEF Settled, Calm, Lists, Command, Entries
<1>1. PICK G \in Lists, T \in SUBSET Command : Agreed(G, T)
  BY DEF Settled
<1>2. ASSUME NEW m, NEW t, ByUser(m, t)
      PROVE  \E H \in Lists, U \in SUBSET Command : Agreed(H, U)'
  BY <1>1, <1>2, AgreedUser
<1>3. ASSUME NEW w \in Workers, NEW t, ByEvent(w, t) PROVE Agreed(G, T)'
  BY <1>1, <1>3, AgreedEvent
<1>4. ASSUME NEW m \in Running, MasterHears(m) \/ RedisSets(m) \/ load_data(m) \/ Reboot(m)
      PROVE  Agreed(G, T)'
  BY <1>1, <1>4, AgreedHears, AgreedSets, AgreedLoad, AgreedReboot
<1>5. ASSUME ByConfig \/ ByRule \/ \E w \in Workers : WorkerHandles(w) \/ Restart(w)
      PROVE  Agreed(G, T)'
  BY <1>1, <1>5, AgreedWorkers
<1> QED
  BY <1>1, <1>2, <1>3, <1>4, <1>5, BaseSteps

-----------------------------------------------------------------------------
(***************************************************************************)
(* Workers.                                                                *)
(***************************************************************************)

\* What a worker will list when its master told it more.
LEMMA WillTold ==
    ASSUME Base, NEW m, NEW t \in Seq(Command), Told(m, t), UNCHANGED wban,
           NEW w \in Workers, NEW p, NEW e
    PROVE  Will(w, p, e)' <=>
             IF world.master[w] = m
             THEN \/ Closes(t, Decides(p, e), Grants(e))
                  \/ Free(t, Decides(p, e)) /\ Will(w, p, e)
             ELSE Will(w, p, e)
<1> DEFINE D == Decides(p, e)
           Y == Grants(e)
<1>1. down[w] \in Seq(Command)
  BY Typed DEF Base
<1>2. /\ Will(w, p, e) <=> Closes(down[w], D, Y) \/ (Free(down[w], D) /\ e \in wban[w][p])
      /\ Will(w, p, e)' <=> Closes(down'[w], D, Y) \/ (Free(down'[w], D) /\ e \in wban[w][p])
  BY DEF Will
<1> HIDE DEF D, Y
<1>3. /\ Free(down[w] \o t, D) <=> Free(down[w], D) /\ Free(t, D)
      /\ Closes(down[w] \o t, D, Y) <=> Closes(t, D, Y) \/ (Free(t, D) /\ Closes(down[w], D, Y))
  BY <1>1, DecidesConcat
<1>4. down'[w] = IF world.master[w] = m THEN down[w] \o t ELSE down[w]
  BY DEF Told
<1>5. CASE world.master[w] = m
  BY <1>2, <1>3, <1>4, <1>5 DEF D, Y
<1>6. CASE world.master[w] # m
  BY <1>2, <1>4, <1>6 DEF D, Y
<1> QED
  BY <1>5, <1>6

\* After a change either it decides, and does in the worker what it did in the
\* master, or it is about other bans.
LEMMA WillChange ==
    ASSUME Base, NEW m \in Masters, NEW t, Change(t), Turned(m, t), Told(m, t), UNCHANGED wban,
           NEW w \in Workers, world.master[w] = m, NEW p \in world.ports, NEW e \in Entries
    PROVE  \/ e \in mban'[m][p] <=> Will(w, p, e)'
           \/ /\ e \in mban'[m][p] <=> e \in mban[m][p]
              /\ Will(w, p, e)' <=> Will(w, p, e)
<1> DEFINE D == Decides(p, e)
           Y == Grants(e)
<1>1. /\ t \in Seq(Command) /\ Range(t) \subseteq Command /\ p \in Ports
      /\ \A c \in Range(t) : c.code \in Changes
      /\ \A i, j \in DOMAIN t : t[i].port = t[j].port => i = j
      /\ DOMAIN t \subseteq Nat /\ \A i \in DOMAIN t : t[i] \in Range(t)
  BY Typed, RangeType DEF Change, Base
<1>2. Will(w, p, e)' <=> Closes(t, D, Y) \/ (Free(t, D) /\ Will(w, p, e))
  BY <1>1, WillTold
<1>3. \A c \in D : c.port = p
  BY DEF Decides
<1>4. CASE \A c \in Range(t) : c \notin D
  <2>1. Free(t, D) /\ ~Closes(t, D, Y)
    BY <1>1, <1>4 DEF Free, Closes
  <2>2. Will(w, p, e)' <=> Will(w, p, e)
    BY <1>2, <2>1
  <2>3. ASSUME NEW c \in Range(t), c.port = p
        PROVE  e \in mban'[m][p] <=> e \in mban[m][p]
    <3>1. c \in Command /\ c \notin D /\ c.code \in Changes
      BY <1>1, <1>4, <2>3
    <3>2. c.code \in {"BANIP", "UNBANIP"} /\ c.entry # e
      BY <2>3, <3>1 DEF Decides
    <3>3. mban'[m][p] = Applied(mban[m][p], c)
      BY <2>3 DEF Turned
    <3>4. Applied(mban[m][p], c) \in {mban[m][p] \union {c.entry}, mban[m][p] \ {c.entry}}
      BY <3>2 DEF Applied
    <3> QED
      BY <3>2, <3>3, <3>4
  <2>4. mban'[m][p] = mban[m][p] \/ \E c \in Range(t) : c.port = p
    BY <1>1 DEF Turned
  <2> QED
    BY <2>2, <2>3, <2>4
<1>5. ASSUME NEW c \in Range(t), c \in D
      PROVE  e \in mban'[m][p] <=> Will(w, p, e)'
  <2>1. PICK i \in DOMAIN t : t[i] = c
    BY <1>1, <1>5, RangeType
  <2>2. \A j \in DOMAIN t : t[j] \in D => j = i
    BY <1>1, <1>3, <1>5, <2>1
  <2> HIDE DEF D, Y
  <2>3. ~Free(t, D) /\ (Closes(t, D, Y) <=> t[i] \in Y)
    BY <1>1, <1>5, <2>1, <2>2, DecidesOne
  <2>4. Will(w, p, e)' <=> c \in Y
    BY <1>2, <2>1, <2>3
  <2>5. /\ c \in Command /\ c.port = p /\ c.code \in Changes
        /\ c.code \in {"BANIP", "UNBANIP"} => c.entry = e
    BY <1>1, <1>5 DEF D, Decides
  <2>6. c \in Y <=> c.code = "BANIP"
    BY <2>5 DEF Y, Grants, Changes
  <2>7. mban'[m][p] = Applied(mban[m][p], c)
    BY <1>5, <2>5 DEF Turned
  <2>8. Applied(mban[m][p], c) = CASE c.code = "BANIP" -> mban[m][p] \union {c.entry}
                                   [] c.code = "UNBANIP" -> mban[m][p] \ {c.entry}
                                   [] c.code = "UNBANIPS" -> {}
    BY DEF Applied
  <2> QED
    BY <2>4, <2>5, <2>6, <2>7, <2>8 DEF Changes
<1> QED
  BY <1>4, <1>5

\* Workers follow a change of their master, provided that the bans of rules
\* stay on their way or are in the master's list.
LEMMA FollowsChange ==
    ASSUME Base, NEW m \in Masters, NEW t, Change(t), Turned(m, t), Told(m, t),
           UNCHANGED <<world, wban>>,
           NEW w \in Workers, NEW p \in world.ports, NEW e \in Entries, Followed(w, p, e),
           Rules /\ Msg("BANIP", p, e) \in Range(up[w]) =>
               Msg("BANIP", p, e) \in Range(up'[w]) \/ e \in mban'[world.master[w]][p]
    PROVE  Followed(w, p, e)'
<1>1. t \in Seq(Command) /\ Rules' = Rules /\ world.master[w] \in Masters
  BY Typed DEF Change, Rules, Base
<1>2. CASE world.master[w] = m
  <2>1. \/ e \in mban'[m][p] <=> Will(w, p, e)'
        \/ /\ e \in mban'[m][p] <=> e \in mban[m][p]
           /\ Will(w, p, e)' <=> Will(w, p, e)
    BY <1>2, WillChange
  <2> QED
    BY <1>1, <1>2, <2>1 DEF Followed
<1>3. CASE world.master[w] # m
  <2>1. Will(w, p, e)' <=> Will(w, p, e)
    BY <1>1, <1>3, WillTold
  <2>2. mban'[world.master[w]] = mban[world.master[w]]
    BY <1>1, <1>3 DEF Turned
  <2> QED
    BY <1>1, <2>1, <2>2 DEF Followed
<1> QED
  BY <1>2, <1>3

\* A user's change.
LEMMA FollowsUser ==
    ASSUME Base, NEW m, NEW t, ByUser(m, t),
           NEW w \in Workers, NEW p \in world.ports, NEW e \in Entries, Followed(w, p, e)
    PROVE  Followed(w, p, e)'
<1>1. /\ m \in Masters /\ Change(t) /\ Turned(m, t) /\ Told(m, t)
      /\ UNCHANGED <<world, wban, up>>
  BY Typed DEF ByUser, Publishes, Base
<1> QED
  BY <1>1, FollowsChange

\* A change of another master.
LEMMA FollowsHears ==
    ASSUME Base, NEW m \in Running, MasterHears(m),
           NEW w \in Workers, NEW p \in world.ports, NEW e \in Entries, Followed(w, p, e)
    PROVE  Followed(w, p, e)'
<1>1. PICK c \in news[m] : /\ Change(<<c>>) /\ Turned(m, <<c>>) /\ Told(m, <<c>>)
                           /\ UNCHANGED <<world, wban, up>>
  BY HearsShape
<1>2. m \in Masters
  BY Typed DEF Base
<1> DEFINE t == <<c>>
<1>3. Change(t) /\ Turned(m, t) /\ Told(m, t)
  BY <1>1
<1> HIDE DEF t
<1> QED
  BY <1>1, <1>2, <1>3, FollowsChange

\* An event: the ban of a rule, which is for a whole IP, is new to the master
\* or in its list.
LEMMA FollowsEvent ==
    ASSUME Base, Orderly, NEW v \in Workers, NEW t, ByEvent(v, t),
           NEW w \in Workers, NEW p \in world.ports, NEW e \in Entries, Followed(w, p, e)
    PROVE  Followed(w, p, e)'
<1> DEFINE m == world.master[v]
           x == Head(up[v])
           b == Msg("BANIP", p, e)
<1>1. /\ m \in Masters /\ Change(t) /\ Turned(m, t) /\ Told(m, t) /\ UNCHANGED <<world, wban>>
      /\ up[v] # <<>> /\ up' = [up EXCEPT ![v] = Tail(up[v])] /\ up \in [Workers -> Seq(Event)]
      /\ \A c \in Range(t) : c = x
      /\ x.code = "BANIP" => Has(mban[m][x.port], x.entry) \/ x \in Range(t)
  BY Typed DEF ByEvent, Publishes, Base, TypeOK
<1>2. Range(up[v]) = {x} \cup Range(Tail(up[v]))
  BY <1>1, RangeTail
<1>3. b.code = "BANIP" /\ b.port = p /\ b.entry = e /\ p \in Ports
  BY Typed DEF Msg, Base
<1> HIDE DEF m, x, b
<1>4. ASSUME Rules, b \in Range(up[w])
      PROVE  b \in Range(up'[w]) \/ e \in mban'[world.master[w]][p]
  <2>1. CASE w # v \/ b # x
    BY <1>1, <1>2, <1>4, <2>1
  <2>2. ASSUME w = v, b = x, x \in Range(t) PROVE e \in mban'[m][p]
    <3>1. mban'[m][p] = Applied(mban[m][p], x)
      BY <1>1, <1>3, <2>2 DEF Turned
    <3>2. mban[m][p] \in SUBSET Entries /\ x \in Command /\ x.code \in Changes
      BY <1>1, <1>3, <2>2, Typed, RangeType DEF Base, Change
    <3>3. mban'[m][p] = mban[m][p] \union {e}
      BY <1>3, <2>2, <3>1, <3>2, AppliedShape
    <3> QED
      BY <3>3
  <2>3. ASSUME w = v, b = x, x \notin Range(t) PROVE e \in mban'[m][p]
    <3>1. Has(mban[m][p], e)
      BY <1>1, <1>3, <2>3
    <3>2. e.dom = NoDomain
      <4>1. Lawful(b)
        BY <1>4 DEF Orderly
      <4> QED
        BY <1>3, <1>4, <4>1 DEF Lawful
    <3>3. [e EXCEPT !.dom = NoDomain] = e
      BY <3>2 DEF Entries
    <3>4. e \in mban[m][p]
      BY <3>1, <3>3 DEF Has
    <3>5. mban'[m][p] = mban[m][p]
      BY <1>1, <1>3, <2>3 DEF Turned
    <3> QED
      BY <3>4, <3>5
  <2> QED
    BY <2>1, <2>2, <2>3 DEF m
<1> QED
  BY <1>1, <1>4, FollowsChange DEF b

\* A configuration carries the list along.
LEMMA FollowsConfig ==
    ASSUME Base, NEW m \in Running, NEW q \in world.ports, update_config(m, q),
           NEW w \in Workers, NEW p \in world.ports, NEW e \in Entries, Followed(w, p, e)
    PROVE  Followed(w, p, e)'
<1> DEFINE c == Config(m, "UPDATE_CONFIG", q)
           D == Decides(p, e)
           Y == Grants(e)
           t == <<c>>
<1>1. /\ c \in Command /\ c.code = "UPDATE_CONFIG" /\ c.port = q /\ c.bans = mban[m][q]
      /\ t \in Seq(Command) /\ Told(m, t)
      /\ UNCHANGED <<world, mban, wban, created, up, news, sets, stored, loading, restarts>>
  BY ConfigShape
<1>2. DOMAIN t = {1} /\ t[1] = c
  OBVIOUS
<1> HIDE DEF c, t
<1>3. Will(w, p, e)' <=> IF world.master[w] = m
                         THEN Closes(t, D, Y) \/ (Free(t, D) /\ Will(w, p, e))
                         ELSE Will(w, p, e)
  BY <1>1, WillTold
<1>4. CASE world.master[w] = m /\ p = q
  <2>1. c \in D /\ (c \in Y <=> e \in mban[m][p])
    BY <1>1, <1>4 DEF Decides, Grants
  <2> HIDE DEF D, Y
  <2>2. ~Free(t, D) /\ (Closes(t, D, Y) <=> c \in Y)
    BY <1>2, <2>1 DEF Free, Closes
  <2> QED
    BY <1>1, <1>3, <1>4, <2>1, <2>2 DEF Followed
<1>5. CASE world.master[w] = m /\ p # q
  <2>1. c \notin D
    BY <1>1, <1>5 DEF Decides
  <2> HIDE DEF D, Y
  <2>2. Free(t, D) /\ ~Closes(t, D, Y)
    BY <1>2, <2>1 DEF Free, Closes
  <2>3. Will(w, p, e)' <=> Will(w, p, e)
    BY <1>3, <1>5, <2>2
  <2> QED
    BY <1>1, <2>3 DEF Followed, Rules
<1>6. CASE world.master[w] # m
  BY <1>1, <1>3, <1>6 DEF Followed, Rules
<1> QED
  BY <1>4, <1>5, <1>6

\* A rule bans in its worker, and its event is on the way.
LEMMA FollowsRule ==
    ASSUME Base, NEW v \in Workers, NEW q \in world.ports, NEW b \in world.entries,
           rule_ban(v, q, b) \/ rule_ban_global(v, q, b.ip),
           NEW w \in Workers, NEW p \in world.ports, NEW e \in Entries, Followed(w, p, e)
    PROVE  Followed(w, p, e)'
<1>1. PICK x \in Event :
         /\ q \in Ports
         /\ up' = [up EXCEPT ![v] = Append(up[v], x)]
         /\ \/ x = Msg("BANIP", q, b) /\ "rule" \in world.operations
               /\ wban' = [wban EXCEPT ![v] = [wban[v] EXCEPT ![q] = wban[v][q] \union {b}]]
            \/ x.code = "BANIP_GLOBAL" /\ wban' = wban
         /\ UNCHANGED <<world, mban, created, down, redis, restarts>>
  BY RuleShape
<1>2. /\ up \in [Workers -> Seq(Event)] /\ Range(Append(up[v], x)) = Range(up[v]) \cup {x}
      /\ wban \in [Workers -> Lists] /\ p \in Ports
  BY RangeAppend, Typed DEF Base, TypeOK, Lists
<1>3. Range(up[w]) \subseteq Range(up'[w])
  BY <1>1, <1>2
<1>4. /\ Will(w, p, e) => Will(w, p, e)'
      /\ Will(w, p, e)' => \/ Will(w, p, e)
                           \/ Rules /\ Msg("BANIP", p, e) \in Range(up'[w])
  <2>1. CASE wban'[w][p] = wban[w][p]
    BY <1>1, <2>1 DEF Will
  <2>2. CASE /\ w = v /\ p = q /\ x = Msg("BANIP", q, b) /\ "rule" \in world.operations
             /\ wban'[w][p] = wban[w][p] \union {b}
    <3>1. x \in Range(up'[w])
      BY <1>1, <1>2, <2>2
    <3> QED
      BY <1>1, <2>2, <3>1 DEF Will, Rules
  <2> QED
    BY <1>1, <1>2, <2>1, <2>2 DEF Lists
<1> QED
  BY <1>1, <1>3, <1>4 DEF Followed, Rules

\* What a worker reads it will list.
LEMMA FollowsHandles ==
    ASSUME Base, Starts, NEW v \in Workers, WorkerHandles(v),
           NEW w \in Workers, NEW p \in world.ports, NEW e \in Entries, Followed(w, p, e)
    PROVE  Followed(w, p, e)'
<1> DEFINE c == Head(down[v])
           s == Echo(v, c)
           t == Tail(down[v])
           D == Decides(p, e)
           Y == Grants(e)
           B == wban[v][p]
<1>1. /\ down[v] # <<>> /\ c \in Command /\ c.port \in Ports
      /\ s \in Seq(Event)
      /\ wban' = [wban EXCEPT ![v] = [wban[v] EXCEPT ![c.port] = Handled(v, c)]]
      /\ up' = [up EXCEPT ![v] = up[v] \o s]
      /\ down' = [down EXCEPT ![v] = t]
      /\ UNCHANGED <<world, mban, redis, restarts>>
  BY HandlesShape
<1>2. /\ down \in [Workers -> Seq(Command)] /\ up \in [Workers -> Seq(Event)]
      /\ wban \in [Workers -> Lists] /\ p \in Ports
  BY Typed DEF Base, TypeOK, Lists
<1>3. Range(down[v]) = {c} \cup Range(t) /\ t \in Seq(Command)
  BY <1>1, <1>2, RangeTail
<1>4. /\ Free(down[v], D) <=> c \notin D /\ Free(t, D)
      /\ Closes(down[v], D, Y) <=> Closes(t, D, Y) \/ (Free(t, D) /\ c \in D \cap Y)
  <2>1. down[v] \in Seq(Command)
    BY <1>2
  <2> HIDE DEF D, Y
  <2> QED
    BY <1>1, <2>1, DecidesTail
<1> HIDE DEF c, s, t, D, Y, B
<1>5. Range(up[w]) \subseteq Range(up'[w])
  <2>1. Range(up[v] \o s) = Range(up[v]) \cup Range(s)
    BY <1>1, <1>2, RangeConcat
  <2> QED
    BY <1>1, <1>2, <2>1
<1>6. ASSUME w # v PROVE Will(w, p, e)' <=> Will(w, p, e)
  <2>1. wban'[w] = wban[w] /\ down'[w] = down[w]
    BY <1>1, <1>2, <1>6
  <2> QED
    BY <2>1 DEF Will
<1>7. ASSUME w = v PROVE Will(w, p, e)' <=> Will(w, p, e)
  <2>1. /\ Will(w, p, e) <=> Closes(down[v], D, Y) \/ (Free(down[v], D) /\ e \in B)
        /\ Will(w, p, e)' <=> Closes(t, D, Y) \/ (Free(t, D) /\ e \in wban'[v][p])
    <3>1. down'[v] = t
      BY <1>1, <1>2
    <3> QED
      BY <1>7, <3>1 DEF Will, D, Y, B
  <2>2. wban'[v][p] = IF p = c.port THEN Handled(v, c) ELSE B
    BY <1>1, <1>2 DEF Lists, B
  <2>3. ASSUME Free(t, D)
        PROVE  e \in wban'[v][p] <=> c \in D \cap Y \/ (c \notin D /\ e \in B)
    <3>1. CASE p # c.port
      BY <2>2, <3>1 DEF D, Decides
    <3>2. CASE p = c.port /\ c.code \in {"CREATE", "UPDATE_CONFIG"}
      <4>1. c \in D /\ (c \in Y <=> e \in c.bans)
        BY <1>1, <3>2 DEF D, Y, Decides, Grants
      <4>2. Handled(v, c) = c.bans
        <5>1. CASE c.code = "CREATE"
          BY <5>1 DEF Handled
        <5>2. CASE c.code = "UPDATE_CONFIG" /\ p \in created[v]
          BY <3>2, <5>2 DEF Handled
        <5>3. CASE c.code = "UPDATE_CONFIG" /\ p \notin created[v]
          <6>1. PICK x \in Range(down[v]) : x.code = "CREATE" /\ x.port = p
            BY <5>3 DEF Starts
          <6>2. x \in Range(t) /\ x \in Command
            BY <1>3, <5>3, <6>1, RangeType
          <6>3. x \in D
            BY <6>1, <6>2 DEF D, Decides
          <6> QED
            BY <1>3, <2>3, <6>2, <6>3, RangeType DEF Free
        <5> QED
          BY <3>2, <5>1, <5>2, <5>3
      <4> QED
        BY <2>2, <3>2, <4>1, <4>2
    <3>3. CASE p = c.port /\ c.code \in Changes
      <4>1. p \in created[v]
        <5> SUFFICES ASSUME p \notin created[v] PROVE FALSE
          OBVIOUS
        <5>1. PICK x \in Range(down[v]) : x.code = "CREATE" /\ x.port = p
          BY DEF Starts
        <5>2. x \in Range(t) /\ x \in Command
          BY <1>3, <3>3, <5>1, RangeType DEF Changes
        <5>3. x \in D
          BY <5>1, <5>2 DEF D, Decides
        <5> QED
          BY <1>3, <2>3, <5>2, <5>3, RangeType DEF Free
      <4>2. Handled(v, c) = Applied(B, c)
        BY <3>3, <4>1 DEF Handled, B, Changes
      <4>3. Applied(B, c) = CASE c.code = "BANIP" -> B \union {c.entry}
                              [] c.code = "UNBANIP" -> B \ {c.entry}
                              [] c.code = "UNBANIPS" -> {}
        BY DEF Applied
      <4>4. /\ c \in D <=> (c.code \in {"BANIP", "UNBANIP"} => c.entry = e)
            /\ c \in Y <=> c.code = "BANIP"
        BY <1>1, <3>3 DEF D, Y, Decides, Grants, Changes
      <4> QED
        BY <2>2, <3>3, <4>2, <4>3, <4>4 DEF Changes
    <3> QED
      BY <1>1, <3>1, <3>2, <3>3, CommandShape
  <2> QED
    BY <1>4, <2>1, <2>3
<1> QED
  BY <1>1, <1>5, <1>6, <1>7 DEF Followed, Rules

\* A new worker gets the list with the CREATE.
LEMMA FollowsRestart ==
    ASSUME Base, NEW v \in Workers, Restart(v),
           NEW w \in Workers, NEW p \in world.ports, NEW e \in Entries, Followed(w, p, e)
    PROVE  Followed(w, p, e)'
<1> DEFINE list == mban[world.master[v]]
           creates == Creates(list)
<1>1. /\ list \in Lists /\ creates \in Seq(Command) /\ Named(creates, world.ports)
      /\ Die({v}, creates) /\ UNCHANGED <<mban, news, sets, loading>>
  BY RestartShape
<1>2. \A x \in Range(creates) : x.port \in world.ports /\ x.code = "CREATE"
  BY <1>1, CreatesShape DEF Base
<1>3. PICK i \in DOMAIN creates :
         /\ creates[i] = [code |-> "CREATE", port |-> p, bans |-> list[p]]
         /\ \A j \in DOMAIN creates : creates[j].port = p => j = i
  BY <1>1, CreatesShape DEF Base
<1> HIDE DEF creates
<1>4. /\ IF w = v THEN down'[w] = creates
         ELSE wban'[w] = wban[w] /\ up'[w] = up[w] /\ down'[w] = down[w]
      /\ world' = world
  <2> DEFINE W == {v}
  <2>1. Die(W, creates) /\ (w \in W <=> w = v)
    BY <1>1
  <2> HIDE DEF W
  <2>2. /\ IF w \in W THEN down'[w] = creates
           ELSE wban'[w] = wban[w] /\ up'[w] = up[w] /\ down'[w] = down[w]
        /\ world' = world
    BY <1>1, <2>1, DieShape
  <2> QED
    BY <2>1, <2>2
<1>5. CASE w # v
  BY <1>1, <1>4, <1>5 DEF Followed, Will, Rules
<1>6. CASE w = v
  <2> DEFINE D == Decides(p, e)
             Y == Grants(e)
  <2>1. creates[i] \in Command /\ creates[i] \in D /\ (creates[i] \in Y <=> e \in list[p])
    <3>1. creates[i] \in Command
      BY <1>1, <1>3, RangeType
    <3> HIDE DEF list
    <3> QED
      BY <1>3, <3>1 DEF Decides, Grants
  <2>2. DOMAIN creates \subseteq Nat /\ \A j \in DOMAIN creates : creates[j] \in D => j = i
    BY <1>1, <1>3 DEF Decides
  <2> HIDE DEF D, Y, list
  <2>3. ~Free(creates, D) /\ (Closes(creates, D, Y) <=> creates[i] \in Y)
    BY <2>1, <2>2, DecidesOne
  <2>4. Will(w, p, e)' <=> e \in list[p]
    BY <1>4, <1>6, <2>1, <2>3 DEF Will, D, Y
  <2> QED
    BY <1>1, <1>4, <1>6, <2>4 DEF Followed, list
<1> QED
  BY <1>5, <1>6

\* Every step keeps the workers on the way to the lists of their masters.
LEMMA FollowsStep == Base /\ Starts /\ Orderly /\ Lagging /\ Follows /\ Next => Follows'
<1> SUFFICES ASSUME Base, Starts, Orderly, Lagging, Follows, Next, ~WorkersLag',
                    NEW w \in Workers, NEW p \in world.ports, NEW e \in Entries
             PROVE  Followed(w, p, e)'
  <2>1. Base /\ Next => world' = world
    BY HistoryTyped DEF Base
  <2> QED
    BY <2>1 DEF Follows
<1>1. world' = world /\ restarts \in Nat
  BY HistoryTyped DEF Base, TypeOK
<1>2. ASSUME restarts' = restarts \/ restarts' = restarts + 1 PROVE Followed(w, p, e)
  BY <1>1, <1>2 DEF WorkersLag, Follows
<1>3. ASSUME NEW m, NEW t, ByUser(m, t) PROVE Followed(w, p, e)'
  BY <1>2, <1>3, FollowsUser DEF ByUser
<1>4. ASSUME NEW v \in Workers, NEW t, ByEvent(v, t) PROVE Followed(w, p, e)'
  BY <1>2, <1>4, FollowsEvent DEF ByEvent
<1>5. CASE ByConfig
  <2>1. PICK m \in Running, q \in world.ports : update_config(m, q)
    BY <1>5 DEF ByConfig
  <2>2. restarts' = restarts
    BY <2>1, ConfigShape
  <2> QED
    BY <1>2, <2>1, <2>2, FollowsConfig
<1>6. CASE ByRule
  <2>1. PICK v \in Workers, q \in world.ports, b \in world.entries :
           rule_ban(v, q, b) \/ rule_ban_global(v, q, b.ip)
    BY <1>6 DEF ByRule
  <2>2. restarts' = restarts
    BY <2>1 DEF rule_ban, rule_ban_global
  <2> QED
    BY <1>2, <2>1, <2>2, FollowsRule
<1>7. ASSUME NEW v \in Workers, WorkerHandles(v) PROVE Followed(w, p, e)'
  BY <1>2, <1>7, FollowsHandles, HandlesShape
<1>8. ASSUME NEW v \in Workers, Restart(v) PROVE Followed(w, p, e)'
  <2>1. restarts' = restarts + 1
    BY <1>8 DEF Restart, Die
  <2> QED
    BY <1>2, <1>8, <2>1, FollowsRestart
<1>9. ASSUME NEW m \in Running, MasterHears(m) PROVE Followed(w, p, e)'
  <2>1. restarts' = restarts
    BY <1>9 DEF MasterHears
  <2> QED
    BY <1>2, <1>9, <2>1, FollowsHears
<1>10. ASSUME NEW m, RedisSets(m) PROVE Followed(w, p, e)'
  <2>1. UNCHANGED <<world, mban, wban, down, up, restarts>>
    BY <1>10 DEF RedisSets
  <2> QED
    BY <1>2, <2>1 DEF Followed, Will, Rules
<1>11. ASSUME NEW m, load_data(m) PROVE Followed(w, p, e)'
  <2>1. m \in loading /\ UNCHANGED <<world, restarts>>
    BY <1>11 DEF load_data
  <2> QED
    BY <2>1 DEF Lagging, WorkersLag
<1>12. ASSUME NEW m, Reboot(m) PROVE Followed(w, p, e)'
  <2>1. restarts' = restarts + 1 /\ "reboot" \in world.operations
    BY <1>12 DEF Reboot, Die
  <2> QED
    BY <1>1, <2>1 DEF WorkersLag
<1> QED
  BY <1>3, <1>4, <1>5, <1>6, <1>7, <1>8, <1>9, <1>10, <1>11, <1>12, BaseSteps

-----------------------------------------------------------------------------
(***************************************************************************)
(* The theorems.                                                           *)
(***************************************************************************)

\* At first all lists are empty.
LEMMA InvInit ==
    ASSUME \A W \in Worlds : Coherent(W) PROVE Init => Inv
<1> SUFFICES ASSUME Init PROVE Inv
  OBVIOUS
<1>1. Base /\ Coherent(world)
  BY BaseInit DEF Init
<1>2. /\ loading = {} /\ restarts = 0
      /\ \A w \in Workers : down[w] = <<>> /\ up[w] = <<>> /\ created[w] = world.ports
      /\ \A m \in Masters : news[m] = {} /\ sets[m] = <<>>
      /\ \A m \in Masters, p \in Ports : mban[m][p] = {}
      /\ \A w \in Workers, p \in Ports : wban[w][p] = {}
      /\ \A p \in Ports : stored[p] = {}
  BY DEF Init
<1>3. /\ Running \subseteq Masters /\ world.ports \subseteq Ports
      /\ \A w \in Workers : world.master[w] \in Masters
  BY <1>1, Typed DEF Base
<1>4. Starts
  BY <1>2 DEF Starts
<1>5. Orderly
  BY <1>2, RangeEmpty DEF Orderly
<1>6. Lagging
  BY <1>2 DEF Lagging
<1>7. Follows
  <2> SUFFICES ASSUME NEW w \in Workers, NEW p \in world.ports, NEW e \in Entries
               PROVE  Followed(w, p, e)
    BY DEF Follows
  <2>1. \A D, Y : ~Closes(<<>>, D, Y)
    BY DEF Closes
  <2>2. ~Will(w, p, e)
    BY <1>2, <1>3, <2>1 DEF Will
  <2> QED
    BY <1>2, <1>3, <2>2 DEF Followed
<1>8. Gathers
  BY <1>2, <1>3 DEF Gathers, Known
<1>9. Settled
  <2>1. PICK G \in Lists : \A p \in Ports : G[p] = {}
    <3>1. [p \in Ports |-> {}] \in Lists
      BY DEF Lists
    <3> QED
      BY <3>1
  <2>2. PICK T \in SUBSET Command : T = {}
    OBVIOUS
  <2>3. \A w \in Workers : Orders(w) = {}
    BY <1>2, RangeEmpty DEF Orders
  <2>4. \A m \in Running : news[m] = {} /\ Range(sets[m]) = {}
    BY <1>2, <1>3, RangeEmpty
  <2>5. Commands(G, T)
    BY <2>2 DEF Commands
  <2>6. MastersAgree(G, T)
    BY <1>2, <1>3, <2>1, <2>4 DEF MastersAgree
  <2>7. WorkersAgree(G, T)
    BY <2>3 DEF WorkersAgree
  <2>8. StoreAgrees(G)
    BY <1>2, <2>1, <2>4 DEF StoreAgrees
  <2>9. Agreed(G, T)
    BY <1>2, <2>5, <2>6, <2>7, <2>8 DEF Agreed
  <2> QED
    BY <2>9 DEF Settled
<1> QED
  BY <1>1, <1>4, <1>5, <1>6, <1>7, <1>8, <1>9 DEF Inv

\* Every step keeps the invariant.
LEMMA InvStep == Inv /\ [Next]_vars => Inv'
<1>1. ASSUME Inv, Next PROVE Inv'
  <2>1. /\ Base /\ Coherent(world) /\ Starts /\ Orderly /\ Lagging /\ Follows /\ Gathers /\ Settled
        /\ world' = world
    BY <1>1, HistoryTyped DEF Inv, Base
  <2>2. Base'
    BY <1>1, <2>1, BaseStep
  <2>3. Orderly'
    BY <1>1, <2>1, OrderlyStep
  <2>4. Starts' /\ Lagging' /\ Follows'
    BY <1>1, <2>1, StartsStep, LaggingStep, FollowsStep
  <2>5. Gathers' /\ Settled'
    BY <1>1, <2>1, <2>3, GathersStep, SettledStep
  <2>6. Coherent(world)'
    BY <2>1
  <2> QED
    BY <2>2, <2>3, <2>4, <2>5, <2>6 DEF Inv
<1>2. ASSUME Inv, UNCHANGED vars PROVE Inv'
  <2>1. UNCHANGED <<world, mban, wban, created, down, up, news, sets, stored, loading, restarts>>
    BY <1>2 DEF vars, redis
  <2>2. Base' /\ Coherent(world)'
    BY <1>2, <2>1, BaseStep DEF Inv
  <2>3. Running' = Running /\ \A x : Lawful(x)' <=> Lawful(x)
    BY <2>1, SameWorld, LawfulStays
  <2>4. Starts' /\ Lagging'
    BY <1>2, <2>1 DEF Inv, Starts, Lagging, WorkersLag
  <2>5. Orderly'
    BY <1>2, <2>1, <2>3 DEF Inv, Orderly
  <2>6. \A w \in Workers : \A p, e : Followed(w, p, e)' <=> Followed(w, p, e)
    BY <2>1 DEF Followed, Will, Rules
  <2>7. Follows'
    BY <1>2, <2>1, <2>6 DEF Inv, Follows, WorkersLag
  <2>8. Gathers'
    BY <1>2, <2>1, <2>3 DEF Inv, Gathers, Known, Crowd
  <2>9. \A w \in Workers : Orders(w)' \subseteq Orders(w)
    BY <2>1 DEF Orders
  <2>10. \A G, T : Agreed(G, T) => Agreed(G, T)'
    BY <2>1, <2>9, AgreedStays
  <2>11. Settled'
    BY <1>2, <2>1, <2>10 DEF Inv, Settled, Calm
  <2> QED
    BY <2>2, <2>4, <2>5, <2>7, <2>8, <2>11 DEF Inv
<1> QED
  BY <1>1, <1>2

\* When nothing is under way the invariant says that the lists are the same.
LEMMA InvAgrees == Inv => QuietAgreement /\ StoreIsCurrent
<1> SUFFICES ASSUME Inv, Quiet
             PROVE  /\ \A m, n \in Running : mban[m] = mban[n]
                    /\ WorkersLag \/ \A w \in Workers : wban[w] = mban[world.master[w]]
                    /\ Calm => \A m \in Running : stored = mban[m]
  BY DEF QuietAgreement, StoreIsCurrent, Calm
<1>1. /\ Base /\ Coherent(world) /\ Follows /\ Gathers /\ Settled
      /\ PlacedMasters /\ PlacedWorkers
  BY DEF Inv, Base
<1>2. /\ \A w \in Workers : down[w] = <<>> /\ up[w] = <<>>
      /\ \A m \in Masters : news[m] = {} /\ sets[m] = <<>>
      /\ loading = {}
  BY DEF Quiet
<1>3. /\ Running \subseteq Masters /\ \A w \in Workers : world.master[w] \in Running
      /\ world.ports \subseteq Ports /\ stored \in Lists
      /\ \A m \in Masters : mban[m] \in Lists
      /\ \A w \in Workers : wban[w] \in Lists
  BY <1>1, Typed DEF Base, TypeOK, Lists
<1>4. \A A, B \in Lists : (\A p \in Ports, e \in Entries : e \in A[p] <=> e \in B[p]) => A = B
  <2> SUFFICES ASSUME NEW A \in Lists, NEW B \in Lists,
                      \A p \in Ports, e \in Entries : e \in A[p] <=> e \in B[p]
               PROVE  A = B
    OBVIOUS
  <2>1. \A p \in Ports : A[p] \in SUBSET Entries /\ B[p] \in SUBSET Entries
    BY DEF Lists
  <2>2. \A p \in Ports : A[p] = B[p]
    BY <2>1
  <2> QED
    BY <2>2 DEF Lists
<1>5. ASSUME Calm
      PROVE  \A m \in Running : stored = mban[m]
  <2>1. PICK G \in Lists, T \in SUBSET Command : Agreed(G, T)
    BY <1>1, <1>5 DEF Settled
  <2>2. \A m \in Running, p \in Ports : mban[m][p] = G[p]
    BY <1>2, <1>3, <2>1 DEF Agreed, MastersAgree
  <2>3. \A p \in Ports : stored[p] = G[p]
    BY <1>2, <1>3, <2>1, RangeEmpty DEF Agreed, StoreAgrees
  <2> QED
    BY <1>3, <1>4, <2>2, <2>3
<1>6. ASSUME Crowd, NEW m \in Running, NEW n \in Running
      PROVE  mban[m] = mban[n]
  <2>1. \A k \in Running, p \in Ports, e \in Entries : Known(k, p, e) <=> e \in mban[k][p]
    BY <1>2, <1>3 DEF Known
  <2>2. \A p \in Ports, e \in Entries : e \in mban[m][p] <=> e \in mban[n][p]
    BY <1>1, <1>6, <2>1 DEF Gathers
  <2> QED
    BY <1>3, <1>4, <1>6, <2>2
<1>7. ASSUME ~world.cloud, NEW m \in Running, NEW n \in Running
      PROVE  m = n
  <2>1. \A v, w \in Workers : world.master[v] = world.master[w]
    BY <1>1, <1>7 DEF Coherent
  <2>2. world.master \in [Workers -> Masters]
    BY <1>1, Typed DEF Base
  <2> QED
    BY <2>1, <2>2 DEF Running, Range
<1>8. \A m, n \in Running : mban[m] = mban[n]
  BY <1>5, <1>6, <1>7 DEF Calm, Crowd
<1>9. ASSUME ~WorkersLag, NEW w \in Workers
      PROVE  wban[w] = mban[world.master[w]]
  <2>1. \A D, Y : ~Closes(<<>>, D, Y) /\ Free(<<>>, D)
    BY DEF Closes, Free
  <2>2. ASSUME NEW p \in world.ports, NEW e \in Entries
        PROVE  e \in wban[w][p] <=> e \in mban[world.master[w]][p]
    <3>1. Will(w, p, e) <=> e \in wban[w][p]
      BY <1>2, <2>1 DEF Will
    <3>2. Followed(w, p, e)
      BY <1>1, <1>9, <2>2 DEF Follows
    <3> QED
      BY <1>2, <3>1, <3>2, RangeEmpty DEF Followed
  <2>3. \A p \in Ports \ world.ports : wban[w][p] = {} /\ mban[world.master[w]][p] = {}
    BY <1>1, <1>3 DEF PlacedMasters, PlacedWorkers
  <2>4. \A p \in Ports, e \in Entries : e \in wban[w][p] <=> e \in mban[world.master[w]][p]
    BY <2>2, <2>3
  <2> QED
    BY <1>3, <1>4, <2>4
<1> QED
  BY <1>5, <1>8, <1>9

\* In every coherent world, for any number of masters, workers, ports and bans,
\* any order of the messages, and any number of operations and crashes: the
\* lists of all masters and workers are the same when nothing is under way ...
THEOREM ListsAgree ==
    ASSUME \A W \in Worlds : Coherent(W) PROVE Spec => []QuietAgreement
<1>1. Inv => QuietAgreement
  BY InvAgrees
<1>2. Init => Inv
  BY InvInit
<1> QED
  BY <1>1, <1>2, InvStep, PTL DEF Spec

\* ... and where users wait between their operations redis has them too.
THEOREM StoreKept ==
    ASSUME \A W \in Worlds : Coherent(W) PROVE Spec => []StoreIsCurrent
<1>1. Inv => StoreIsCurrent
  BY InvAgrees
<1>2. Init => Inv
  BY InvInit
<1> QED
  BY <1>1, <1>2, InvStep, PTL DEF Spec
=============================================================================
