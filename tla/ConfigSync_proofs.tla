-------------------------- MODULE ConfigSync_proofs --------------------------
(***************************************************************************)
(* Proofs about ConfigSync for any bounds and for any combination of the   *)
(* circumstances.                                                          *)
(***************************************************************************)
EXTENDS ConfigSync, SequenceFacts

-----------------------------------------------------------------------------
(***************************************************************************)
(* Types.  A time stamp is only in its bounds because every stamp above    *)
(* those of the edits was spent on a file that a fault had destroyed.      *)
(***************************************************************************)

Msg == [kind: {"conf", "event"}, conf: Config]

TypeInv ==
  /\ TypeOK
  /\ inbox \in Seq(Msg) /\ waiting \in Seq(Msg) /\ calls \in Seq(Config)
  /\ clock <= MaxEdits + faults
  /\ ~Whole(file) => faults > 0 /\ clock < MaxEdits + faults

DiskTyped ==
  /\ file' \in Config \cup {NoFile, Torn} /\ backup' \in Config \cup {NoFile, Torn}
  /\ faults' \in 0..MaxFaults /\ faults' \in Nat /\ faults <= faults'
ApplyTyped ==
  /\ applying' \in [conf: Config, installed: BOOLEAN] \cup {None}
  /\ pending' \in [conf: Config, force: BOOLEAN] \cup {None}

\* A fault is counted.
LEMMA StrikeTypes ==
  ASSUME TypeInv, Strike
  PROVE  /\ faults' = faults + 1 /\ faults \in Nat /\ faults' \in 0..MaxFaults
         /\ faults' \in Nat /\ faults < faults'
BY BoundsAssumption DEF Strike, TypeInv, TypeOK

\* A save accounts for the fault that spoils it.
LEMMA SaveTypes ==
  ASSUME TypeInv, NEW c \in Config, Save(c)
  PROVE  mem' = c /\ DiskTyped /\ (~Whole(file') => faults' = faults + 1)
<1> USE DEF DiskTyped
<1>1. Whole(c)
  BY MarkersAssumption DEF Whole
<1>2. backup' \in Config \cup {NoFile, Torn}
  BY DEF Save, Renamed, TypeInv, TypeOK
<1>3. CASE file' = c /\ UNCHANGED faults
  <2>1. faults \in 0..MaxFaults /\ faults \in Nat
    BY BoundsAssumption DEF TypeInv, TypeOK
  <2> QED
    BY <1>1, <1>2, <1>3, <2>1 DEF Save
<1>4. CASE Strike /\ file' \in {NoFile, Torn}
  BY <1>2, <1>4, StrikeTypes DEF Save
<1> QED
  BY <1>3, <1>4 DEF Save

\* What an apply is asked for it keeps.
LEMMA ApplyTypes ==
  ASSUME TypeInv, NEW c \in Config, NEW force \in BOOLEAN, ApplyCloudConfig(c, force)
  PROVE  ApplyTyped
<1> USE DEF ApplyTyped
<1>1. /\ [conf |-> c, installed |-> FALSE] \in [conf: Config, installed: BOOLEAN]
      /\ [conf |-> c, force |-> force] \in [conf: Config, force: BOOLEAN]
  OBVIOUS
<1>2. /\ applying \in [conf: Config, installed: BOOLEAN] \cup {None}
      /\ pending \in [conf: Config, force: BOOLEAN] \cup {None}
  BY DEF TypeInv, TypeOK
<1>3. CASE UNCHANGED apply
  BY <1>2, <1>3 DEF apply
<1>4. CASE pending' = [conf |-> c, force |-> force] /\ UNCHANGED applying
  BY <1>1, <1>2, <1>4
<1>5. CASE applying' = [conf |-> c, installed |-> FALSE] /\ UNCHANGED pending
  BY <1>1, <1>2, <1>5
<1> QED
  BY <1>3, <1>4, <1>5 DEF ApplyCloudConfig

\* A message that is handled changes the configuration or starts an apply.
LEMMA HandleTypes ==
  ASSUME TypeInv, NEW m \in Msg, Handle(m)
  PROVE  /\ mem' \in Config /\ DiskTyped /\ ApplyTyped
         /\ ~Whole(file') => faults' = faults + 1 \/ UNCHANGED <<file, faults>>
<1> USE DEF DiskTyped, ApplyTyped
<1>1. CASE m.kind = "conf"
  <2>1. ApplyCloudConfig(m.conf, FALSE) /\ UNCHANGED <<mem, disk, faults>>
    BY <1>1 DEF Handle
  <2>2. UNCHANGED <<mem, file, backup, faults>>
    BY <2>1 DEF disk
  <2>3. m.conf \in Config /\ FALSE \in BOOLEAN
    BY DEF Msg
  <2>4. faults \in Nat /\ faults \in 0..MaxFaults
    BY BoundsAssumption DEF TypeInv, TypeOK
  <2>5. /\ applying' \in [conf: Config, installed: BOOLEAN] \cup {None}
        /\ pending' \in [conf: Config, force: BOOLEAN] \cup {None}
    BY <2>1, <2>3, ApplyTypes
  <2>6. /\ mem' \in Config /\ file' \in Config \cup {NoFile, Torn}
        /\ backup' \in Config \cup {NoFile, Torn}
    BY <2>2 DEF TypeInv, TypeOK
  <2> QED
    BY <2>2, <2>4, <2>5, <2>6
<1>2. CASE m.kind = "event"
  <2> DEFINE c == [mem EXCEPT !.body = @ \cup {m.conf.ts}]
  <2>1. c \in Config
    BY DEF Msg, Config, TypeInv, TypeOK
  <2>2. Save(c) /\ UNCHANGED apply
    BY <1>2 DEF Handle
  <2>3. UNCHANGED <<applying, pending>>
    BY <2>2 DEF apply
  <2>4. /\ applying \in [conf: Config, installed: BOOLEAN] \cup {None}
        /\ pending \in [conf: Config, force: BOOLEAN] \cup {None}
    BY DEF TypeInv, TypeOK
  <2> HIDE DEF c
  <2>5. mem' = c /\ DiskTyped /\ (~Whole(file') => faults' = faults + 1)
    BY <2>1, <2>2, SaveTypes
  <2> QED
    BY <2>1, <2>3, <2>4, <2>5
<1> QED
  BY <1>1, <1>2 DEF Handle, Msg

\* A queue stays one when its head is taken or a message is appended.
LEMMA QueueTypes ==
  ASSUME TypeInv
  PROVE  /\ inbox # <<>> => Head(inbox) \in Msg /\ Tail(inbox) \in Seq(Msg)
         /\ waiting # <<>> => /\ Head(waiting) \in Msg /\ Tail(waiting) \in Seq(Msg)
                             /\ Len(Tail(waiting)) = Len(waiting) - 1
         /\ calls # <<>> => Head(calls) \in Config /\ Tail(calls) \in Seq(Config)
         /\ \A m \in Msg : /\ Append(inbox, m) \in Seq(Msg)
                          /\ Append(waiting, m) \in Seq(Msg)
                          /\ Len(Append(waiting, m)) = Len(waiting) + 1
         /\ \A c \in Config : Append(calls, c) \in Seq(Config)
         /\ Len(waiting) \in Nat
BY RangeTail, RangeType, AppendShape DEF TypeInv

\* What a queue holds has the type of its elements.
LEMMA ElementTypes ==
  /\ \A q \in Seq(Msg) : \A i \in DOMAIN q : q[i].conf \in Config
  /\ \A q \in Seq(Config) : \A i \in DOMAIN q : q[i] \in Config
<1>1. \A q \in Seq(Msg) : \A i \in DOMAIN q : q[i] \in Msg
  BY ElementOfSeq
<1> QED
  BY <1>1, RangeType DEF Msg

\* The bounds of the stamps.
LEMMA StampTypes ==
  ASSUME TypeInv
  PROVE  /\ clock \in Nat \ {0} /\ clock <= MaxClock /\ MaxClock \in Nat
         /\ faults \in Nat /\ faults <= MaxFaults /\ MaxFaults \in Nat
         /\ clock < MaxEdits => clock + 1 \in 1..MaxClock
         /\ ~Whole(file) => clock + 1 \in 1..MaxClock /\ clock < MaxEdits + faults
         /\ MaxEdits \in Nat /\ clock <= MaxEdits + faults
         /\ \A c \in Config : c.ts \in 1..MaxClock /\ c.body \subseteq 1..MaxClock
<1>1. \A c \in Config : c.ts \in 1..MaxClock /\ c.body \subseteq 1..MaxClock
  BY DEF Config
<1>2. /\ MaxEdits \in Nat /\ MaxFaults \in Nat /\ MaxClock = MaxEdits + MaxFaults
      /\ clock \in 1..MaxClock /\ faults \in 0..MaxFaults
      /\ clock <= MaxEdits + faults /\ (~Whole(file) => clock < MaxEdits + faults)
  BY BoundsAssumption DEF MaxClock, TypeInv, TypeOK
<1> QED
  BY <1>1, <1>2

\* The stamps are numbers.
LEMMA StateTypes ==
  ASSUME TypeInv
  PROVE  /\ mem \in Config /\ mem.ts \in Nat /\ cloud \in Config /\ cloud.ts \in Nat
         /\ applying \in [conf: Config, installed: BOOLEAN] \cup {None}
         /\ applying # None => applying.conf \in Config /\ applying.conf.ts \in Nat
         /\ pending # None => pending.conf \in Config /\ pending.conf.ts \in Nat
         /\ fetched # None => fetched \in Config /\ fetched.ts \in Nat
<1>1. \A c \in Config : c.ts \in Nat
  BY StampTypes
<1>2. /\ mem \in Config /\ cloud \in Config
      /\ applying \in [conf: Config, installed: BOOLEAN] \cup {None}
      /\ pending \in [conf: Config, force: BOOLEAN] \cup {None}
      /\ fetched \in Config \cup {None}
  BY DEF TypeInv, TypeOK
<1> QED
  BY <1>1, <1>2

\* The types hold at the start.
LEMMA InitTypes == Init => TypeInv
<1> SUFFICES ASSUME Init PROVE TypeInv
  OBVIOUS
<1>1. 1 \in 1..MaxClock /\ MaxEdits \in Nat /\ MaxEdits >= 1 /\ MaxFaults \in Nat
  BY BoundsAssumption DEF MaxClock
<1>2. [ts |-> 1, body |-> {1}] \in Config
  BY <1>1 DEF Config
<1>3. Whole(file)
  BY <1>2, MarkersAssumption DEF Init, Whole
<1>4. ready \in 0..Len(waiting) /\ DOMAIN inbox = {} /\ DOMAIN calls = {}
  BY DEF Init
<1>5. /\ mem \in Config /\ cloud \in Config
      /\ file \in Config \cup {NoFile, Torn} /\ backup \in Config \cup {NoFile, Torn}
  BY <1>2 DEF Init
<1>6. faults \in 0..MaxFaults /\ breaks \in 0..MaxBreaks /\ clock \in 1..MaxClock
  BY <1>1, BoundsAssumption DEF Init
<1>7. TypeOK
  BY <1>4, <1>5, <1>6 DEF Init, TypeOK
<1> QED
  BY <1>1, <1>3, <1>7 DEF Init, TypeInv

\* A process that ends leaves the configuration, its file and the cloud.
LEMMA EndTypes ==
  ASSUME TypeInv, Gone, Strike, UNCHANGED <<world, clock, mem, cloud, breaks>>,
         \/ UNCHANGED disk
         \/ backup' = Renamed /\ file' \in {mem, NoFile, Torn}
  PROVE  TypeInv'
<1>1. /\ file' \in Config \cup {NoFile, Torn} /\ backup' \in Config \cup {NoFile, Torn}
  BY DEF Renamed, disk, TypeInv, TypeOK
<1>2. faults' \in 0..MaxFaults /\ faults' = faults + 1 /\ faults \in Nat
  BY StrikeTypes
<1>3. clock' <= MaxEdits + faults' /\ faults' > 0 /\ clock' < MaxEdits + faults'
  BY <1>2, StampTypes
<1>4. ready' \in 0..Len(waiting') /\ DOMAIN inbox' = {} /\ DOMAIN calls' = {}
  BY DEF Gone
<1>5. TypeOK'
  BY <1>1, <1>2, <1>4 DEF Gone, TypeInv, TypeOK
<1> QED
  BY <1>3, <1>5 DEF Gone, TypeInv

Accounted ==
  /\ clock <= MaxEdits + faults
  /\ ~Whole(file) => faults > 0 /\ clock < MaxEdits + faults

\* An edit is within its own bound, and only a fault spoils the file.
LEMMA AccountKept ==
  ASSUME TypeInv, faults' \in Nat, faults <= faults',
         clock' = clock \/ (clock < MaxEdits /\ clock' = clock + 1),
         ~Whole(file') => faults' = faults + 1 \/ UNCHANGED <<file, faults>>
  PROVE  Accounted' /\ clock' \in 1..MaxClock
<1>1. /\ clock \in Nat \ {0} /\ faults \in Nat /\ MaxEdits \in Nat
      /\ clock <= MaxEdits + faults /\ clock <= MaxClock /\ MaxClock \in Nat
      /\ clock < MaxEdits => clock + 1 \in 1..MaxClock
      /\ ~Whole(file) => faults > 0 /\ clock < MaxEdits + faults
  BY StampTypes DEF TypeInv
<1>2. clock' \in 1..MaxClock /\ clock' <= MaxEdits + faults'
  BY <1>1
<1>3. ASSUME ~Whole(file') PROVE faults' > 0 /\ clock' < MaxEdits + faults'
  <2>1. CASE faults' = faults + 1
    BY <1>1, <2>1
  <2>2. CASE UNCHANGED <<file, faults>>
    <3>1. ~Whole(file)
      BY <1>3, <2>2
    <3> QED
      BY <1>1, <2>2, <3>1
  <2> QED
    BY <1>3, <2>1, <2>2
<1> QED
  BY <1>2, <1>3 DEF Accounted

\* A call is sent or not.
LEMMA TransmitTypes ==
  ASSUME TypeInv, NEW c \in Config, Transmit(c)
  PROVE  calls' \in Seq(Config) /\ (\A i \in DOMAIN calls' : calls'[i] \in Config)
<1>1. calls' \in Seq(Config)
  BY QueueTypes DEF Transmit, TypeInv
<1> QED
  BY <1>1, ElementTypes

\* Every step keeps the types and the account of the stamps.
LEMMA StepTypes == TypeInv /\ [Next]_vars => TypeInv'
<1> SUFFICES ASSUME TypeInv, [Next]_vars PROVE TypeInv'
  OBVIOUS
<1> USE DEF process, apply, handlers, sending, network, disk
<1>t. /\ TypeOK
      /\ inbox \in Seq(Msg) /\ waiting \in Seq(Msg) /\ calls \in Seq(Config)
      /\ faults \in Nat /\ Accounted
  BY StampTypes DEF TypeInv, Accounted
<1>q. /\ inbox # <<>> => Head(inbox) \in Msg /\ Tail(inbox) \in Seq(Msg)
      /\ waiting # <<>> => /\ Head(waiting) \in Msg /\ Tail(waiting) \in Seq(Msg)
                          /\ Len(Tail(waiting)) = Len(waiting) - 1
      /\ \A m \in Msg : /\ Append(inbox, m) \in Seq(Msg)
                       /\ Append(waiting, m) \in Seq(Msg)
                       /\ Len(Append(waiting, m)) = Len(waiting) + 1
      /\ calls # <<>> => Head(calls) \in Config /\ Tail(calls) \in Seq(Config)
      /\ Len(waiting) \in Nat /\ ready \in Nat /\ ready <= Len(waiting)
  <2>1. Len(waiting) \in Nat /\ ready \in Nat /\ ready <= Len(waiting)
    BY <1>t, LenProperties DEF TypeOK
  <2> QED
    BY <2>1, QueueTypes
<1>e. /\ \A q \in Seq(Msg) : \A i \in DOMAIN q : q[i].conf \in Config
      /\ \A q \in Seq(Config) : \A i \in DOMAIN q : q[i] \in Config
  BY ElementTypes
<1> DEFINE Goal == /\ TypeOK' /\ inbox' \in Seq(Msg) /\ waiting' \in Seq(Msg)
                   /\ calls' \in Seq(Config) /\ Accounted'
<1>g. Goal => TypeInv'
  BY DEF TypeInv, Accounted
<1>k. UNCHANGED <<clock, file, faults>> => Accounted'
  BY <1>t DEF Accounted
<1>1. ASSUME Crash \/ CrashInSave \/ Stop PROVE Goal
  <2>1. TypeInv'
    BY <1>1, EndTypes DEF Crash, CrashInSave, Stop
  <2> QED
    BY <2>1 DEF TypeInv, Accounted
<1>2. ASSUME Boot PROVE Goal
  <2>1. Loaded \in Config
    BY <1>t, StampTypes DEF Loaded, Config, Whole, TypeOK
  <2>2. mem' = Loaded /\ DiskTyped /\ (~Whole(file') => faults' = faults + 1)
    BY <1>2, <2>1, SaveTypes DEF Boot
  <2>3. clock' \in 1..MaxClock /\ Accounted'
    BY <1>2, <2>2, StampTypes DEF Boot, DiskTyped, Accounted
  <2>4. TypeOK'
    BY <1>2, <1>t, <2>1, <2>2, <2>3 DEF Boot, DiskTyped, TypeOK
  <2> QED
    BY <1>2, <1>t, <2>3, <2>4 DEF Boot
<1>3. ASSUME Install PROVE Goal
  <2>1. applying.conf \in Config /\ [applying EXCEPT !.installed = TRUE] \in [conf: Config, installed: BOOLEAN]
    BY <1>3, <1>t DEF Install, TypeOK
  <2>2. mem' = applying.conf /\ DiskTyped /\ (~Whole(file') => faults' = faults + 1)
    BY <1>3, <2>1, SaveTypes DEF Install
  <2>3. Accounted'
    BY <1>3, <2>2, AccountKept DEF Install, DiskTyped
  <2>4. TypeOK'
    BY <1>3, <1>t, <2>1, <2>2 DEF Install, DiskTyped, TypeOK
  <2> QED
    BY <1>3, <1>t, <2>3, <2>4 DEF Install
<1>4. ASSUME FinishApply PROVE Goal
  <2>1. NextApply \in [conf: Config, installed: BOOLEAN] \cup {None}
    BY <1>t DEF NextApply, TypeOK
  <2>2. ready' \in 0..Len(waiting')
    BY <1>4, <1>q DEF FinishApply
  <2>3. TypeOK'
    BY <1>4, <1>t, <2>1, <2>2 DEF FinishApply, TypeOK
  <2> QED
    BY <1>4, <1>t, <1>k, <2>3 DEF FinishApply
<1>5. ASSUME OnJson \/ WakeHandler PROVE Goal
  <2>1. UNCHANGED <<world, clock, process, network, sending, cloud>>
    BY <1>5 DEF OnJson, WakeHandler
  <2>2. /\ inbox' \in Seq(Msg) /\ waiting' \in Seq(Msg) /\ ready' \in 0..Len(waiting')
    <3>1. CASE OnJson
      <4>1. /\ inbox' = Tail(inbox) /\ Head(inbox) \in Msg /\ Tail(inbox) \in Seq(Msg)
            /\ ready' = ready
            /\ waiting' = waiting \/ waiting' = Append(waiting, Head(inbox))
        BY <1>q, <3>1 DEF OnJson
      <4>2. waiting' \in Seq(Msg) /\ Len(waiting') \in Nat /\ ready <= Len(waiting')
        <5>1. CASE waiting' = waiting
          BY <1>t, <1>q, <5>1
        <5>2. CASE waiting' = Append(waiting, Head(inbox))
          <6>1. waiting' \in Seq(Msg) /\ Len(waiting') = Len(waiting) + 1
            BY <1>q, <4>1, <5>2
          <6> QED
            BY <1>q, <6>1
        <5> QED
          BY <4>1, <5>1, <5>2
      <4> QED
        BY <1>q, <4>1, <4>2
    <3>2. CASE WakeHandler
      <4>1. waiting # <<>> /\ ready > 0
        BY <1>q, <3>2 DEF WakeHandler
      <4>2. ready - 1 \in 0..Len(Tail(waiting))
        BY <1>q, <4>1
      <4> QED
        BY <1>t, <1>q, <3>2, <4>1, <4>2 DEF WakeHandler
    <3> QED
      BY <1>5, <3>1, <3>2
  <2>3. \A i \in DOMAIN inbox' : inbox'[i].conf \in Config
    BY <2>2, <1>e
  <2>4. CASE UNCHANGED <<mem, disk, faults, apply>>
    <3>1. TypeOK'
      BY <1>t, <2>1, <2>2, <2>3, <2>4 DEF TypeOK
    <3> QED
      BY <1>t, <1>k, <2>1, <2>2, <2>4, <3>1
  <2>5. ASSUME NEW m \in Msg, Handle(m) PROVE Goal
    <3>1. /\ mem' \in Config /\ DiskTyped /\ ApplyTyped
          /\ ~Whole(file') => faults' = faults + 1 \/ UNCHANGED <<file, faults>>
      BY <2>5, HandleTypes
    <3>2. Accounted'
      BY <2>1, <3>1, AccountKept DEF DiskTyped
    <3>3. TypeOK'
      BY <1>t, <2>1, <2>2, <2>3, <3>1 DEF DiskTyped, ApplyTyped, TypeOK
    <3> QED
      BY <1>t, <2>1, <2>2, <3>2, <3>3
  <2>6. UNCHANGED <<mem, disk, faults, apply>> \/ \E m \in Msg : Handle(m)
    <3>1. CASE OnJson
      BY <1>q, <3>1 DEF OnJson
    <3>2. CASE WakeHandler
      <4>1. waiting # <<>>
        BY <1>q, <3>2 DEF WakeHandler
      <4> QED
        BY <1>q, <3>2, <4>1 DEF WakeHandler
    <3> QED
      BY <1>5, <3>1, <3>2
  <2> QED
    BY <2>4, <2>5, <2>6
<1>6. ASSUME FetchConf \/ Connect PROVE Goal
  <2>1. TypeOK'
    BY <1>6, <1>t DEF FetchConf, Connect, TypeOK
  <2> QED
    BY <1>6, <1>t, <1>k, <2>1 DEF FetchConf, Connect
<1>7. ASSUME StartRefresh \/ LinkBreaks PROVE Goal
  <2>1. breaks' \in 0..MaxBreaks
    BY <1>7, <1>t, BoundsAssumption DEF StartRefresh, LinkBreaks, TypeOK
  <2>2. inbox' = <<>> /\ link' \in {"never", "on", "off"} /\ refreshing' \in BOOLEAN
    BY <1>7, <1>t DEF StartRefresh, LinkBreaks, TypeOK
  <2>3. TypeOK'
    BY <1>7, <1>t, <2>1, <2>2 DEF StartRefresh, LinkBreaks, TypeOK
  <2> QED
    BY <1>7, <1>t, <1>k, <2>2, <2>3 DEF StartRefresh, LinkBreaks
<1>8. ASSUME StartApply \/ Reconnect PROVE Goal
  <2>1. ApplyTyped
    <3>2. CASE StartApply
      <4>1. fetched # None /\ ApplyCloudConfig(fetched, ZagentForce)
        BY <3>2 DEF StartApply
      <4>2. ZagentForce \in BOOLEAN
        BY DEF ZagentForce, May
      <4> QED
        BY <1>t, <4>1, <4>2, ApplyTypes DEF TypeOK
    <3>3. CASE Reconnect
      <4>1. CASE refreshing
        BY <1>t, <3>3, <4>1 DEF Reconnect, ApplyTyped, TypeOK
      <4>2. CASE ~refreshing
        <5>1. ApplyCloudConfig(cloud, FALSE) /\ cloud \in Config
          BY <1>t, <3>3, <4>2 DEF Reconnect, TypeOK
        <5> QED
          BY <5>1, ApplyTypes
      <4> QED
        BY <4>1, <4>2
    <3> QED
      BY <1>8, <3>2, <3>3
  <2>2. TypeOK'
    BY <1>8, <1>t, <2>1 DEF StartApply, Reconnect, ApplyTyped, TypeOK
  <2> QED
    BY <1>8, <1>t, <1>k, <2>2 DEF StartApply, Reconnect
<1>9. ASSUME LocalEdit PROVE Goal
  <2> DEFINE c == [ts |-> clock + 1, body |-> mem.body \cup {clock + 1}]
  <2>1. /\ clock < MaxEdits /\ clock' = clock + 1 /\ Save(c) /\ Upload(c)
        /\ UNCHANGED <<world, process, network, apply, handlers, cloud>>
    BY <1>9 DEF LocalEdit
  <2>2. c \in Config
    BY <1>t, <2>1, StampTypes DEF Config, TypeOK
  <2> HIDE DEF c
  <2>3. mem' = c /\ DiskTyped /\ (~Whole(file') => faults' = faults + 1)
    BY <2>1, <2>2, SaveTypes
  <2>4. Accounted' /\ clock' \in 1..MaxClock
    BY <2>1, <2>3, AccountKept DEF DiskTyped
  <2>5. calls' \in Seq(Config) /\ (\A i \in DOMAIN calls' : calls'[i] \in Config) /\ uploads' \subseteq Config
    <3>1. CASE refreshing
      BY <1>t, <2>1, <2>2, <3>1 DEF Upload, TypeOK
    <3>2. CASE ~refreshing
      BY <1>t, <2>1, <2>2, <3>2, TransmitTypes DEF Upload, TypeOK
    <3> QED
      BY <3>1, <3>2
  <2>6. TypeOK'
    BY <1>t, <2>1, <2>2, <2>3, <2>4, <2>5 DEF DiskTyped, TypeOK
  <2> QED
    BY <1>t, <2>1, <2>4, <2>5, <2>6
<1>10. ASSUME UploadWakes PROVE Goal
  <2>1. PICK c \in uploads : Transmit(c) /\ uploads' = uploads \ {c}
    BY <1>10 DEF UploadWakes
  <2>2. c \in Config
    BY <1>t DEF TypeOK
  <2>3. calls' \in Seq(Config) /\ (\A i \in DOMAIN calls' : calls'[i] \in Config)
    BY <2>1, <2>2, TransmitTypes
  <2>4. TypeOK'
    BY <1>10, <1>t, <2>1, <2>3 DEF UploadWakes, TypeOK
  <2> QED
    BY <1>10, <1>t, <1>k, <2>3, <2>4 DEF UploadWakes
<1>11. ASSUME CloudServes \/ AnswerLost \/ CallTimeout PROVE Goal
  <2>1. calls # <<>> /\ cloud' \in Config /\ calls' \in Seq(Config)
    BY <1>11, <1>t, <1>q DEF CloudServes, AnswerLost, CallTimeout, Newer, TypeOK
  <2>2. \A i \in DOMAIN calls' : calls'[i] \in Config
    BY <2>1, <1>e
  <2>3. breaks' \in 0..MaxBreaks /\ link' \in {"never", "on", "off"}
    BY <1>11, <1>t, BoundsAssumption DEF CloudServes, AnswerLost, CallTimeout, TypeOK
  <2>4. /\ inbox' \in Seq(Msg) /\ (\A i \in DOMAIN inbox' : inbox'[i].conf \in Config)
        /\ waiting' \in Seq(Msg) /\ Accounted'
    <3>1. /\ inbox' = inbox \/ inbox' = <<>>
          /\ waiting' = waiting /\ UNCHANGED <<clock, file, faults>>
      BY <1>11 DEF CloudServes, AnswerLost, CallTimeout
    <3>2. inbox' \in Seq(Msg)
      <4>1. <<>> \in Seq(Msg)
        OBVIOUS
      <4> QED
        BY <1>t, <3>1, <4>1
    <3> QED
      BY <3>1, <3>2, <1>t, <1>k, <1>e
  <2>5. TypeOK'
    BY <1>11, <1>t, <2>1, <2>2, <2>3, <2>4 DEF CloudServes, AnswerLost, CallTimeout, TypeOK
  <2> QED
    BY <2>1, <2>4, <2>5
<1>12. ASSUME NEW kind \in {"conf", "event"}, CloudEdit(kind) PROVE Goal
  <2>1. cloud' \in Config
    BY <1>12, <1>t, StampTypes DEF CloudEdit, Config, TypeOK
  <2>2. [kind |-> kind, conf |-> cloud'] \in Msg
    BY <2>1 DEF Msg
  <2>3. inbox' \in Seq(Msg)
    BY <1>12, <1>t, <1>q, <2>2 DEF CloudEdit
  <2>4. \A i \in DOMAIN inbox' : inbox'[i].conf \in Config
    BY <2>3, <1>e
  <2>5. Accounted' /\ clock' \in 1..MaxClock
    BY <1>12, <1>t, AccountKept DEF CloudEdit
  <2>6. TypeOK'
    <3>1. UNCHANGED <<world, process, mem, disk, network, apply, waiting, ready, sending, faults>>
      BY <1>12 DEF CloudEdit
    <3> QED
      BY <3>1, <1>t, <2>1, <2>4, <2>5 DEF TypeOK
  <2> QED
    BY <1>12, <1>t, <2>3, <2>5, <2>6 DEF CloudEdit
<1>13. ASSUME UNCHANGED vars PROVE Goal
  <2>1. TypeOK'
    BY <1>13, <1>t DEF vars, TypeOK
  <2> QED
    BY <1>13, <1>t, <1>k, <2>1 DEF vars
<1> QED
  BY <1>g, <1>1, <1>2, <1>3, <1>4, <1>5, <1>6, <1>7, <1>8, <1>9, <1>10, <1>11, <1>12, <1>13
  DEF Next, Progress, NewConf, NewEvent

\* Every state has its types, whatever the bounds and the circumstances.
THEOREM TypeCorrect == Spec => []TypeOK
<1>1. Spec => []TypeInv
  BY InitTypes, StepTypes, PTL DEF Spec
<1>2. TypeInv => TypeOK
  BY DEF TypeInv
<1> QED
  BY <1>1, <1>2, PTL

-----------------------------------------------------------------------------
(***************************************************************************)
(* Phases of a process: what exists in which of them, and what each of the *)
(* circumstances makes possible.                                           *)
(***************************************************************************)

Ended == ~up => /\ ~started /\ fetched = None /\ link = "never" /\ ~refreshing
                /\ applying = None /\ pending = None /\ inbox = <<>> /\ waiting = <<>>
                /\ uploads = {} /\ calls = <<>>

Phases == /\ applying = None => pending = None
          /\ ready \in {0, Len(waiting)}
          /\ started => fetched = None
          /\ ~started => uploads = {} /\ calls = <<>>
          /\ link = "never" => ~started /\ fetched = None
          /\ refreshing => link = "off"

Circumstances == /\ ~May("faults") => faults = 0 /\ up
                 /\ Excluding({"outage", "refresh"}) => link # "off"
                 /\ ~May("outage") => (link = "off" => refreshing)

Shape == Ended /\ Phases /\ Circumstances

\* The phases at the start.
LEMMA InitShape == Init => Shape
BY DEF Init, Shape, Ended, Phases, Circumstances, Excluding, May

\* Every step goes from one phase to the next.
LEMMA StepShape == TypeInv /\ Shape /\ [Next]_vars => Shape'
<1> SUFFICES ASSUME TypeInv, Shape, [Next]_vars PROVE Shape'
  OBVIOUS
<1> USE DEF Shape
<1>u. up \in BOOLEAN /\ started \in BOOLEAN /\ refreshing \in BOOLEAN
  BY DEF TypeInv, TypeOK
<1>1. Ended'
  BY <1>u DEF Ended, Next, Progress, vars, process, apply, handlers, sending, network,
     Boot, Install, FinishApply, OnJson, WakeHandler, FetchConf, StartApply, UploadWakes,
     CloudServes, Connect, Reconnect, LocalEdit, NewConf, NewEvent, CloudEdit, Crash,
     CrashInSave, Stop, Gone, AnswerLost, CallTimeout, StartRefresh, LinkBreaks
<1>2. Circumstances'
  <2>1. UNCHANGED world
    BY DEF Next, Progress, vars, Boot, Install, FinishApply, OnJson, WakeHandler, FetchConf,
       StartApply, UploadWakes, CloudServes, Connect, Reconnect, LocalEdit, NewConf, NewEvent,
       CloudEdit, Crash, CrashInSave, Stop, AnswerLost, CallTimeout, StartRefresh, LinkBreaks
  <2>2. ~May("faults") => faults' = 0 /\ up'
    <3> SUFFICES ASSUME ~May("faults") PROVE faults' = 0 /\ up'
      OBVIOUS
    <3>1. faults = 0 /\ up /\ ~Strike
      BY DEF Circumstances, Strike
    <3>2. \A c : Save(c) => faults' = 0
      BY <3>1 DEF Save
    <3>3. \A m : Handle(m) => faults' = 0
      BY <3>1, <3>2 DEF Handle
    <3> QED
      BY <3>1, <3>2, <3>3 DEF Next, Progress, vars, process, Boot, Install, FinishApply, OnJson, WakeHandler,
         FetchConf, StartApply, UploadWakes, CloudServes, Connect, Reconnect, LocalEdit,
         NewConf, NewEvent, CloudEdit, Crash, CrashInSave, Stop, AnswerLost, CallTimeout,
         StartRefresh, LinkBreaks
  <2>3. CASE link' # "off"
    BY <2>1, <2>2, <2>3 DEF Circumstances, Excluding, May
  <2>4. CASE UNCHANGED <<link, refreshing>>
    BY <2>1, <2>2, <2>4 DEF Circumstances, Excluding, May
  <2>5. CASE (AnswerLost \/ LinkBreaks) /\ May("outage")
    BY <2>1, <2>2, <2>5 DEF Circumstances, Excluding, May
  <2>6. CASE StartRefresh
    BY <2>1, <2>2, <2>6 DEF Circumstances, Excluding, May, StartRefresh
  <2> QED
    BY <2>3, <2>4, <2>5, <2>6 DEF Next, Progress, vars, network, Boot, Install, FinishApply,
       OnJson, WakeHandler, FetchConf, StartApply, UploadWakes, CloudServes, Connect, Reconnect,
       LocalEdit, NewConf, NewEvent, CloudEdit, Crash, CrashInSave, Stop, Gone, AnswerLost,
       CallTimeout, StartRefresh, LinkBreaks
<1>3. Phases'
  <2> DEFINE P == /\ applying = None => pending = None
                  /\ ready \in {0, Len(waiting)}
                  /\ started => fetched = None
                  /\ ~started => uploads = {} /\ calls = <<>>
                  /\ link = "never" => ~started /\ fetched = None
                  /\ refreshing => link = "off"
  <2>1. P /\ (link = "never" \/ link = "on" \/ link = "off")
    BY DEF Phases, TypeInv, TypeOK
  <2>a. ASSUME NEW c, NEW f, ApplyCloudConfig(c, f) PROVE applying' = None => pending' = None
    BY <2>1, <2>a DEF ApplyCloudConfig, apply
  <2>2. ASSUME Crash \/ CrashInSave \/ Stop PROVE P'
    BY <2>2 DEF Crash, CrashInSave, Stop, Gone
  <2>3. ASSUME Boot PROVE P'
    BY <1>u, <2>1, <2>3 DEF Boot, Ended, process, apply, handlers, sending, network
  <2>4. ASSUME Install PROVE P'
    <3>1. [applying EXCEPT !.installed = TRUE] \in [conf: Config, installed: BOOLEAN]
      BY <2>4 DEF Install, TypeInv, TypeOK
    <3>2. applying' # None
      BY <2>4, <3>1, MarkersAssumption DEF Install
    <3> QED
      BY <2>1, <2>4, <3>2 DEF Install, process, handlers, sending, network
  <2>5. ASSUME FinishApply PROVE P'
    BY <2>1, <2>5 DEF FinishApply, process, sending, network
  <2>6. ASSUME (OnJson /\ ready = 0) \/ WakeHandler PROVE P'
    <3>1. ASSUME NEW m, Handle(m) PROVE applying' = None => pending' = None
      BY <2>1, <2>a, <3>1 DEF Handle, apply
    <3>2. applying' = None => pending' = None
      BY <2>1, <2>6, <3>1 DEF OnJson, WakeHandler, apply
    <3>3. ready' \in {0, Len(waiting')}
      <4>1. CASE OnJson /\ ready = 0
        BY <4>1 DEF OnJson
      <4>2. CASE WakeHandler
        <5>1. Len(waiting) \in Nat \ {0} /\ ready = Len(waiting)
          BY <2>1, <4>2, LenProperties DEF WakeHandler, TypeInv
        <5>2. waiting # <<>>
          BY <5>1
        <5>3. Len(Tail(waiting)) = Len(waiting) - 1
          BY <5>2, QueueTypes
        <5> QED
          BY <4>2, <5>1, <5>3 DEF WakeHandler
      <4> QED
        BY <2>6, <4>1, <4>2
    <3> QED
      BY <2>1, <2>6, <3>2, <3>3 DEF OnJson, WakeHandler, process, sending, network
  <2>7. ASSUME FetchConf \/ Connect PROVE P'
    BY <2>1, <2>7 DEF FetchConf, Connect, process, apply, handlers, sending, network
  <2>8. ASSUME StartRefresh \/ LinkBreaks PROVE P'
    BY <2>1, <2>8 DEF StartRefresh, LinkBreaks, apply, sending, process
  <2>9. ASSUME StartApply \/ Reconnect PROVE P'
    <3>1. applying' = None => pending' = None
      BY <2>1, <2>9, <2>a DEF StartApply, Reconnect, apply
    <3> QED
      <4>1. CASE StartApply
        BY <2>1, <3>1, <4>1 DEF StartApply, handlers, sending, network
      <4>2. CASE Reconnect
        BY <2>1, <3>1, <4>2 DEF Reconnect, process, handlers, sending
      <4> QED
        BY <2>9, <4>1, <4>2
  <2>10. ASSUME LocalEdit \/ UploadWakes PROVE P'
    BY <2>1, <2>10 DEF LocalEdit, UploadWakes, process, apply, handlers, network
  <2>11. ASSUME CloudServes \/ AnswerLost \/ CallTimeout PROVE P'
    BY <2>1, <2>11 DEF CloudServes, AnswerLost, CallTimeout, process, apply, handlers, network
  <2>12. ASSUME NEW kind, CloudEdit(kind) PROVE P'
    BY <2>1, <2>12 DEF CloudEdit, process, apply, sending, network
  <2>13. ASSUME UNCHANGED vars PROVE P'
    BY <2>1, <2>13 DEF vars, process, apply, handlers, sending, network
  <2>14. P'
    BY <2>2, <2>3, <2>4, <2>5, <2>6, <2>7, <2>8, <2>9, <2>10, <2>11, <2>12, <2>13
    DEF Next, Progress, NewConf, NewEvent
  <2> QED
    BY <2>14 DEF Phases
<1> QED
  BY <1>1, <1>2, <1>3
-----------------------------------------------------------------------------
(***************************************************************************)
(* Where configurations come from.  The time stamps of everything that is  *)
(* on its way from the cloud are not above that of the cloud's copy, and   *)
(* none is above the clock.                                                *)
(***************************************************************************)

Received == Range(inbox) \cup Range(waiting)
Sent == uploads \cup Range(calls)

\* The queues hold messages and configurations.
LEMMA QueueElements ==
  ASSUME TypeInv
  PROVE  /\ Received \subseteq Msg /\ Sent \subseteq Config
         /\ \A m \in Received : m.conf \in Config
         /\ inbox # <<>> => Head(inbox) \in Received /\ Range(inbox) = {Head(inbox)} \cup Range(Tail(inbox))
         /\ waiting # <<>> => Head(waiting) \in Received /\ Range(waiting) = {Head(waiting)} \cup Range(Tail(waiting))
         /\ calls # <<>> => Head(calls) \in Sent /\ Range(calls) = {Head(calls)} \cup Range(Tail(calls))
<1>1. Received \subseteq Msg /\ Sent \subseteq Config
  BY RangeType DEF Received, Sent, TypeInv, TypeOK
<1>2. \A m \in Received : m.conf \in Config
  BY <1>1 DEF Msg
<1>3. /\ inbox # <<>> => Head(inbox) \in Received /\ Range(inbox) = {Head(inbox)} \cup Range(Tail(inbox))
      /\ waiting # <<>> => Head(waiting) \in Received /\ Range(waiting) = {Head(waiting)} \cup Range(Tail(waiting))
      /\ calls # <<>> => Head(calls) \in Sent /\ Range(calls) = {Head(calls)} \cup Range(Tail(calls))
  BY RangeTail DEF Received, Sent, TypeInv
<1> QED
  BY <1>1, <1>2, <1>3

Permitted(m) == \/ m.kind = "conf" /\ May("confs")
                \/ m.kind = "event" /\ May("events")
Pushed(m) == m.conf = cloud' /\ clock' = clock + 1 /\ cloud'.ts = clock' /\ Permitted(m)

\* Only the cloud adds to what is received, and that is its new copy.
LEMMA ReceivedChange ==
  ASSUME TypeInv, [Next]_vars
  PROVE  \A m \in Received' : m \in Received \/ Pushed(m)
<1> SUFFICES ASSUME NEW m \in Received', m \notin Received PROVE Pushed(m)
  OBVIOUS
<1> USE DEF Received
<1>0. Range(<<>>) = {}
  BY RangeEmpty
<1>1. CASE UNCHANGED <<inbox, waiting>>
  BY <1>1
<1>2. CASE inbox' = <<>> /\ waiting' \in {waiting, <<>>}
  BY <1>0, <1>2
<1>3. CASE OnJson
  <2>1. inbox # <<>>
    BY <1>3 DEF OnJson
  <2>2. Head(inbox) \in Msg /\ waiting \in Seq(Msg)
    BY <2>1, QueueTypes DEF TypeInv
  <2>3. Range(Append(waiting, Head(inbox))) = Range(waiting) \cup {Head(inbox)}
    BY <2>2, RangeAppend
  <2>4. Range(inbox) = {Head(inbox)} \cup Range(Tail(inbox))
    BY <2>1, QueueElements
  <2> QED
    BY <1>3, <2>3, <2>4 DEF OnJson
<1>4. CASE WakeHandler
  <2>1. waiting # <<>>
    BY <1>4, LenProperties DEF WakeHandler, TypeInv, TypeOK
  <2> QED
    BY <1>4, <2>1, QueueElements DEF WakeHandler
<1>5. ASSUME NEW kind \in {"conf", "event"}, CloudEdit(kind),
             kind = "conf" => May("confs"), kind = "event" => May("events")
      PROVE  Pushed(m)
  <2> DEFINE e == [kind |-> kind, conf |-> cloud']
  <2>1. cloud' \in Config
    BY <1>5, StampTypes DEF CloudEdit, Config, TypeInv, TypeOK
  <2>2. e \in Msg /\ Pushed(e)
    BY <1>5, <2>1 DEF Msg, CloudEdit, Pushed, Permitted
  <2>3. inbox' \in {inbox, Append(inbox, e)} /\ waiting' = waiting
    BY <1>5 DEF CloudEdit
  <2> HIDE DEF e
  <2>4. Range(Append(inbox, e)) = Range(inbox) \cup {e}
    BY <2>2, RangeAppend DEF TypeInv
  <2> QED
    BY <2>2, <2>3, <2>4
<1> QED
  BY <1>1, <1>2, <1>3, <1>4, <1>5 DEF Next, Progress, vars, handlers, Boot, Install, FinishApply,
     FetchConf, StartApply, UploadWakes, CloudServes, Connect, Reconnect, LocalEdit, NewConf,
     NewEvent, Crash, CrashInSave, Stop, Gone, AnswerLost, CallTimeout, StartRefresh, LinkBreaks

\* A call that is sent, or not.
LEMMA TransmitChange ==
  ASSUME TypeInv, NEW c \in Config, Transmit(c)
  PROVE  /\ Range(calls') \subseteq Range(calls) \cup {c} /\ Range(calls) \subseteq Range(calls')
         /\ link = "on" => Range(calls') = Range(calls) \cup {c}
BY RangeAppend DEF Transmit, TypeInv

\* Only a user adds to what is sent, and that is what the manager has then.
LEMMA SentChange ==
  ASSUME TypeInv, [Next]_vars
  PROVE  \A c \in Sent' : c \in Sent \/ (c = mem' /\ clock' = clock + 1 /\ mem'.ts = clock')
<1> SUFFICES ASSUME NEW c \in Sent'
             PROVE  c \in Sent \/ (c = mem' /\ clock' = clock + 1 /\ mem'.ts = clock')
  OBVIOUS
<1> USE DEF Sent
<1>1. CASE UNCHANGED sending
  BY <1>1 DEF sending
<1>2. CASE uploads' = {} /\ calls' = <<>>
  BY <1>2, RangeEmpty
<1>3. CASE LocalEdit
  <2> DEFINE d == [ts |-> clock + 1, body |-> mem.body \cup {clock + 1}]
  <2>1. clock < MaxEdits /\ Save(d) /\ Upload(d) /\ clock' = clock + 1
    BY <1>3 DEF LocalEdit
  <2>2. d \in Config /\ d.ts = clock + 1
    BY <2>1, StampTypes DEF Config, TypeInv, TypeOK
  <2> HIDE DEF d
  <2>3. mem' = d
    BY <2>1 DEF Save
  <2>4. Transmit(d) => Range(calls') \subseteq Range(calls) \cup {d}
    BY <2>2, TransmitChange
  <2> QED
    BY <1>3, <2>1, <2>2, <2>3, <2>4 DEF Upload
<1>4. CASE UploadWakes
  <2>1. PICK d \in uploads : Transmit(d) /\ uploads' = uploads \ {d}
    BY <1>4 DEF UploadWakes
  <2>2. d \in Config
    BY DEF TypeInv, TypeOK
  <2>3. Range(calls') \subseteq Range(calls) \cup {d}
    BY <2>1, <2>2, TransmitChange
  <2> QED
    BY <2>1, <2>3
<1>5. CASE calls # <<>> /\ calls' = Tail(calls) /\ uploads' = uploads
  BY <1>5, QueueElements
<1> QED
  BY <1>1, <1>2, <1>3, <1>4, <1>5 DEF Next, Progress, vars, sending, Boot, Install, FinishApply,
     OnJson, WakeHandler, FetchConf, StartApply, CloudServes, Connect, Reconnect, NewConf,
     NewEvent, CloudEdit, Crash, CrashInSave, Stop, Gone, AnswerLost, CallTimeout, StartRefresh,
     LinkBreaks

Coming == {c \in Config : \/ c = cloud \/ c = fetched
                          \/ applying # None /\ c = applying.conf
                          \/ pending # None /\ c = pending.conf
                          \/ \E m \in Received : c = m.conf}

\* An apply takes what it is given, or keeps what it has.
LEMMA ApplyChange ==
  ASSUME NEW c, NEW force, ApplyCloudConfig(c, force)
  PROVE  /\ applying' # None => applying' = applying \/ applying'.conf = c
         /\ pending' # None => pending' = pending \/ pending'.conf = c
BY DEF ApplyCloudConfig, apply

\* What comes from the cloud has been its copy.
LEMMA ComingChange ==
  ASSUME TypeInv, [Next]_vars
  PROVE  \A c \in Coming' : c \in Coming \/ c = cloud'
<1> SUFFICES ASSUME NEW c \in Coming' PROVE c \in Coming \/ c = cloud'
  OBVIOUS
<1>c. c \in Config
  BY DEF Coming
<1>g. ASSUME \/ c = cloud \/ c = fetched
             \/ applying # None /\ c = applying.conf
             \/ pending # None /\ c = pending.conf
             \/ \E m \in Received : c = m.conf
      PROVE  c \in Coming
  BY <1>c, <1>g DEF Coming
<1>1. CASE \E m \in Received' : c = m.conf
  BY <1>1, <1>g, ReceivedChange DEF Pushed
<1>2. CASE c = fetched'
  <2>1. fetched' \in {fetched, cloud, None}
    BY DEF Next, Progress, vars, process, Boot, Install, FinishApply, OnJson, WakeHandler,
       FetchConf, StartApply, UploadWakes, CloudServes, Connect, Reconnect, LocalEdit, NewConf,
       NewEvent, CloudEdit, Crash, CrashInSave, Stop, Gone, AnswerLost, CallTimeout,
       StartRefresh, LinkBreaks
  <2>2. CASE fetched' = None
    <3>1. fetched # None => fetched \in Config
      BY DEF TypeInv, TypeOK
    <3>2. CASE fetched = None
      BY <1>2, <1>g, <2>2, <3>2
    <3>3. CASE fetched # None
      BY <1>c, <1>2, <2>2, MarkersAssumption
    <3> QED
      BY <3>2, <3>3
  <2> QED
    BY <1>2, <1>g, <2>1, <2>2
<1>3. CASE \/ applying' # None /\ c = applying'.conf
           \/ pending' # None /\ c = pending'.conf
  <2>1. CASE UNCHANGED apply
    BY <1>3, <1>g, <2>1 DEF apply
  <2>2. CASE applying' = None /\ pending' = None
    BY <1>3, <2>2
  <2>3. CASE Install
    BY <1>3, <1>g, <2>3 DEF Install, TypeInv, TypeOK
  <2>4. CASE FinishApply
    BY <1>3, <1>g, <2>4 DEF FinishApply, NextApply
  <2>5. ASSUME NEW d, NEW force, ApplyCloudConfig(d, force),
               d = fetched \/ d = cloud \/ \E m \in Received : d = m.conf
        PROVE  c \in Coming
    BY <1>3, <1>g, <2>5, ApplyChange
  <2>6. CASE OnJson \/ WakeHandler
    <3>1. inbox # <<>> => Head(inbox) \in Received
      BY QueueElements
    <3>2. waiting # <<>> => Head(waiting) \in Received
      BY QueueElements
    <3>3. ready > 0 => waiting # <<>>
      BY LenProperties DEF TypeInv, TypeOK
    <3>4. UNCHANGED apply \/ \E m \in Received : Handle(m)
      BY <2>6, <3>1, <3>2, <3>3 DEF OnJson, WakeHandler
    <3> QED
      BY <2>1, <2>5, <3>4 DEF Handle
  <2>7. CASE StartApply \/ Reconnect
    BY <2>1, <2>5, <2>7 DEF StartApply, Reconnect
  <2> QED
    BY <2>1, <2>2, <2>3, <2>4, <2>6, <2>7 DEF Next, Progress, vars, Boot, FetchConf, UploadWakes,
       CloudServes, Connect, LocalEdit, NewConf, NewEvent, CloudEdit, Crash, CrashInSave, Stop,
       Gone, AnswerLost, CallTimeout, StartRefresh, LinkBreaks
<1> QED
  BY <1>1, <1>2, <1>3 DEF Coming

\* The clock and the cloud's time stamp go forward.
LEMMA CloudChange ==
  ASSUME TypeInv, [Next]_vars, cloud.ts <= clock
  PROVE  /\ clock' \in Nat /\ clock \in Nat /\ clock <= clock'
         /\ cloud.ts \in Nat /\ cloud'.ts \in Nat /\ cloud.ts <= cloud'.ts
         /\ cloud' = cloud \/ cloud' \in Sent \/ (clock' = clock + 1 /\ cloud'.ts = clock')
<1>1. /\ clock \in Nat /\ cloud \in Config /\ \A c \in Config : c.ts \in Nat
  BY StampTypes DEF TypeInv, TypeOK
<1>2. clock' \in {clock, clock + 1}
  BY DEF Next, Progress, vars, Boot, Install, FinishApply, OnJson, WakeHandler,
     FetchConf, StartApply, UploadWakes, CloudServes, Connect, Reconnect, LocalEdit, NewConf,
     NewEvent, CloudEdit, Crash, CrashInSave, Stop, AnswerLost, CallTimeout,
     StartRefresh, LinkBreaks
<1>3. CASE cloud' = cloud
  BY <1>1, <1>2, <1>3
<1>4. CASE CloudServes \/ AnswerLost
  <2>1. calls # <<>> /\ cloud' = Newer(Head(calls)) /\ Head(calls) \in Config /\ Head(calls) \in Sent
    BY <1>4, QueueTypes, QueueElements DEF CloudServes, AnswerLost
  <2> QED
    BY <1>1, <1>2, <2>1 DEF Newer
<1>5. ASSUME NEW kind, CloudEdit(kind)
      PROVE  clock' = clock + 1 /\ cloud'.ts = clock' /\ cloud.ts <= clock'
  BY <1>1, <1>5 DEF CloudEdit
<1>6. \/ cloud' = cloud \/ CloudServes \/ AnswerLost
      \/ CloudEdit("conf") \/ CloudEdit("event")
  BY DEF Next, Progress, vars, Boot, Install, FinishApply, OnJson, WakeHandler, FetchConf,
     StartApply, UploadWakes, Connect, Reconnect, LocalEdit, NewConf, NewEvent, Crash,
     CrashInSave, Stop, CallTimeout, StartRefresh, LinkBreaks
<1>7. CASE CloudEdit("conf") \/ CloudEdit("event")
  BY <1>1, <1>2, <1>5, <1>7
<1> QED
  BY <1>3, <1>4, <1>6, <1>7

Uninstalled == applying # None /\ ~applying.installed

\* The five ways in which the configuration of the manager changes.
LEMMA MemChange ==
  ASSUME TypeInv, [Next]_vars
  PROVE  \/ mem' = mem
         \/ up /\ clock' = clock + 1 /\ mem'.ts = clock' /\ cloud' = cloud
         \/ /\ ~up /\ mem' = Loaded /\ cloud' = cloud
            /\ clock' = IF Whole(file) THEN clock ELSE clock + 1
         \/ up /\ Uninstalled /\ mem' = applying.conf
         \/ up /\ mem'.ts = mem.ts /\ \E m \in Received : m.kind = "event"
<1>1. CASE LocalEdit
  BY <1>1 DEF LocalEdit, Save
<1>2. CASE Boot
  BY <1>2 DEF Boot, Save
<1>3. CASE Install
  BY <1>3 DEF Install, Save, Uninstalled
<1>4. ASSUME NEW m, Handle(m)
      PROVE  mem' = mem \/ (mem'.ts = mem.ts /\ m.kind = "event")
  BY <1>4 DEF Handle, Save, TypeInv, TypeOK, Config
<1>5. CASE OnJson \/ WakeHandler
  <2>1. inbox # <<>> => Head(inbox) \in Received
    BY QueueElements
  <2>2. waiting # <<>> => Head(waiting) \in Received
    BY QueueElements
  <2>3. ready > 0 => waiting # <<>>
    BY LenProperties DEF TypeInv, TypeOK
  <2>4. up /\ (mem' = mem \/ \E m \in Received : Handle(m))
    BY <1>5, <2>1, <2>2, <2>3 DEF OnJson, WakeHandler
  <2> QED
    BY <1>4, <2>4
<1> QED
  BY <1>1, <1>2, <1>3, <1>5 DEF Next, Progress, vars, FinishApply, FetchConf, StartApply,
     UploadWakes, CloudServes, Connect, Reconnect, NewConf, NewEvent, CloudEdit, Crash,
     CrashInSave, Stop, AnswerLost, CallTimeout, StartRefresh, LinkBreaks

\* What is in the file is in memory, or has been.
LEMMA FileChange ==
  ASSUME TypeInv, [Next]_vars
  PROVE  file' \in {file, mem, mem', NoFile, Torn}
<1>1. ASSUME NEW c, Save(c) PROVE file' \in {mem', NoFile, Torn}
  BY <1>1 DEF Save
<1>2. ASSUME NEW m, Handle(m) PROVE file' \in {file, mem', NoFile, Torn}
  BY <1>1, <1>2 DEF Handle, disk
<1>3. CASE LocalEdit \/ Boot \/ Install
  BY <1>1, <1>3 DEF LocalEdit, Boot, Install
<1>4. CASE OnJson \/ WakeHandler
  BY <1>2, <1>4 DEF OnJson, WakeHandler, disk
<1> QED
  BY <1>3, <1>4 DEF Next, Progress, vars, disk, FinishApply, FetchConf, StartApply,
     UploadWakes, CloudServes, Connect, Reconnect, NewConf, NewEvent, CloudEdit, Crash,
     CrashInSave, Stop, AnswerLost, CallTimeout, StartRefresh, LinkBreaks

Stamps == /\ mem.ts <= clock /\ cloud.ts <= clock
          /\ Whole(file) => file.ts <= clock
          /\ \A c \in Sent : c.ts <= clock
FromCloud == \A c \in Coming : c.ts <= cloud.ts

\* The stamps at the start.
LEMMA InitStamps == Init => Stamps /\ FromCloud
<1> SUFFICES ASSUME Init PROVE Stamps /\ FromCloud
  OBVIOUS
<1>1. Sent = {} /\ Received = {}
  BY RangeEmpty DEF Init, Sent, Received
<1>2. mem.ts = 1 /\ cloud.ts = 1 /\ file.ts = 1 /\ clock = 1
  BY DEF Init
<1>3. Coming \subseteq {cloud}
  <2>1. \A c \in Coming : c # None
    BY MarkersAssumption DEF Coming
  <2> QED
    BY <1>1, <2>1 DEF Coming, Init
<1> QED
  BY <1>1, <1>2, <1>3 DEF Stamps, FromCloud

\* Every step keeps them.
LEMMA StepStamps == TypeInv /\ Stamps /\ FromCloud /\ [Next]_vars => (Stamps /\ FromCloud)'
<1> SUFFICES ASSUME TypeInv, Stamps, FromCloud, [Next]_vars PROVE (Stamps /\ FromCloud)'
  OBVIOUS
<1>t. /\ mem \in Config /\ cloud \in Config /\ (Whole(file) => file \in Config)
      /\ applying # None => applying.conf \in Config
      /\ \A c \in Config : c.ts \in Nat
  BY StampTypes DEF TypeInv, TypeOK, Whole
<1>p. TypeInv'
  BY StepTypes
<1>q. mem' \in Config /\ \A c \in Sent' : c \in Config
  <2>1. mem' \in Config /\ Sent \subseteq Config
    BY <1>p, QueueElements DEF TypeInv, TypeOK
  <2> QED
    BY <2>1, SentChange
<1>1. /\ clock' \in Nat /\ clock \in Nat /\ clock <= clock'
      /\ cloud.ts \in Nat /\ cloud'.ts \in Nat /\ cloud.ts <= cloud'.ts
      /\ cloud' = cloud \/ cloud' \in Sent \/ (clock' = clock + 1 /\ cloud'.ts = clock')
  BY CloudChange DEF Stamps
<1>2. mem'.ts <= clock'
  <2>1. Uninstalled => applying.conf \in Coming
    BY <1>t DEF Coming, Uninstalled
  <2>2. Uninstalled => applying.conf.ts <= clock
    BY <1>t, <1>1, <2>1 DEF FromCloud, Stamps, Uninstalled
  <2>3. Loaded.ts <= IF Whole(file) THEN clock ELSE clock + 1
    BY <1>t, <1>1 DEF Loaded, Stamps
  <2> QED
    <3>1. CASE mem' = mem \/ mem'.ts = mem.ts
      BY <1>t, <1>1, <3>1 DEF Stamps
    <3>2. CASE Uninstalled /\ mem' = applying.conf
      BY <1>t, <1>1, <2>2, <3>2 DEF Uninstalled
    <3>3. CASE mem' = Loaded /\ clock' = IF Whole(file) THEN clock ELSE clock + 1
      BY <1>1, <2>3, <3>3
    <3>4. CASE mem'.ts = clock'
      BY <1>1, <3>4
    <3> QED
      BY <3>1, <3>2, <3>3, <3>4, MemChange
<1>3. cloud'.ts <= clock'
  BY <1>t, <1>1 DEF Stamps
<1>4. Whole(file') => file'.ts <= clock'
  BY <1>t, <1>1, <1>2, FileChange DEF Stamps, Whole
<1>5. ASSUME NEW c \in Sent' PROVE c.ts <= clock'
  BY <1>t, <1>q, <1>1, <1>2, <1>5, SentChange DEF Stamps
<1>6. ASSUME NEW c \in Coming' PROVE c.ts <= cloud'.ts
  <2>1. c \in Config
    BY DEF Coming
  <2>2. c \in Coming => c.ts <= cloud.ts
    BY DEF FromCloud
  <2> QED
    BY <1>t, <1>1, <2>1, <2>2, ComingChange
<1> QED
  BY <1>2, <1>3, <1>4, <1>5, <1>6 DEF Stamps, FromCloud

-----------------------------------------------------------------------------
(***************************************************************************)
(* A configuration that is applied is newer than the one it replaces.      *)
(***************************************************************************)

\* The circumstances stay what they are.
LEMMA WorldKept == [Next]_vars => world' = world
BY DEF Next, Progress, vars, Boot, Install, FinishApply, OnJson, WakeHandler, FetchConf,
   StartApply, UploadWakes, CloudServes, Connect, Reconnect, LocalEdit, NewConf, NewEvent,
   CloudEdit, Crash, CrashInSave, Stop, AnswerLost, CallTimeout, StartRefresh, LinkBreaks

\* What a step does to the applies, and which steps do it.
LEMMA ApplySteps ==
  ASSUME TypeInv, [Next]_vars
  PROVE  \/ UNCHANGED apply
         \/ Gone
         \/ Install
         \/ FinishApply
         \/ /\ mem' = mem /\ (applying = None \/ ready > 0)
            /\ \E m \in Received : ApplyCloudConfig(m.conf, FALSE)
         \/ mem' = mem /\ ApplyCloudConfig(fetched, ZagentForce) /\ StartApply
         \/ mem' = mem /\ ApplyCloudConfig(cloud, FALSE) /\ Reconnect
<1>1. CASE OnJson \/ WakeHandler
  <2>1. inbox # <<>> => Head(inbox) \in Received
    BY QueueElements
  <2>2. waiting # <<>> => Head(waiting) \in Received
    BY QueueElements
  <2>3. ready > 0 => waiting # <<>>
    BY LenProperties DEF TypeInv, TypeOK
  <2>4. \/ UNCHANGED apply
        \/ (applying = None \/ ready > 0) /\ \E m \in Received : Handle(m)
    BY <1>1, <2>1, <2>2, <2>3 DEF OnJson, WakeHandler
  <2> QED
    BY <2>4 DEF Handle
<1>2. CASE StartApply
  BY <1>2 DEF StartApply
<1>3. CASE Reconnect
  BY <1>3 DEF Reconnect
<1> QED
  BY <1>1, <1>2, <1>3 DEF Next, Progress, vars, Boot, FetchConf, UploadWakes,
     CloudServes, Connect, LocalEdit, NewConf, NewEvent, CloudEdit, Crash, CrashInSave, Stop,
     AnswerLost, CallTimeout, StartRefresh, LinkBreaks

Upgrades ==
  /\ ~May("zagent") => (pending # None => ~pending.force)
  /\ Excluding({"hasty", "zagent"}) => (Uninstalled => applying.conf.ts > mem.ts)

\* While an apply has not replaced the configuration, nobody makes that newer.
LEMMA MemWaits ==
  ASSUME TypeInv, [Next]_vars, Excluding({"hasty"}), up, applying # None, ~Install
  PROVE  mem'.ts = mem.ts
<1>1. ASSUME NEW m, Handle(m) PROVE mem'.ts = mem.ts
  BY <1>1 DEF Handle, Save, TypeInv, TypeOK, Config
<1>2. ~LocalEdit /\ ~Boot
  BY DEF LocalEdit, Boot, Excluding, May
<1>3. CASE OnJson \/ WakeHandler
  BY <1>1, <1>3 DEF OnJson, WakeHandler
<1> QED
  BY <1>2, <1>3 DEF Next, Progress, vars, FinishApply, FetchConf, StartApply,
     UploadWakes, CloudServes, Connect, Reconnect, NewConf, NewEvent, CloudEdit, Crash,
     CrashInSave, Stop, AnswerLost, CallTimeout, StartRefresh, LinkBreaks

\* The order of the stamps is kept by every step.
LEMMA StepUpgrades == TypeInv /\ Shape /\ Upgrades /\ [Next]_vars => Upgrades'
<1> SUFFICES ASSUME TypeInv, Shape, Upgrades, [Next]_vars PROVE Upgrades'
  OBVIOUS
<1>w. world' = world
  BY WorldKept
<1>t. applying \in [conf: Config, installed: BOOLEAN] \cup {None}
  BY DEF TypeInv, TypeOK
<1>u. applying # None => up
  BY DEF Shape, Ended
<1>1. ASSUME ~May("zagent") PROVE pending' # None => ~pending'.force
  <2>1. ASSUME NEW c, ApplyCloudConfig(c, FALSE) PROVE pending' # None => ~pending'.force
    BY <1>1, <2>1 DEF ApplyCloudConfig, apply, Upgrades
  <2>2. ZagentForce = FALSE
    BY <1>1 DEF ZagentForce, May
  <2> QED
    BY <1>1, <2>1, <2>2, ApplySteps DEF apply, Gone, Install, FinishApply, Upgrades
<1>2. ASSUME Excluding({"hasty", "zagent"}), Uninstalled' PROVE applying'.conf.ts > mem'.ts
  <2>x. Excluding({"hasty"}) /\ ~May("zagent")
    BY <1>2 DEF Excluding, May
  <2>1. ASSUME NEW c, ApplyCloudConfig(c, FALSE), mem' = mem PROVE applying'.conf.ts > mem'.ts
    BY <1>2, <2>1 DEF ApplyCloudConfig, apply, Upgrades, Uninstalled
  <2>2. ZagentForce = FALSE
    BY <2>x DEF ZagentForce, May
  <2>3. CASE UNCHANGED apply
    <3>1. Uninstalled /\ applying' = applying /\ ~Install
      BY <1>t, <1>2, <2>3 DEF apply, Uninstalled, Install
    <3>2. mem'.ts = mem.ts
      BY <1>u, <2>x, <3>1, MemWaits DEF Uninstalled
    <3> QED
      BY <1>2, <3>1, <3>2 DEF Upgrades
  <2>4. CASE Install
    BY <1>t, <1>2, <2>4 DEF Install, Uninstalled
  <2>5. CASE FinishApply
    BY <1>2, <2>x, <2>5 DEF FinishApply, NextApply, Uninstalled, Upgrades
  <2> QED
    BY <1>2, <2>1, <2>2, <2>3, <2>4, <2>5, ApplySteps DEF Gone, Uninstalled
<1> QED
  BY <1>w, <1>1, <1>2 DEF Upgrades, Excluding, May

\* The time stamp of a manager's configuration never goes back, except where
\* start() forces the copy of the cloud on it or users save during an apply.
THEOREM StampsNeverGoBack == Spec => TsNeverBack
<1> DEFINE Inv == TypeInv /\ Shape /\ Stamps /\ FromCloud /\ Upgrades
           Forward == up /\ up' /\ Excluding({"hasty", "zagent"}) => mem'.ts >= mem.ts
<1>1. Init => Inv
  <2>1. Init => Upgrades
    BY DEF Init, Upgrades, Uninstalled
  <2> QED
    BY <2>1, InitTypes, InitShape, InitStamps
<1>2. Inv /\ [Next]_vars => Inv'
  BY StepTypes, StepShape, StepStamps, StepUpgrades
<1>3. Inv /\ [Next]_vars => [Forward]_vars
  <2> SUFFICES ASSUME Inv, [Next]_vars, up, Excluding({"hasty", "zagent"}) PROVE mem'.ts >= mem.ts
    OBVIOUS
  <2>1. /\ clock \in Nat /\ mem.ts \in Nat /\ (applying # None => applying.conf.ts \in Nat)
    BY StampTypes DEF TypeInv, TypeOK
  <2>2. CASE Uninstalled /\ mem' = applying.conf
    BY <2>1, <2>2 DEF Upgrades, Uninstalled
  <2> QED
    BY <2>1, <2>2, MemChange DEF Stamps
<1> QED
  BY <1>1, <1>2, <1>3, PTL DEF Spec, TsNeverBack

-----------------------------------------------------------------------------
(***************************************************************************)
(* The first fault, at whatever point of a save it strikes, leaves what    *)
(* the manager had in memory in its file or in the backup of it.           *)
(***************************************************************************)

FirstFault == /\ faults = 0 => up /\ file = mem
              /\ faults = 1 /\ ~up => mem \in {file, backup}

\* A save without a fault leaves the file as the memory is.
LEMMA SaveKeeps ==
  ASSUME TypeInv, NEW c, Save(c), faults' = 0
  PROVE  file' = mem'
<1>1. faults \in Nat
  BY StampTypes
<1> QED
  BY <1>1 DEF Save, Strike

\* Only the first fault counts, and it finds the file as the memory is.
LEMMA StepFirstFault == TypeInv /\ FirstFault /\ [Next]_vars => FirstFault'
<1> SUFFICES ASSUME TypeInv, FirstFault, [Next]_vars PROVE FirstFault'
  OBVIOUS
<1>t. faults \in Nat /\ mem \in Config /\ mem # NoFile
  BY StampTypes, MarkersAssumption DEF TypeInv, TypeOK
<1>1. ASSUME NEW c, Save(c), up' PROVE FirstFault'
  <2>1. faults' \in {faults, faults + 1}
    BY <1>1 DEF Save, Strike
  <2> QED
    BY <1>t, <1>1, <2>1, SaveKeeps DEF FirstFault
<1>2. CASE UNCHANGED <<mem, disk, faults>> /\ up' = up
  BY <1>2 DEF FirstFault, disk
<1>3. CASE Crash \/ CrashInSave \/ Stop
  <2>1. faults' = faults + 1 /\ ~up' /\ mem' = mem
    BY <1>3 DEF Crash, CrashInSave, Stop, Strike, Gone
  <2>2. ASSUME faults = 0 PROVE mem \in {file', backup'}
    BY <1>t, <1>3, <2>2 DEF Crash, CrashInSave, Stop, Renamed, FirstFault, disk
  <2> QED
    BY <1>t, <2>1, <2>2 DEF FirstFault
<1>4. CASE LocalEdit \/ Boot \/ Install
  BY <1>1, <1>4 DEF LocalEdit, Boot, Install, process
<1>5. CASE OnJson \/ WakeHandler
  <2>1. up /\ up' = up
    BY <1>5 DEF OnJson, WakeHandler, process
  <2>2. UNCHANGED <<mem, disk, faults>> \/ \E m : Handle(m)
    BY <1>5 DEF OnJson, WakeHandler
  <2> QED
    BY <1>1, <1>2, <2>1, <2>2 DEF Handle
<1> QED
  BY <1>2, <1>3, <1>4, <1>5 DEF Next, Progress, vars, process, FinishApply, FetchConf, StartApply,
     UploadWakes, CloudServes, Connect, Reconnect, NewConf, NewEvent, CloudEdit,
     AnswerLost, CallTimeout, StartRefresh, LinkBreaks

-----------------------------------------------------------------------------
(***************************************************************************)
(* What the manager saves reaches the cloud: it is there, or in a call, or *)
(* waits for a refresh to end.                                             *)
(***************************************************************************)

Covered == mem.ts <= cloud.ts \/ \E c \in Sent : c.ts >= mem.ts
OnItsWay == Excluding({"outage", "faults"}) => Covered

\* Every edit is sent, and no call is given up.
LEMMA CoveredKept ==
  ASSUME TypeInv, Shape, Stamps, FromCloud, [Next]_vars, Covered, up, up', ~May("outage")
  PROVE  Covered'
<1>t. /\ mem.ts \in Nat /\ mem'.ts \in Nat /\ \A c \in Sent : c.ts \in Nat
      /\ applying # None => applying.conf \in Config
  <2>1. TypeInv'
    BY StepTypes
  <2>2. mem' \in Config /\ mem \in Config /\ Sent \subseteq Config
    BY <2>1, QueueElements DEF TypeInv, TypeOK
  <2>3. applying # None => applying.conf \in Config
    BY DEF TypeInv, TypeOK
  <2> QED
    BY <2>2, <2>3, StampTypes
<1>c. /\ cloud.ts \in Nat /\ cloud'.ts \in Nat /\ cloud.ts <= cloud'.ts
  BY CloudChange DEF Stamps
<1>f. link = "off" => refreshing
  BY DEF Shape, Circumstances
<1>v. Covered
  OBVIOUS
<1>1. ASSUME mem'.ts = mem.ts, Sent \subseteq Sent' PROVE Covered'
  BY <1>t, <1>c, <1>v, <1>1 DEF Covered
<1>2. CASE LocalEdit
  <2> DEFINE c == [ts |-> clock + 1, body |-> mem.body \cup {clock + 1}]
  <2>1. up /\ started /\ clock < MaxEdits /\ Save(c) /\ Upload(c) /\ UNCHANGED network
    BY <1>2 DEF LocalEdit
  <2>2. c \in Config
    BY <2>1, StampTypes DEF Config, TypeInv, TypeOK
  <2> HIDE DEF c
  <2>3. mem' = c
    BY <2>1 DEF Save
  <2>4. c \in Sent'
    <3>1. CASE refreshing
      BY <2>1, <3>1 DEF Upload, Sent
    <3>2. CASE ~refreshing
      <4>1. link = "on"
        BY <1>f, <2>1, <3>2 DEF Shape, Phases, TypeInv, TypeOK
      <4> QED
        BY <2>1, <2>2, <3>2, <4>1, TransmitChange DEF Upload, Sent
    <3> QED
      BY <3>1, <3>2
  <2> QED
    BY <1>t, <2>3, <2>4 DEF Covered
<1>3. CASE UploadWakes
  <2>1. PICK c \in uploads : Transmit(c) /\ uploads' = uploads \ {c} /\ ~refreshing /\ mem' = mem
    BY <1>3 DEF UploadWakes
  <2>2. c \in Config
    BY DEF TypeInv, TypeOK
  <2>3. link = "on"
    BY <1>f, <2>1 DEF Shape, Phases, TypeInv, TypeOK
  <2>4. Sent \subseteq Sent'
    BY <2>1, <2>2, <2>3, TransmitChange DEF Sent
  <2> QED
    BY <1>1, <2>1, <2>4
<1>4. CASE CloudServes
  <2>1. /\ calls # <<>> /\ cloud' = Newer(Head(calls)) /\ calls' = Tail(calls)
        /\ uploads' = uploads /\ mem' = mem
    BY <1>4 DEF CloudServes
  <2>2. Head(calls) \in Sent /\ Sent = Sent' \cup {Head(calls)}
    BY <2>1, QueueElements DEF Sent
  <2>3. cloud'.ts >= Head(calls).ts
    BY <1>t, <1>c, <2>1, <2>2 DEF Newer
  <2> QED
    BY <1>t, <1>c, <1>v, <2>1, <2>2, <2>3 DEF Covered
<1>5. CASE Install
  <2>1. mem' = applying.conf /\ applying # None /\ cloud' = cloud
    BY <1>5 DEF Install, Save
  <2>2. applying.conf \in Coming
    BY <1>t, <2>1 DEF Coming
  <2> QED
    BY <1>t, <1>c, <2>1, <2>2 DEF FromCloud, Covered
<1>6. CASE OnJson \/ WakeHandler
  <2>1. mem'.ts = mem.ts
    <3>1. ASSUME NEW m, Handle(m) PROVE mem'.ts = mem.ts
      BY <3>1 DEF Handle, Save, TypeInv, TypeOK, Config
    <3> QED
      BY <1>6, <3>1 DEF OnJson, WakeHandler
  <2>2. Sent' = Sent
    BY <1>6 DEF OnJson, WakeHandler, sending, Sent
  <2> QED
    BY <1>1, <2>1, <2>2
<1>7. CASE UNCHANGED <<mem, sending>>
  BY <1>1, <1>7 DEF sending, Sent
<1>8. ~Boot /\ ~Crash /\ ~CrashInSave /\ ~Stop /\ ~AnswerLost /\ ~CallTimeout /\ ~LinkBreaks
  BY DEF Boot, Crash, CrashInSave, Stop, Gone, AnswerLost, CallTimeout, LinkBreaks
<1> QED
  BY <1>2, <1>3, <1>4, <1>5, <1>6, <1>7, <1>8 DEF Next, Progress, vars, FinishApply, FetchConf,
     StartApply, Connect, Reconnect, NewConf, NewEvent, CloudEdit, StartRefresh

\* So it is in every state.
LEMMA StepOnItsWay ==
  TypeInv /\ Shape /\ Stamps /\ FromCloud /\ OnItsWay /\ [Next]_vars => OnItsWay'
<1> SUFFICES ASSUME TypeInv, Shape, Stamps, FromCloud, OnItsWay, [Next]_vars,
                    Excluding({"outage", "faults"})
             PROVE  Covered'
  BY WorldKept DEF OnItsWay, Excluding
<1>1. ~May("outage") /\ ~May("faults")
  BY DEF Excluding, May
<1>2. Shape'
  BY StepShape
<1>3. up /\ up' /\ Covered
  BY <1>1, <1>2, WorldKept DEF Shape, Circumstances, OnItsWay, May
<1> QED
  BY <1>1, <1>3, CoveredKept
\* Once nothing is under way, the cloud has every edit of the manager, or
\* something newer, where neither the connection nor the disk breaks.
THEOREM EditsReachTheCloud == Spec => []UploadsArrive
<1> DEFINE Inv == TypeInv /\ Shape /\ Stamps /\ FromCloud /\ FirstFault /\ OnItsWay
<1>1. Init => Inv
  <2>1. Init => FirstFault /\ OnItsWay
    BY DEF Init, FirstFault, OnItsWay, Covered
  <2> QED
    BY <2>1, InitTypes, InitShape, InitStamps
<1>2. Inv /\ [Next]_vars => Inv'
  BY StepTypes, StepShape, StepStamps, StepFirstFault, StepOnItsWay
<1>3. Inv => UploadsArrive
  <2> SUFFICES ASSUME Inv, Quiet, Excluding({"outage", "faults"}) PROVE cloud.ts >= mem.ts
    BY DEF UploadsArrive
  <2>1. Sent = {}
    BY RangeEmpty DEF Quiet, Sent
  <2>2. mem.ts \in Nat /\ cloud.ts \in Nat
    BY StampTypes DEF TypeInv, TypeOK
  <2> QED
    BY <2>1, <2>2 DEF OnItsWay, Covered
<1> QED
  BY <1>1, <1>2, <1>3, PTL DEF Spec

-----------------------------------------------------------------------------
(***************************************************************************)
(* The messages of the cloud are handled in the order of their stamps, and *)
(* the one that waits for the apply to end is the last one handled.        *)
(***************************************************************************)

Increasing(q) == \A i, j \in DOMAIN q : i < j => q[i].conf.ts < q[j].conf.ts

\* The head of an increasing queue is before the others ...
LEMMA IncreasingTail ==
  ASSUME NEW q \in Seq(Msg), q # <<>>, Increasing(q)
  PROVE  /\ Increasing(Tail(q))
         /\ \A m \in Range(Tail(q)) : Head(q).conf.ts < m.conf.ts
<1>1. /\ Len(q) \in Nat \ {0} /\ DOMAIN q = 1 .. Len(q) /\ Head(q) = q[1]
      /\ Tail(q) \in Seq(Msg) /\ DOMAIN Tail(q) = 1 .. Len(q) - 1
      /\ \A i \in 1 .. Len(q) - 1 : Tail(q)[i] = q[i + 1]
  BY TailShape
<1>2. Increasing(Tail(q))
  <2> SUFFICES ASSUME NEW i \in 1 .. Len(q) - 1, NEW j \in 1 .. Len(q) - 1, i < j
               PROVE  Tail(q)[i].conf.ts < Tail(q)[j].conf.ts
    BY <1>1 DEF Increasing
  <2>1. i + 1 \in 1 .. Len(q) /\ j + 1 \in 1 .. Len(q) /\ i + 1 < j + 1
    BY <1>1
  <2>2. q[i + 1].conf.ts < q[j + 1].conf.ts
    BY <1>1, <2>1 DEF Increasing
  <2> QED
    BY <1>1, <2>2
<1>3. ASSUME NEW m \in Range(Tail(q)) PROVE Head(q).conf.ts < m.conf.ts
  <2>1. PICK i \in 1 .. Len(q) - 1 : q[i + 1] = m
    BY <1>1 DEF Range
  <2>2. 1 \in 1 .. Len(q) /\ i + 1 \in 1 .. Len(q) /\ 1 < i + 1
    BY <1>1
  <2> QED
    BY <1>1, <2>1, <2>2 DEF Increasing
<1> QED
  BY <1>2, <1>3

\* ... and a later one can be appended.
LEMMA IncreasingAppend ==
  ASSUME NEW q \in Seq(Msg), NEW e \in Msg, Increasing(q),
         \A m \in Range(q) : m.conf.ts < e.conf.ts
  PROVE  Increasing(Append(q, e))
<1>1. /\ Len(q) \in Nat /\ DOMAIN q = 1 .. Len(q)
      /\ DOMAIN Append(q, e) = 1 .. Len(q) + 1 /\ Append(q, e)[Len(q) + 1] = e
      /\ \A i \in 1 .. Len(q) : Append(q, e)[i] = q[i]
  BY AppendShape
<1> SUFFICES ASSUME NEW i \in 1 .. Len(q) + 1, NEW j \in 1 .. Len(q) + 1, i < j
             PROVE  Append(q, e)[i].conf.ts < Append(q, e)[j].conf.ts
  BY <1>1 DEF Increasing
<1>2. i \in 1 .. Len(q) /\ Append(q, e)[i] = q[i] /\ q[i] \in Range(q)
  BY <1>1 DEF Range
<1>3. CASE j = Len(q) + 1
  BY <1>1, <1>2, <1>3
<1>4. CASE j # Len(q) + 1
  <2>1. j \in 1 .. Len(q)
    BY <1>1, <1>4
  <2> QED
    BY <1>1, <1>2, <2>1 DEF Increasing
<1> QED
  BY <1>3, <1>4

Order == /\ Increasing(waiting) /\ Increasing(inbox)
         /\ \A m \in Range(waiting), n \in Range(inbox) : m.conf.ts < n.conf.ts
         /\ ready > 0 /\ pending # None =>
              \A m \in Range(waiting) : pending.conf.ts < m.conf.ts
Kinds == \A m \in Received : Permitted(m)

\* Every message has a stamp that is not above the clock.
LEMMA ReceivedStamps ==
  ASSUME TypeInv, Stamps, FromCloud
  PROVE  /\ \A m \in Received : m.conf \in Coming /\ m.conf.ts \in Nat /\ m.conf.ts <= cloud.ts
         /\ cloud.ts \in Nat /\ clock \in Nat /\ cloud.ts <= clock
<1>1. \A m \in Received : m.conf \in Coming
  BY QueueElements DEF Coming
<1>2. \A c \in Config : c.ts \in Nat
  BY StampTypes
<1>3. Coming \subseteq Config
  BY DEF Coming
<1> QED
  BY <1>1, <1>2, <1>3, StampTypes DEF FromCloud, Stamps, TypeInv, TypeOK

\* Nothing overtakes a message on its way.
LEMMA StepOrder ==
  TypeInv /\ Shape /\ Stamps /\ FromCloud /\ Order /\ Kinds /\ [Next]_vars => Order' /\ Kinds'
<1> SUFFICES ASSUME TypeInv, Shape, Stamps, FromCloud, Order, Kinds, [Next]_vars
             PROVE  Order' /\ Kinds'
  OBVIOUS
<1>k. Kinds'
  BY WorldKept, ReceivedChange DEF Kinds, Pushed, Permitted, May
<1> SUFFICES Order'
  BY <1>k
<1>e. Range(<<>>) = {} /\ Increasing(<<>>)
  BY RangeEmpty DEF Increasing
<1>r. ready \in Nat /\ (ready > 0 => waiting # <<>>) /\ waiting \in Seq(Msg) /\ inbox \in Seq(Msg)
  BY LenProperties DEF TypeInv, TypeOK
<1>1. CASE UNCHANGED <<inbox, waiting>> /\ (ready' = 0 \/ pending' = None)
  BY <1>1 DEF Order
<1>2. CASE inbox' = <<>> /\ waiting' \in {<<>>, waiting} /\ ready' = 0
  BY <1>e, <1>2 DEF Order
<1>3. CASE OnJson /\ ready = 0
  <2>1. /\ inbox # <<>> /\ inbox' = Tail(inbox)
        /\ waiting' \in {waiting, Append(waiting, Head(inbox))} /\ ready' = 0
    BY <1>3 DEF OnJson
  <2>2. Increasing(inbox') /\ \A m \in Range(inbox') : Head(inbox).conf.ts < m.conf.ts
    BY <1>r, <2>1, IncreasingTail DEF Order
  <2>3. Head(inbox) \in Msg /\ Range(inbox) = {Head(inbox)} \cup Range(inbox')
    BY <2>1, QueueTypes, QueueElements
  <2>4. Range(Append(waiting, Head(inbox))) = Range(waiting) \cup {Head(inbox)}
    BY <1>r, <2>3, RangeAppend
  <2>5. Increasing(Append(waiting, Head(inbox)))
    BY <1>r, <2>3, IncreasingAppend DEF Order
  <2> QED
    <3>1. Increasing(waiting')
      BY <2>1, <2>5 DEF Order
    <3>2. ASSUME NEW m \in Range(waiting'), NEW n \in Range(inbox') PROVE m.conf.ts < n.conf.ts
      <4>1. CASE m \in Range(waiting)
        BY <2>3, <4>1 DEF Order
      <4>2. CASE m = Head(inbox)
        BY <2>2, <4>2
      <4> QED
        BY <2>1, <2>4, <4>1, <4>2
    <3> QED
      BY <2>1, <2>2, <3>1, <3>2 DEF Order
<1>4. CASE WakeHandler
  <2>1. /\ waiting # <<>> /\ waiting' = Tail(waiting) /\ inbox' = inbox /\ ready > 0
        /\ Handle(Head(waiting))
    BY <1>r, <1>4 DEF WakeHandler
  <2>2. Increasing(waiting') /\ \A m \in Range(waiting') : Head(waiting).conf.ts < m.conf.ts
    BY <1>r, <2>1, IncreasingTail DEF Order
  <2>3. Range(waiting) = {Head(waiting)} \cup Range(waiting')
    BY <2>1, QueueElements
  <2>4. pending' # None => pending' = pending \/ pending'.conf = Head(waiting).conf
    BY <2>1, ApplyChange DEF Handle, apply
  <2>5. ASSUME pending' # None, NEW m \in Range(waiting') PROVE pending'.conf.ts < m.conf.ts
    BY <2>1, <2>2, <2>3, <2>4, <2>5 DEF Order
  <2> QED
    BY <1>k, <2>1, <2>2, <2>3, <2>5 DEF Order
<1>5. ASSUME NEW kind \in {"conf", "event"}, CloudEdit(kind), ready = 0 PROVE Order'
  <2> DEFINE e == [kind |-> kind, conf |-> cloud']
  <2>1. /\ waiting' = waiting /\ ready' = 0 /\ inbox' \in {inbox, Append(inbox, e)}
        /\ clock' = clock + 1
    BY <1>5 DEF CloudEdit
  <2>2. cloud' \in Config /\ e.conf = cloud' /\ cloud'.ts = clock + 1
    BY <1>5, StampTypes DEF CloudEdit, Config, TypeInv, TypeOK
  <2>3. e \in Msg
    BY <2>2 DEF Msg
  <2> HIDE DEF e
  <2>4. Range(Append(inbox, e)) = Range(inbox) \cup {e}
    BY <1>r, <2>3, RangeAppend
  <2>5. \A m \in Received : m.conf.ts < e.conf.ts
    BY <2>2, ReceivedStamps
  <2>6. Increasing(Append(inbox, e))
    BY <1>r, <2>3, <2>5, IncreasingAppend DEF Order, Received
  <2> QED
    <3>1. Increasing(waiting') /\ Increasing(inbox')
      BY <2>1, <2>6 DEF Order
    <3>2. ASSUME NEW m \in Range(waiting'), NEW n \in Range(inbox') PROVE m.conf.ts < n.conf.ts
      <4>1. m \in Range(waiting) /\ m \in Received
        BY <2>1 DEF Received
      <4> QED
        BY <2>1, <2>4, <2>5, <4>1 DEF Order
    <3> QED
      BY <2>1, <3>1, <3>2 DEF Order
<1>6. \/ UNCHANGED <<inbox, waiting, ready>> /\ (ready = 0 \/ pending' = pending)
      \/ UNCHANGED <<inbox, waiting>> /\ pending' = None
      \/ inbox' = <<>> /\ waiting' \in {<<>>, waiting} /\ ready' = 0
      \/ (OnJson /\ ready = 0) \/ WakeHandler
      \/ (CloudEdit("conf") \/ CloudEdit("event")) /\ ready = 0
  BY DEF Next, Progress, vars, apply, handlers, Boot, Install, FinishApply,
     FetchConf, StartApply, UploadWakes, CloudServes, Connect, Reconnect, LocalEdit, NewConf,
     NewEvent, Crash, CrashInSave, Stop, Gone, AnswerLost, CallTimeout, StartRefresh, LinkBreaks
<1>7. CASE UNCHANGED <<inbox, waiting, ready>> /\ (ready = 0 \/ pending' = pending)
  BY <1>7 DEF Order
<1> QED
  BY <1>1, <1>2, <1>3, <1>4, <1>5, <1>6, <1>7

-----------------------------------------------------------------------------
(***************************************************************************)
(* The beginning of a process: what start() has fetched is older than all  *)
(* that is pushed afterwards, as long as the connection holds.             *)
(***************************************************************************)

Steady == Excluding({"outage", "refresh"})

Beginning ==
  /\ ~May("refresh") => ~refreshing
  /\ ~May("early") => (fetched # None => fetched = cloud)
  /\ Steady /\ ~started /\ (fetched = None \/ ~May("early")) =>
       Received = {} /\ applying = None
  /\ Steady /\ fetched # None =>
       /\ \A m \in Received : m.conf.ts > fetched.ts
       /\ applying # None => applying.conf.ts > fetched.ts
       /\ pending # None => pending.conf.ts > fetched.ts
       /\ (applying # None /\ applying.installed) \/ ready > 0 \/ pending # None =>
            mem.ts >= fetched.ts

\* How the phases of start() follow each other.
LEMMA StartSteps ==
  ASSUME TypeInv, Shape, [Next]_vars
  PROVE  \/ UNCHANGED <<started, fetched>>
         \/ ~started' /\ fetched' = None /\ applying' = None /\ inbox' = <<>> /\ waiting' = <<>>
         \/ FetchConf
         \/ StartApply
BY DEF Next, Progress, vars, process, Boot, Install, FinishApply, OnJson, WakeHandler,
   UploadWakes, CloudServes, Connect, Reconnect, LocalEdit, NewConf,
   NewEvent, CloudEdit, Crash, CrashInSave, Stop, Gone, AnswerLost, CallTimeout,
   StartRefresh, LinkBreaks

\* Nothing is received, and the cloud's copy stays, between get_conf and the
\* application of what it returned, unless the cloud changes in between.
LEMMA QuietStart ==
  ASSUME TypeInv, Shape, [Next]_vars, ~started, UNCHANGED <<started, fetched>>,
         fetched = None \/ ~May("early")
  PROVE  /\ Received = {} => Received' = {}
         /\ fetched # None => cloud' = cloud
<1>1. ~LocalEdit /\ ~CloudServes /\ ~AnswerLost /\ ~CallTimeout
  BY DEF LocalEdit, CloudServes, AnswerLost, CallTimeout, Shape, Phases
<1>2. ASSUME NEW kind, CloudEdit(kind)
      PROVE  fetched = None /\ inbox' = inbox /\ waiting' = waiting
  BY <1>2 DEF CloudEdit
<1>3. fetched # None => cloud' = cloud
  BY <1>1, <1>2 DEF Next, Progress, vars, Boot, Install, FinishApply, OnJson, WakeHandler,
     FetchConf, StartApply, UploadWakes, Connect, Reconnect, NewConf, NewEvent,
     Crash, CrashInSave, Stop, StartRefresh, LinkBreaks
<1>4. ASSUME Received = {} PROVE Received' = {}
  <2>1. inbox = <<>> /\ waiting = <<>> /\ ready = 0
    <3>1. inbox = <<>> /\ waiting = <<>>
      BY <1>4, QueueElements
    <3> QED
      BY <3>1 DEF Shape, Phases
  <2>2. inbox' \in {inbox, <<>>} /\ waiting' \in {waiting, <<>>}
    <3>1. ~OnJson /\ ~WakeHandler
      BY <2>1 DEF OnJson, WakeHandler
    <3> QED
      BY <1>1, <1>2, <3>1 DEF Next, Progress, vars, handlers, Boot, Install, FinishApply, OnJson, WakeHandler,
       FetchConf, StartApply, UploadWakes, Connect, Reconnect, NewConf, NewEvent,
       Crash, CrashInSave, Stop, Gone, StartRefresh, LinkBreaks
  <2> QED
    BY <2>1, <2>2, RangeEmpty DEF Received
<1> QED
  BY <1>3, <1>4

\* An apply of nothing.
LEMMA NothingComes ==
  ASSUME TypeInv, Shape, [Next]_vars, Received = {}, applying = None, ~StartApply, ~Reconnect
  PROVE  applying' = None
BY ApplySteps DEF apply, Gone, Install, FinishApply

\* The end of an apply wakes the handlers that wait.
LEMMA ReadyChange ==
  ASSUME TypeInv, [Next]_vars
  PROVE  ready' > 0 => ready > 0 \/ (applying # None /\ applying.installed)
BY DEF Next, Progress, vars, handlers, Boot, Install, FinishApply, OnJson, WakeHandler,
   FetchConf, StartApply, UploadWakes, CloudServes, Connect, Reconnect, LocalEdit, NewConf,
   NewEvent, CloudEdit, Crash, CrashInSave, Stop, Gone, AnswerLost, CallTimeout,
   StartRefresh, LinkBreaks

\* Every step keeps what holds at the beginning.
LEMMA StepBeginning ==
  TypeInv /\ Shape /\ Stamps /\ FromCloud /\ Beginning /\ [Next]_vars => Beginning'
<1> SUFFICES ASSUME TypeInv, Shape, Stamps, FromCloud, Beginning, [Next]_vars
             PROVE  Beginning'
  OBVIOUS
<1>w. world' = world
  BY WorldKept
<1>1. ~May("refresh") => ~refreshing'
  BY DEF Next, Progress, vars, network, Boot, Install, FinishApply, OnJson, WakeHandler,
     FetchConf, StartApply, UploadWakes, CloudServes, Connect, Reconnect, LocalEdit, NewConf,
     NewEvent, CloudEdit, Crash, CrashInSave, Stop, Gone, AnswerLost, CallTimeout,
     StartRefresh, LinkBreaks, Beginning
<1>2. ASSUME ~May("early"), fetched' # None PROVE fetched' = cloud'
  <2>1. CASE UNCHANGED <<started, fetched>>
    <3>1. ~started
      BY <1>2, <2>1 DEF Shape, Phases
    <3>2. cloud' = cloud
      BY <1>2, <2>1, <3>1, QuietStart
    <3> QED
      BY <1>2, <2>1, <3>2 DEF Beginning
  <2>2. CASE FetchConf \/ StartApply
    BY <1>2, <2>2 DEF FetchConf, StartApply
  <2> QED
    BY <1>2, <2>1, <2>2, StartSteps
<1>3. ASSUME Steady, ~started', fetched' = None \/ ~May("early")
      PROVE  Received' = {} /\ applying' = None
  <2>r. ~Reconnect
    BY <1>3 DEF Steady, Shape, Circumstances, Reconnect
  <2>1. CASE UNCHANGED <<started, fetched>>
    <3>1. Received = {} /\ applying = None
      BY <1>3, <2>1 DEF Beginning
    <3>2. Received' = {}
      BY <1>3, <2>1, <3>1, QuietStart
    <3>3. ~StartApply
      BY <1>3 DEF StartApply
    <3> QED
      BY <2>r, <3>1, <3>2, <3>3, NothingComes
  <2>2. CASE inbox' = <<>> /\ waiting' = <<>> /\ applying' = None
    BY <2>2, RangeEmpty DEF Received
  <2>3. CASE FetchConf
    <3>1. /\ ~started /\ fetched = None
          /\ UNCHANGED <<inbox, waiting, applying>>
      BY <2>3 DEF FetchConf, handlers, apply
    <3> QED
      BY <1>3, <3>1 DEF Beginning, Received
  <2> QED
    BY <1>3, <2>1, <2>2, <2>3, StartSteps DEF StartApply
<1>4. ASSUME Steady, fetched' # None
      PROVE  /\ \A m \in Received' : m.conf.ts > fetched'.ts
             /\ applying' # None => applying'.conf.ts > fetched'.ts
             /\ pending' # None => pending'.conf.ts > fetched'.ts
             /\ (applying' # None /\ applying'.installed) \/ ready' > 0 \/ pending' # None =>
                  mem'.ts >= fetched'.ts
  <2>r. ~Reconnect /\ ~StartApply
    BY <1>4 DEF Steady, Shape, Circumstances, Reconnect, StartApply
  <2>1. CASE UNCHANGED <<started, fetched>>
    <3>1. ~started /\ up /\ up' /\ fetched # None /\ fetched' = fetched
      BY <1>4, <2>1 DEF Shape, Phases, Ended, Next, Progress, vars, process, Boot, Install, FinishApply, OnJson, WakeHandler,
         FetchConf, StartApply, UploadWakes, CloudServes, Connect, Reconnect, LocalEdit, NewConf,
         NewEvent, CloudEdit, Crash, CrashInSave, Stop, Gone, AnswerLost, CallTimeout,
         StartRefresh, LinkBreaks
    <3>t. /\ fetched \in Config /\ fetched.ts \in Nat /\ mem.ts \in Nat /\ mem'.ts \in Nat
          /\ applying # None => applying.conf.ts \in Nat
          /\ \A m \in Received : m.conf.ts \in Nat
          /\ applying \in [conf: Config, installed: BOOLEAN] \cup {None}
      <4>1. TypeInv'
        BY StepTypes
      <4>2. mem' \in Config
        BY <4>1 DEF TypeInv, TypeOK
      <4>3. /\ mem \in Config /\ fetched \in Config
            /\ applying \in [conf: Config, installed: BOOLEAN] \cup {None}
        BY <3>1 DEF TypeInv, TypeOK
      <4>4. applying # None => applying.conf \in Config
        BY <4>3
      <4>5. (\A m \in Received : m.conf \in Config) /\ (\A c \in Config : c.ts \in Nat)
        BY StampTypes, QueueElements
      <4> QED
        BY <4>2, <4>3, <4>4, <4>5
    <3>b. /\ \A m \in Received : m.conf.ts > fetched.ts
          /\ applying # None => applying.conf.ts > fetched.ts
          /\ pending # None => pending.conf.ts > fetched.ts
          /\ (applying # None /\ applying.installed) \/ ready > 0 \/ pending # None =>
               mem.ts >= fetched.ts
      BY <1>4, <3>1 DEF Beginning
    <3>c. clock \in Nat /\ fetched.ts <= clock
      <4>1. fetched \in Coming
        BY <3>t DEF Coming
      <4> QED
        BY <3>t, <4>1, ReceivedStamps DEF FromCloud
    <3>2. ASSUME NEW m \in Received' PROVE m.conf.ts > fetched.ts
      <4>1. CASE Pushed(m)
        BY <3>c, <3>t, <4>1 DEF Pushed
      <4> QED
        BY <3>b, <3>2, <4>1, ReceivedChange
    <3>m. mem'.ts = mem.ts \/ mem'.ts > fetched.ts
      <4>1. mem' = applying.conf /\ Uninstalled => mem'.ts > fetched.ts
        BY <3>b DEF Uninstalled
      <4>2. clock' = clock + 1 /\ mem'.ts = clock' => mem'.ts > fetched.ts
        BY <3>c, <3>t
      <4> QED
        BY <3>1, <4>1, <4>2, MemChange
    <3>a. /\ applying' # None => applying'.conf.ts > fetched.ts
          /\ pending' # None => pending'.conf.ts > fetched.ts
          /\ applying' # None /\ applying'.installed /\ ~(applying # None /\ applying.installed) =>
               mem'.ts > fetched.ts
          /\ pending' # None => pending # None \/ ready > 0
      <4>1. CASE UNCHANGED apply
        BY <3>b, <4>1 DEF apply
      <4>2. CASE Install
        BY <3>b, <3>t, <4>2 DEF Install, Save
      <4>3. CASE FinishApply
        BY <3>b, <4>3 DEF FinishApply, NextApply
      <4>4. ASSUME NEW m \in Received, ApplyCloudConfig(m.conf, FALSE), applying = None \/ ready > 0
            PROVE  /\ applying' # None => applying'.conf.ts > fetched.ts
                   /\ pending' # None => pending'.conf.ts > fetched.ts
                   /\ applying' # None /\ applying'.installed => applying # None /\ applying.installed
                   /\ pending' # None => pending # None \/ ready > 0
        BY <3>b, <4>4 DEF ApplyCloudConfig, apply
      <4> QED
        BY <2>r, <3>1, <4>1, <4>2, <4>3, <4>4, ApplySteps DEF Gone
    <3>5. ASSUME (applying' # None /\ applying'.installed) \/ ready' > 0 \/ pending' # None
          PROVE  mem'.ts >= fetched'.ts
      <4>1. ready' > 0 => ready > 0 \/ (applying # None /\ applying.installed)
        BY ReadyChange
      <4>2. mem.ts >= fetched.ts => mem'.ts >= fetched.ts
        BY <3>m, <3>t
      <4> QED
        BY <3>1, <3>a, <3>b, <3>t, <3>5, <4>1, <4>2
    <3> QED
      BY <3>1, <3>2, <3>a, <3>5
  <2>2. CASE FetchConf
    <3>1. /\ ~started /\ fetched = None /\ UNCHANGED <<apply, handlers>>
      BY <2>2 DEF FetchConf
    <3>2. Received = {} /\ applying = None /\ Received' = {}
      BY <1>4, <3>1 DEF Beginning, Received, handlers
    <3>3. pending = None /\ ready = 0
      BY <3>2, QueueElements DEF Shape, Phases
    <3> QED
      BY <3>1, <3>2, <3>3 DEF apply, handlers
  <2> QED
    BY <1>4, <2>r, <2>1, <2>2, StartSteps
<1> QED
  BY <1>w, <1>1, <1>2, <1>3, <1>4 DEF Beginning, Steady, Excluding, May

-----------------------------------------------------------------------------
(***************************************************************************)
(* Where users do not save during an apply, and a manager in the cloud     *)
(* fetches its configuration in peace, nothing that is sent is newer than  *)
(* what the manager has, and a copy that replaces a newer configuration    *)
(* finds nothing to overtake.                                              *)
(***************************************************************************)

Gentle == /\ Excluding({"hasty"})
          /\ May("zagent") => Excluding({"early", "outage", "refresh"})
Forced == Uninstalled /\ applying.conf.ts < mem.ts

Undisturbed ==
  Gentle => /\ pending # None => ~pending.force
            /\ \A c \in Sent : c.ts <= mem.ts
            /\ Forced => Sent = {} /\ ready = 0 /\ May("zagent")

\* Every step leaves it undisturbed.
LEMMA StepUndisturbed ==
  /\ TypeInv /\ Shape /\ Stamps /\ FromCloud /\ Beginning /\ Undisturbed
  /\ [Next]_vars
  => Undisturbed'
<1> SUFFICES ASSUME TypeInv, Shape, Stamps, FromCloud, Beginning, Undisturbed, [Next]_vars, Gentle
             PROVE  /\ pending' # None => ~pending'.force
                    /\ \A c \in Sent' : c.ts <= mem'.ts
                    /\ Forced' => Sent' = {} /\ ready' = 0 /\ May("zagent")
  BY WorldKept DEF Undisturbed, Gentle, Excluding, May
<1>u. /\ pending # None => ~pending.force
      /\ \A c \in Sent : c.ts <= mem.ts
      /\ Forced => Sent = {} /\ ready = 0 /\ May("zagent")
  BY DEF Undisturbed
<1>z. /\ May("zagent") => Steady /\ ~May("early") /\ ZagentForce = TRUE
      /\ ~May("zagent") => ZagentForce = FALSE
      /\ Excluding({"hasty"})
  BY DEF Gentle, Excluding, May, ZagentForce, Steady
<1>b. May("zagent") /\ ~started => Received = {} /\ applying = None /\ ready = 0 /\ Sent = {}
  <2>1. May("zagent") /\ ~started => Received = {} /\ applying = None
    BY <1>z DEF Beginning
  <2>2. Received = {} => ready = 0
    BY QueueElements DEF Shape, Phases
  <2>3. ~started => Sent = {}
    BY RangeEmpty DEF Shape, Phases, Sent
  <2> QED
    BY <2>1, <2>2, <2>3
<1>t. /\ mem.ts \in Nat /\ mem'.ts \in Nat /\ clock \in Nat /\ mem.ts <= clock
      /\ \A c \in Sent : c.ts \in Nat /\ c.ts <= clock
      /\ applying # None => applying.conf.ts \in Nat
      /\ \A m \in Received : m.conf.ts \in Nat
      /\ applying \in [conf: Config, installed: BOOLEAN] \cup {None}
      /\ cloud.ts \in Nat /\ (fetched # None => fetched.ts \in Nat)
      /\ pending # None => pending.conf.ts \in Nat
  <2>1. TypeInv'
    BY StepTypes
  <2>2. mem' \in Config
    BY <2>1 DEF TypeInv, TypeOK
  <2>3. /\ \A c \in Config : c.ts \in Nat
        /\ Sent \subseteq Config /\ (\A m \in Received : m.conf \in Config) /\ clock \in Nat
    BY StampTypes, QueueElements
  <2> QED
    BY <2>2, <2>3, StateTypes DEF Stamps
<1>1. pending' # None => ~pending'.force
  <2>1. ASSUME NEW c, ApplyCloudConfig(c, FALSE) PROVE pending' # None => ~pending'.force
    BY <1>u, <2>1 DEF ApplyCloudConfig, apply
  <2>2. CASE StartApply /\ May("zagent")
    BY <1>u, <1>b, <2>2 DEF StartApply, ApplyCloudConfig, apply
  <2> QED
    BY <1>u, <1>z, <2>1, <2>2, ApplySteps DEF apply, Gone, Install, FinishApply
<1>2. ASSUME NEW c \in Sent' PROVE c.ts <= mem'.ts
  <2>1. CASE c = mem'
    BY <1>t, <2>1
  <2>2. CASE c \in Sent
    <3>1. CASE mem'.ts = mem.ts
      BY <1>u, <2>2, <3>1
    <3>2. CASE clock' = clock + 1 /\ mem'.ts = clock'
      BY <1>t, <2>2, <3>2
    <3>3. CASE ~up
      BY <2>2, <3>3, RangeEmpty DEF Shape, Ended, Sent
    <3>4. CASE Uninstalled /\ mem' = applying.conf
      <4>1. ~Forced
        BY <1>u, <2>2
      <4>2. mem.ts <= applying.conf.ts
        BY <1>t, <3>4, <4>1 DEF Forced, Uninstalled
      <4>3. c.ts \in Nat /\ c.ts <= mem.ts
        BY <1>t, <1>u, <2>2
      <4> QED
        BY <1>t, <3>4, <4>2, <4>3
    <3> QED
      BY <3>1, <3>2, <3>3, <3>4, MemChange
  <2> QED
    BY <2>1, <2>2, SentChange
<1>3. ASSUME Forced' PROVE Sent' = {} /\ ready' = 0 /\ May("zagent")
  <2>s. ASSUME mem'.ts = mem.ts, Sent = {} PROVE Sent' = {}
    BY <1>t, <2>s, SentChange
  <2>r. ready = 0 /\ (applying = None \/ ~applying.installed) => ready' = 0
    <3>1. ready' \in Nat
      <4>1. TypeInv'
        BY StepTypes
      <4> QED
        BY <4>1, LenProperties DEF TypeInv, TypeOK
    <3> QED
      BY <3>1, ReadyChange
  <2>f. ASSUME Forced, mem'.ts = mem.ts PROVE Sent' = {} /\ ready' = 0 /\ May("zagent")
    BY <1>u, <2>s, <2>r, <2>f DEF Forced, Uninstalled
  <2>1. CASE UNCHANGED apply
    <3>1. Uninstalled /\ applying' = applying /\ ~Install
      BY <1>t, <1>3, <2>1 DEF apply, Forced, Uninstalled, Install
    <3>2. mem'.ts = mem.ts
      BY <1>z, <3>1, MemWaits DEF Uninstalled, Shape, Ended
    <3> QED
      BY <1>3, <2>f, <3>1, <3>2 DEF Forced
  <2>2. CASE Install
    BY <1>t, <1>3, <2>2 DEF Install, Forced, Uninstalled
  <2>3. CASE FinishApply
    BY <1>t, <1>u, <1>3, <2>3 DEF FinishApply, NextApply, Forced, Uninstalled
  <2>4. ASSUME NEW c, c.ts \in Nat, ApplyCloudConfig(c, FALSE), mem' = mem
        PROVE  Sent' = {} /\ ready' = 0 /\ May("zagent")
    <3>1. applying' = applying
      BY <1>t, <1>3, <2>4 DEF ApplyCloudConfig, apply, Forced, Uninstalled
    <3> QED
      BY <1>3, <2>f, <2>4, <3>1 DEF Forced, Uninstalled
  <2>5. CASE StartApply /\ May("zagent")
    <3>1. ~started /\ mem' = mem
      BY <2>5 DEF StartApply
    <3> QED
      BY <1>b, <2>5, <2>r, <2>s, <3>1
  <2>6. CASE StartApply /\ ~May("zagent") /\ mem' = mem
    BY <1>z, <1>t, <2>4, <2>6 DEF StartApply
  <2> QED
    BY <1>3, <1>t, <2>1, <2>2, <2>3, <2>4, <2>5, <2>6, ApplySteps DEF Gone, Forced, Uninstalled
<1> QED
  BY <1>1, <1>2, <1>3

-----------------------------------------------------------------------------
(***************************************************************************)
(* A connected manager is up to date, or something that will make it so is *)
(* under way: an apply that has not replaced the configuration, the one    *)
(* that is pending, or a message.                                          *)
(***************************************************************************)

Fresh == \/ mem.ts >= cloud.ts /\ ~Forced
         \/ Uninstalled /\ applying.conf.ts >= cloud.ts
         \/ pending # None /\ pending.conf.ts >= cloud.ts
         \/ \E m \in Received : m.conf.ts >= cloud.ts

\* The circumstances in which whole configurations are pushed.
Pushing == /\ Gentle /\ Excluding({"refresh", "events"})
           /\ ~(May("early") /\ May("outage"))

UpToDate ==
  Pushing /\ up /\ link = "on" =>
    /\ started => Fresh
    /\ fetched # None => fetched.ts >= cloud.ts \/ Fresh

\* A task is not the lack of one.
LEMMA TasksAreSome ==
  ASSUME NEW c \in Config
  PROVE  [conf |-> c, installed |-> FALSE] # None /\ [conf |-> c, force |-> FALSE] # None
<1>1. /\ [conf |-> c, installed |-> FALSE] \in [conf: Config, installed: BOOLEAN]
      /\ [conf |-> c, force |-> FALSE] \in [conf: Config, force: BOOLEAN]
  OBVIOUS
<1> QED
  BY <1>1, MarkersAssumption

\* What is newer than the cloud's copy and is applied makes the manager fresh.
LEMMA ApplyFreshens ==
  ASSUME TypeInv, NEW c \in Config, ApplyCloudConfig(c, FALSE), mem' = mem, cloud' = cloud,
         c.ts >= cloud.ts, ~Forced
  PROVE  Fresh'
<1>t. /\ mem.ts \in Nat /\ cloud.ts \in Nat /\ c.ts \in Nat
      /\ [conf |-> c, installed |-> FALSE] # None /\ [conf |-> c, force |-> FALSE] # None
  BY StateTypes, StampTypes, TasksAreSome
<1>1. CASE c.ts <= mem.ts /\ UNCHANGED apply
  BY <1>t, <1>1 DEF apply, Fresh, Forced, Uninstalled
<1>2. CASE pending' = [conf |-> c, force |-> FALSE]
  BY <1>t, <1>2 DEF Fresh
<1>3. CASE applying' = [conf |-> c, installed |-> FALSE]
  BY <1>t, <1>3 DEF Fresh, Uninstalled
<1> QED
  BY <1>1, <1>2, <1>3 DEF ApplyCloudConfig

\* What is applied spoils nothing, unless it takes the place of a newer one.
LEMMA ApplyKeepsFresh ==
  ASSUME TypeInv, Shape, NEW c \in Config, ApplyCloudConfig(c, FALSE), mem' = mem, cloud' = cloud,
         pending # None => pending.conf.ts <= c.ts,
         \/ mem.ts >= cloud.ts /\ ~Forced
         \/ Uninstalled /\ applying.conf.ts >= cloud.ts
         \/ pending # None /\ pending.conf.ts >= cloud.ts
  PROVE  Fresh'
<1>t. /\ mem.ts \in Nat /\ cloud.ts \in Nat /\ c.ts \in Nat
      /\ [conf |-> c, installed |-> FALSE] # None /\ [conf |-> c, force |-> FALSE] # None
      /\ pending # None => pending.conf.ts \in Nat
  BY StateTypes, StampTypes, TasksAreSome
<1>1. CASE UNCHANGED apply
  BY <1>1 DEF apply, Fresh, Forced, Uninstalled
<1>2. CASE applying # None /\ pending' = [conf |-> c, force |-> FALSE] /\ UNCHANGED applying
  BY <1>t, <1>2 DEF Fresh, Forced, Uninstalled
<1>3. CASE applying = None /\ applying' = [conf |-> c, installed |-> FALSE] /\ c.ts > mem.ts
  BY <1>t, <1>3 DEF Fresh, Forced, Uninstalled, Shape, Phases
<1> QED
  BY <1>1, <1>2, <1>3 DEF ApplyCloudConfig

\* Every step keeps a connected manager fresh.
LEMMA StepUpToDate ==
  /\ TypeInv /\ Shape /\ Stamps /\ FromCloud /\ Beginning /\ Order /\ Kinds
  /\ Undisturbed /\ UpToDate
  /\ [Next]_vars
  => UpToDate'
<1> DEFINE Goal == /\ started' => Fresh'
                   /\ fetched' # None => fetched'.ts >= cloud'.ts \/ Fresh'
<1> SUFFICES ASSUME TypeInv, Shape, Stamps, FromCloud, Beginning, Order, Kinds, Undisturbed,
                    UpToDate, [Next]_vars, Pushing, up', link' = "on"
             PROVE  Goal
  BY WorldKept DEF UpToDate, Pushing, Gentle, Excluding, May
<1>u. /\ pending # None => ~pending.force
      /\ \A c \in Sent : c.ts <= mem.ts
      /\ Forced => Sent = {} /\ ready = 0 /\ May("zagent")
  BY DEF Undisturbed, Pushing
<1>p. /\ ~May("refresh") /\ ~May("events") /\ ~May("hasty")
      /\ May("zagent") => ~May("early") /\ ~May("outage")
      /\ May("early") => ~May("outage") /\ Steady
      /\ May("zagent") => Steady
  BY DEF Pushing, Gentle, Excluding, May, Steady
<1>k. \A m \in Received : m.kind = "conf" /\ m.conf \in Config
  BY <1>p, QueueElements DEF Kinds, Permitted
<1>t. /\ mem.ts \in Nat /\ cloud.ts \in Nat /\ clock \in Nat /\ cloud.ts <= clock
      /\ applying # None => applying.conf.ts \in Nat
      /\ pending # None => pending.conf.ts \in Nat
      /\ fetched # None => fetched.ts \in Nat /\ fetched \in Config
      /\ \A m \in Received : m.conf.ts \in Nat
      /\ \A c \in Sent : c.ts \in Nat
      /\ cloud \in Config
      /\ applying \in [conf: Config, installed: BOOLEAN] \cup {None}
  <2>3. /\ \A c \in Config : c.ts \in Nat
        /\ Sent \subseteq Config /\ (\A m \in Received : m.conf \in Config) /\ clock \in Nat
    BY StampTypes, QueueElements
  <2> QED
    BY <2>3, StateTypes DEF Stamps
<1>f. ASSUME up, link = "on", UNCHANGED <<started, fetched, cloud>>, Fresh => Fresh' PROVE Goal
  BY <1>f DEF UpToDate
<1>1. CASE UNCHANGED <<process, mem, link, apply, cloud>> /\ UNCHANGED <<inbox, waiting>>
  BY <1>f, <1>1 DEF Fresh, Received, process, apply, Forced, Uninstalled
<1>2. CASE Install
  <2>1. /\ mem' = applying.conf /\ ~Uninstalled' /\ Uninstalled
        /\ UNCHANGED <<pending, inbox, waiting, cloud>>
    BY <1>t, <1>2 DEF Install, Save, Uninstalled, handlers
  <2>2. Fresh => Fresh'
    BY <1>t, <2>1 DEF Fresh, Received, Forced, Uninstalled
  <2> QED
    BY <1>2, <1>f, <2>2 DEF Install, process, network
<1>3. CASE FinishApply
  <2> DEFINE d == [conf |-> pending.conf, installed |-> FALSE]
  <2>a. /\ ~Uninstalled /\ mem' = mem /\ cloud' = cloud /\ Received' = Received
        /\ pending = None \/ pending.conf.ts <= mem.ts => applying' = None
        /\ pending # None /\ pending.conf.ts > mem.ts => applying' = d
    BY <1>t, <1>u, <1>3 DEF FinishApply, NextApply, Uninstalled, Received
  <2>b. pending # None => d # None
    BY TasksAreSome DEF TypeInv, TypeOK
  <2>1. ASSUME Fresh PROVE Fresh'
    <3>1. CASE \E m \in Received : m.conf.ts >= cloud.ts
      BY <2>a, <3>1 DEF Fresh
    <3>2. CASE pending # None /\ pending.conf.ts > mem.ts
      BY <1>t, <2>1, <2>a, <2>b, <3>2 DEF Fresh, Forced, Uninstalled
    <3>3. CASE pending = None \/ pending.conf.ts <= mem.ts
      BY <1>t, <2>1, <2>a, <3>3 DEF Fresh, Forced, Uninstalled
    <3> QED
      BY <1>t, <3>2, <3>3
  <2> QED
    BY <1>3, <1>f, <2>1 DEF FinishApply, process, network
<1>4. CASE OnJson
  <2>1. CASE inbox' = Tail(inbox) /\ waiting' = Append(waiting, Head(inbox)) /\ UNCHANGED <<mem, apply>>
    <3>1. inbox # <<>> /\ cloud' = cloud
      BY <1>4 DEF OnJson
    <3>2. Head(inbox) \in Msg /\ Range(inbox) = {Head(inbox)} \cup Range(inbox')
      BY <2>1, <3>1, QueueTypes, QueueElements
    <3>3. Range(waiting') = Range(waiting) \cup {Head(inbox)}
      BY <2>1, <3>2, RangeAppend DEF TypeInv
    <3>4. Received' = Received
      BY <3>2, <3>3 DEF Received
    <3>5. Fresh => Fresh'
      BY <2>1, <3>1, <3>4 DEF Fresh, apply, Forced, Uninstalled
    <3> QED
      BY <1>4, <1>f, <3>5 DEF OnJson, process, network
  <2>2. CASE applying = None /\ Handle(Head(inbox)) /\ waiting' = waiting
    <3> DEFINE m == Head(inbox)
    <3>1. inbox # <<>> /\ inbox' = Tail(inbox) /\ cloud' = cloud
      BY <1>4 DEF OnJson
    <3>2. m \in Received /\ Received = {m} \cup Received'
      BY <2>2, <3>1, QueueElements DEF Received
    <3> HIDE DEF m
    <3>3. ApplyCloudConfig(m.conf, FALSE) /\ mem' = mem /\ m.conf \in Config
      BY <1>k, <2>2, <3>2 DEF Handle, m
    <3>4. ~Forced /\ pending = None
      BY <2>2 DEF Forced, Uninstalled, Shape, Phases
    <3>5. ASSUME Fresh PROVE Fresh'
      <4>1. CASE m.conf.ts >= cloud.ts
        BY <3>1, <3>3, <3>4, <4>1, ApplyFreshens
      <4>2. CASE \E n \in Received' : n.conf.ts >= cloud.ts
        BY <3>1, <4>2 DEF Fresh
      <4>3. CASE mem.ts >= cloud.ts /\ ~Forced
        BY <3>1, <3>3, <3>4, <4>3, ApplyKeepsFresh
      <4> QED
        BY <2>2, <3>2, <3>4, <3>5, <4>1, <4>2, <4>3 DEF Fresh, Uninstalled
    <3> QED
      BY <1>4, <1>f, <3>5 DEF OnJson, process, network
  <2> QED
    BY <1>4, <2>1, <2>2 DEF OnJson
<1>5. CASE WakeHandler
  <2> DEFINE m == Head(waiting)
  <2>1. /\ waiting # <<>> /\ waiting' = Tail(waiting) /\ inbox' = inbox /\ cloud' = cloud
        /\ ready > 0 /\ Handle(m)
    BY <1>5, LenProperties DEF WakeHandler, TypeInv, TypeOK
  <2>2. m \in Received /\ m \in Range(waiting) /\ Received = {m} \cup Received'
    BY <2>1, QueueElements DEF Received
  <2> HIDE DEF m
  <2>3. ApplyCloudConfig(m.conf, FALSE) /\ mem' = mem /\ m.conf \in Config
    BY <1>k, <2>1, <2>2 DEF Handle
  <2>4. ~Forced /\ (pending # None => pending.conf.ts <= m.conf.ts)
    BY <1>t, <1>u, <2>1, <2>2 DEF Order
  <2>5. ASSUME Fresh PROVE Fresh'
    <3>1. CASE m.conf.ts >= cloud.ts
      BY <2>1, <2>3, <2>4, <3>1, ApplyFreshens
    <3>2. CASE \E n \in Received' : n.conf.ts >= cloud.ts
      BY <2>1, <3>2 DEF Fresh
    <3>3. CASE \/ mem.ts >= cloud.ts /\ ~Forced
               \/ Uninstalled /\ applying.conf.ts >= cloud.ts
               \/ pending # None /\ pending.conf.ts >= cloud.ts
      BY <2>1, <2>3, <2>4, <3>3, ApplyKeepsFresh
    <3> QED
      BY <2>2, <2>5, <3>1, <3>2, <3>3 DEF Fresh
  <2> QED
    BY <1>5, <1>f, <2>5 DEF WakeHandler, process, network
<1>6. CASE FetchConf
  BY <1>t, <1>6 DEF FetchConf
<1>7. CASE StartApply
  <2>1. /\ up /\ ~started /\ fetched # None /\ fetched' = None /\ link = "on"
        /\ ApplyCloudConfig(fetched, ZagentForce)
        /\ UNCHANGED <<mem, cloud, inbox, waiting>>
    BY <1>7 DEF StartApply, handlers, network
  <2>2. Received' = Received
    BY <2>1 DEF Received
  <2>3. fetched.ts >= cloud.ts \/ Fresh
    BY <2>1 DEF UpToDate
  <2>4. CASE May("zagent")
    <3>1. fetched = cloud /\ applying = None /\ ZagentForce = TRUE
      BY <1>p, <2>1, <2>4 DEF Beginning, ZagentForce
    <3>2. applying' = [conf |-> cloud, installed |-> FALSE]
      BY <2>1, <3>1 DEF ApplyCloudConfig
    <3> QED
      BY <1>t, <2>1, <3>2, TasksAreSome DEF Fresh, Uninstalled
  <2>5. CASE ~May("zagent")
    <3>1. ApplyCloudConfig(fetched, FALSE) /\ ~Forced
      <4>1. ZagentForce = FALSE
        BY <2>5 DEF ZagentForce, May
      <4> QED
        BY <1>u, <2>1, <2>5, <4>1
    <3>2. CASE fetched.ts >= cloud.ts
      BY <1>t, <2>1, <3>1, <3>2, ApplyFreshens
    <3>3. CASE fetched.ts < cloud.ts
      <4>1. Steady /\ Fresh
        <5>1. fetched # cloud
          BY <1>t, <3>3
        <5>2. May("early")
          BY <2>1, <5>1 DEF Beginning
        <5> QED
          BY <1>p, <1>t, <2>1, <2>3, <3>3, <5>2
      <4>2. CASE pending # None
        <5>1. fetched.ts <= mem.ts
          BY <1>t, <2>1, <4>1, <4>2 DEF Beginning
        <5>2. UNCHANGED apply
          BY <1>t, <2>1, <3>1, <5>1 DEF ApplyCloudConfig
        <5> QED
          BY <2>1, <2>2, <4>1, <5>2 DEF Fresh, apply, Forced, Uninstalled
      <4>3. CASE pending = None
        <5>1. CASE \E m \in Received : m.conf.ts >= cloud.ts
          BY <2>1, <2>2, <5>1 DEF Fresh
        <5> QED
          BY <1>t, <2>1, <3>1, <4>1, <4>3, <5>1, ApplyKeepsFresh DEF Fresh
      <4> QED
        BY <4>2, <4>3
    <3> QED
      BY <1>t, <2>1, <3>2, <3>3
  <2> QED
    BY <2>1, <2>4, <2>5
<1>8. CASE LocalEdit
  <2>1. /\ started /\ applying = None /\ clock' = clock + 1 /\ mem'.ts = clock + 1
        /\ UNCHANGED <<process, apply, cloud>>
    BY <1>p, <1>8 DEF LocalEdit, Save
  <2>2. Fresh'
    BY <1>t, <2>1 DEF Fresh, Forced, Uninstalled, apply
  <2>3. fetched' = None
    BY <2>1 DEF process, Shape, Phases
  <2> QED
    BY <2>2, <2>3
<1>9. CASE CloudServes
  <2>1. /\ calls # <<>> /\ cloud' = Newer(Head(calls)) /\ up /\ link = "on"
        /\ UNCHANGED <<process, mem, apply, inbox, waiting>>
    BY <1>9 DEF CloudServes, handlers
  <2>2. Head(calls) \in Sent /\ started /\ fetched = None
    BY <2>1, QueueElements DEF Shape, Phases
  <2>3. Fresh /\ Head(calls).ts <= mem.ts /\ Head(calls).ts \in Nat
    BY <1>t, <1>u, <2>1, <2>2 DEF UpToDate
  <2>4. CASE cloud' = cloud
    BY <2>1, <2>2, <2>3, <2>4 DEF Fresh, Received, process, apply, Forced, Uninstalled
  <2>5. CASE cloud' = Head(calls)
    <3>1. ~Forced
      BY <1>u, <2>2
    <3> QED
      BY <1>t, <2>1, <2>2, <2>3, <2>5, <3>1 DEF Fresh, process, apply, Forced, Uninstalled
  <2> QED
    BY <2>1, <2>4, <2>5 DEF Newer
<1>10. ASSUME NEW kind \in {"conf", "event"}, CloudEdit(kind) PROVE Goal
  <2> DEFINE e == [kind |-> kind, conf |-> cloud']
  <2>1. /\ UNCHANGED <<process, link>>
        /\ up /\ link = "on" /\ (started \/ fetched # None) => inbox' = Append(inbox, e)
    BY <1>10 DEF CloudEdit, network
  <2>2. cloud' \in Config
    BY <1>10, StampTypes DEF CloudEdit, Config, TypeInv, TypeOK
  <2>3. e \in Msg /\ e.conf = cloud'
    BY <2>2 DEF Msg
  <2> HIDE DEF e
  <2>4. ASSUME started \/ fetched # None PROVE Fresh'
    <3>1. inbox' = Append(inbox, e)
      BY <2>1, <2>4 DEF process
    <3>2. e \in Received'
      BY <2>3, <3>1, RangeAppend DEF Received, TypeInv
    <3>3. cloud'.ts \in Nat
      BY <2>2, StampTypes
    <3> QED
      BY <2>3, <3>2, <3>3 DEF Fresh
  <2> QED
    BY <2>1, <2>4 DEF process
<1>11. CASE Reconnect
  <2>1. /\ up /\ link = "off" /\ UNCHANGED <<mem, process, cloud>>
        /\ ~refreshing => ApplyCloudConfig(cloud, FALSE)
    BY <1>11 DEF Reconnect
  <2>2. ~refreshing /\ May("outage")
    BY <1>p, <2>1 DEF Beginning, Shape, Circumstances, Excluding, May
  <2>3. ~Forced
    BY <1>p, <1>u, <2>2
  <2>4. Fresh'
    <3>1. ApplyCloudConfig(cloud, FALSE) /\ cloud.ts >= cloud.ts /\ mem' = mem /\ cloud' = cloud
      <4>1. cloud.ts >= cloud.ts
        BY <1>t
      <4>2. mem' = mem /\ cloud' = cloud
        BY <2>1
      <4> QED
        BY <2>1, <2>2, <4>1, <4>2
    <3> QED
      BY <1>t, <2>3, <3>1, ApplyFreshens
  <2> QED
    BY <2>4
<1>12. CASE Connect
  BY <1>12 DEF Connect, process, Shape, Phases
<1> QED
  BY <1>1, <1>2, <1>3, <1>4, <1>5, <1>6, <1>7, <1>8, <1>9, <1>10, <1>11, <1>12
  DEF Next, Progress, vars, process, handlers, network, NewConf, NewEvent, Boot, UploadWakes,
     Crash, CrashInSave, Stop, Gone, AnswerLost, CallTimeout, StartRefresh, LinkBreaks, Shape, Ended

-----------------------------------------------------------------------------
(***************************************************************************)
(* Where only single changes are pushed: every edit that the cloud has is  *)
(* in the manager, or comes with an apply or a message.                    *)
(***************************************************************************)

Single == /\ May("events")
          /\ Excluding({"confs", "outage", "faults", "early", "hasty", "refresh"})

Singly ==
  Single =>
    /\ ~started => Received = {} /\ applying = None /\ mem = [ts |-> 1, body |-> {1}]
    /\ pending = None /\ (ready > 0 => applying = None)
    /\ 1 \in cloud.body /\ (cloud.ts = 1 => cloud.body = {1}) /\ 1 \in mem.body
    /\ Uninstalled => mem.body \subseteq applying.conf.body /\ Sent = {}
    /\ \A c \in Sent : 1 \in c.body /\ c.body \subseteq mem.body
    /\ started => \A e \in cloud.body :
                    \/ e \in mem.body
                    \/ Uninstalled /\ e \in applying.conf.body
                    \/ \E m \in Received : m.conf.ts = e

\* Every step keeps track of the single changes.
LEMMA StepSingly ==
  /\ TypeInv /\ Shape /\ Stamps /\ FromCloud /\ Beginning /\ Kinds /\ Singly
  /\ [Next]_vars
  => Singly'
<1> DEFINE S ==
    /\ ~started => Received = {} /\ applying = None /\ mem = [ts |-> 1, body |-> {1}]
    /\ pending = None /\ (ready > 0 => applying = None)
    /\ 1 \in cloud.body /\ (cloud.ts = 1 => cloud.body = {1}) /\ 1 \in mem.body
    /\ Uninstalled => mem.body \subseteq applying.conf.body /\ Sent = {}
    /\ \A c \in Sent : 1 \in c.body /\ c.body \subseteq mem.body
    /\ started => \A e \in cloud.body :
                    \/ e \in mem.body
                    \/ Uninstalled /\ e \in applying.conf.body
                    \/ \E m \in Received : m.conf.ts = e
<1> SUFFICES ASSUME TypeInv, Shape, Stamps, FromCloud, Beginning, Kinds, Singly, [Next]_vars, Single
             PROVE  S'
  BY WorldKept DEF Singly, Single, Excluding, May
<1>s. S
  BY DEF Singly
<1>p. /\ ~May("outage") /\ ~May("faults") /\ ~May("early") /\ ~May("hasty") /\ ~May("refresh")
      /\ ~May("confs") /\ ~Strike /\ up /\ link # "off" /\ Steady
  BY DEF Single, Excluding, May, Strike, Shape, Circumstances, Steady
<1>k. \A m \in Received : m.kind = "event" /\ m \in Msg
  BY <1>p, QueueElements DEF Kinds, Permitted
<1>t. /\ mem \in Config /\ cloud \in Config /\ cloud.ts \in Nat \ {0} /\ clock \in Nat \ {0}
      /\ Sent \subseteq Config /\ (\A c \in Config : c.ts \in Nat \ {0}) /\ cloud.ts <= clock
      /\ applying \in [conf: Config, installed: BOOLEAN] \cup {None}
  <2>1. /\ mem \in Config /\ cloud \in Config
        /\ applying \in [conf: Config, installed: BOOLEAN] \cup {None}
    BY DEF TypeInv, TypeOK
  <2>2. /\ clock \in Nat \ {0} /\ Sent \subseteq Config
        /\ \A c \in Config : c.ts \in 1..MaxClock
    BY StampTypes, QueueElements
  <2> QED
    BY <2>1, <2>2 DEF Stamps
<1>1. CASE UNCHANGED <<started, mem, apply, handlers, sending, cloud>>
  BY <1>s, <1>1 DEF apply, handlers, sending, Received, Sent, Uninstalled
<1>2. CASE Install
  <2>1. /\ applying # None /\ mem' = applying.conf /\ Uninstalled /\ ~Uninstalled' /\ started
        /\ UNCHANGED <<started, pending, handlers, sending, cloud>>
    BY <1>t, <1>s, <1>2 DEF Install, Save, Uninstalled, process
  <2>2. Received' = Received /\ Sent' = {} /\ ready' = 0
    BY <1>s, <2>1, LenProperties DEF handlers, sending, Received, Sent, TypeInv, TypeOK
  <2> QED
    BY <1>s, <2>1, <2>2
<1>3. CASE FinishApply
  <2>1. /\ applying # None /\ ~Uninstalled /\ applying' = None /\ pending' = None /\ started
        /\ UNCHANGED <<started, mem, inbox, waiting, sending, cloud>>
    BY <1>s, <1>3 DEF FinishApply, NextApply, Uninstalled, process
  <2>2. Received' = Received /\ Sent' = Sent /\ ~Uninstalled'
    BY <2>1 DEF sending, Received, Sent, Uninstalled
  <2> QED
    BY <1>s, <2>1, <2>2
<1>h. ASSUME NEW m \in Received, Handle(m), Received \subseteq {m} \cup Received', applying = None,
             UNCHANGED <<started, sending, cloud>>, ready' > 0 => ready > 0
      PROVE  S'
  <2>1. m.kind = "event" /\ started /\ m.conf \in Config
    BY <1>s, <1>k, QueueElements
  <2>2. Save([mem EXCEPT !.body = @ \cup {m.conf.ts}]) /\ UNCHANGED apply
    BY <1>h, <2>1 DEF Handle
  <2>3. mem' = [mem EXCEPT !.body = @ \cup {m.conf.ts}]
    BY <2>2 DEF Save
  <2>4. mem'.body = mem.body \cup {m.conf.ts}
    BY <1>t, <2>3 DEF Config
  <2>5. Sent' = Sent /\ ~Uninstalled /\ ~Uninstalled' /\ applying' = None /\ pending' = None
    BY <1>h, <1>s, <2>2 DEF sending, Sent, apply, Uninstalled
  <2>6. ASSUME NEW e \in cloud'.body PROVE e \in mem'.body \/ \E n \in Received' : n.conf.ts = e
    BY <1>h, <1>s, <2>1, <2>4, <2>5, <2>6
  <2> QED
    BY <1>h, <1>s, <2>1, <2>4, <2>5, <2>6
<1>4. CASE OnJson /\ ready = 0
  <2>1. inbox # <<>> /\ inbox' = Tail(inbox) /\ UNCHANGED <<started, sending, cloud, ready>>
    BY <1>4 DEF OnJson, process
  <2>2. Head(inbox) \in Received /\ Head(inbox) \in Msg /\ Range(inbox) = {Head(inbox)} \cup Range(inbox')
    BY <2>1, QueueElements, QueueTypes
  <2>3. CASE applying # None /\ waiting' = Append(waiting, Head(inbox)) /\ UNCHANGED <<mem, apply>>
    <3>1. Range(waiting') = Range(waiting) \cup {Head(inbox)}
      BY <2>2, <2>3, RangeAppend DEF TypeInv
    <3>2. Received' = Received
      BY <2>2, <3>1 DEF Received
    <3> QED
      BY <1>s, <1>4, <2>1, <2>3, <3>2 DEF apply, sending, Sent, Uninstalled
  <2>4. CASE applying = None /\ Handle(Head(inbox)) /\ waiting' = waiting
    <3>1. Received \subseteq {Head(inbox)} \cup Received'
      BY <2>2, <2>4 DEF Received
    <3> QED
      BY <1>h, <2>1, <2>2, <2>4, <3>1
  <2> QED
    BY <1>4, <2>3, <2>4 DEF OnJson
<1>5. CASE WakeHandler
  <2>1. /\ waiting # <<>> /\ waiting' = Tail(waiting) /\ ready > 0 /\ Handle(Head(waiting))
        /\ UNCHANGED <<inbox, started, sending, cloud>>
    BY <1>5, LenProperties DEF WakeHandler, process, TypeInv, TypeOK
  <2>2. Head(waiting) \in Received /\ Range(waiting) = {Head(waiting)} \cup Range(waiting')
    BY <2>1, QueueElements
  <2>3. Received \subseteq {Head(waiting)} \cup Received'
    BY <2>1, <2>2 DEF Received
  <2> QED
    BY <1>h, <1>s, <2>1, <2>2, <2>3
<1>6. CASE StartApply
  <2>1. /\ ~started /\ started' /\ fetched # None /\ ApplyCloudConfig(fetched, ZagentForce)
        /\ UNCHANGED <<mem, cloud, handlers, sending>>
    BY <1>6 DEF StartApply
  <2>2. fetched = cloud /\ Received' = {} /\ applying = None /\ Sent' = {} /\ ready' = 0
    BY <1>p, <1>s, <2>1, RangeEmpty, QueueElements DEF Beginning, Shape, Phases, Received, handlers, sending, Sent
  <2>3. mem.ts = 1 /\ mem.body = {1}
    BY <1>s, <2>1
  <2>4. CASE cloud.ts <= mem.ts /\ UNCHANGED apply
    <3>1. cloud.ts = 1
      BY <1>t, <2>3, <2>4
    <3>2. cloud.body = {1}
      BY <1>s, <3>1
    <3> QED
      BY <1>s, <2>1, <2>2, <2>3, <2>4, <3>2 DEF apply, Uninstalled
  <2>5. CASE applying' = [conf |-> cloud, installed |-> FALSE] /\ pending' = pending
    <3>1. applying' # None
      BY <1>t, <2>5, TasksAreSome
    <3> QED
      BY <1>s, <2>1, <2>2, <2>3, <2>5, <3>1 DEF Uninstalled
  <2> QED
    BY <2>1, <2>2, <2>4, <2>5 DEF ApplyCloudConfig
<1>7. CASE LocalEdit
  <2>1. /\ started /\ applying = None /\ clock' = clock + 1 /\ mem'.body = mem.body \cup {clock + 1}
        /\ UNCHANGED <<process, apply, handlers, cloud>>
    BY <1>p, <1>7 DEF LocalEdit, Save
  <2>2. \A c \in Sent' : 1 \in c.body /\ c.body \subseteq mem'.body
    BY <1>s, <2>1, SentChange
  <2> QED
    BY <1>s, <2>1, <2>2 DEF process, apply, handlers, Received, Uninstalled
<1>8. CASE UploadWakes
  <2>1. UNCHANGED <<mem, process, apply, handlers, cloud>> /\ clock' = clock
    BY <1>8 DEF UploadWakes
  <2>2. Sent' \subseteq Sent
    BY <1>t, <2>1, SentChange
  <2> QED
    BY <1>s, <2>1, <2>2 DEF process, apply, handlers, Received, Uninstalled
<1>9. CASE CloudServes
  <2>1. /\ calls # <<>> /\ cloud' = Newer(Head(calls)) /\ calls' = Tail(calls) /\ uploads' = uploads
        /\ UNCHANGED <<mem, process, apply, handlers>>
    BY <1>9 DEF CloudServes
  <2>2. Head(calls) \in Sent /\ Sent' \subseteq Sent
    BY <2>1, QueueElements DEF Sent
  <2>3. ~Uninstalled /\ Head(calls).body \subseteq mem.body /\ 1 \in Head(calls).body
    BY <1>s, <2>2
  <2>4. CASE cloud' = cloud
    BY <1>s, <2>1, <2>2, <2>4 DEF process, apply, handlers, Received, Uninstalled
  <2>5. CASE cloud' = Head(calls) /\ Head(calls).ts > cloud.ts
    <3>1. cloud'.ts # 1
      BY <1>t, <2>2, <2>5
    <3> QED
      BY <1>s, <2>1, <2>2, <2>3, <2>5, <3>1 DEF process, apply, handlers, Received, Uninstalled
  <2> QED
    BY <2>1, <2>4, <2>5 DEF Newer
<1>10. CASE CloudEdit("event")
  <2> DEFINE e == [kind |-> "event", conf |-> cloud']
  <2>1. /\ UNCHANGED <<started, mem, apply, waiting, ready, sending>>
        /\ cloud'.ts = clock + 1 /\ cloud'.body = cloud.body \cup {clock + 1}
        /\ inbox' \in {inbox, Append(inbox, e)}
        /\ inbox' = IF link = "on" /\ (started \/ fetched # None) THEN Append(inbox, e) ELSE inbox
        /\ fetched = None
    BY <1>p, <1>10 DEF CloudEdit, process
  <2>2. cloud' \in Config
    BY <1>10, StampTypes DEF CloudEdit, Config, TypeInv, TypeOK
  <2>3. e \in Msg /\ e.conf = cloud'
    BY <2>2 DEF Msg
  <2> HIDE DEF e
  <2>4. Range(Append(inbox, e)) = Range(inbox) \cup {e}
    BY <2>3, RangeAppend DEF TypeInv
  <2>5. Received \subseteq Received' /\ cloud'.ts # 1
    BY <1>t, <2>1, <2>4 DEF Received
  <2>6. started => e \in Received'
    <3>1. started => link = "on"
      BY <1>p DEF Shape, Phases, TypeInv, TypeOK
    <3> QED
      BY <2>1, <2>4, <3>1 DEF Received
  <2>7. ~started => Received' = Received
    BY <2>1 DEF Received
  <2>8. Sent' = Sent /\ applying' = applying /\ pending' = pending
    BY <2>1 DEF apply, sending, Sent
  <2>9. ASSUME started, NEW x \in cloud'.body
        PROVE  \/ x \in mem.body
               \/ Uninstalled /\ x \in applying.conf.body
               \/ \E m \in Received' : m.conf.ts = x
    BY <1>s, <2>1, <2>3, <2>5, <2>6, <2>9
  <2> QED
    BY <1>s, <2>1, <2>5, <2>7, <2>8, <2>9 DEF Uninstalled
<1>11. ~Boot /\ ~Crash /\ ~CrashInSave /\ ~Stop /\ ~AnswerLost /\ ~CallTimeout /\ ~LinkBreaks
      /\ ~StartRefresh /\ ~NewConf /\ ~Reconnect
  BY <1>p DEF Boot, Crash, CrashInSave, Stop, AnswerLost, CallTimeout, LinkBreaks, StartRefresh,
     NewConf, Reconnect
<1> QED
  BY <1>1, <1>2, <1>3, <1>4, <1>5, <1>6, <1>7, <1>8, <1>9, <1>10, <1>11
  DEF Next, Progress, vars, process, NewEvent, FetchConf, Connect

\* Once nothing is under way, the manager has what the cloud has, or something
\* newer: no configuration that was pushed, missed or pending is forgotten.
THEOREM PushesAreNotForgotten == Spec => []CatchesUp
<1> DEFINE Inv == /\ TypeInv /\ Shape /\ Stamps /\ FromCloud /\ Order /\ Kinds
                  /\ Beginning /\ Undisturbed /\ UpToDate /\ Singly
<1>1. Init => Inv
  <2> SUFFICES ASSUME Init PROVE Inv
    OBVIOUS
  <2>1. Range(<<>>) = {} /\ Increasing(<<>>)
    BY RangeEmpty DEF Increasing
  <2>2. Received = {} /\ Sent = {}
    BY <2>1 DEF Init, Received, Sent
  <2>3. Order /\ Kinds /\ Beginning /\ UpToDate
    BY <2>1, <2>2 DEF Init, Order, Kinds, Beginning, UpToDate
  <2>4. Undisturbed
    BY <2>2 DEF Init, Undisturbed, Forced, Uninstalled
  <2>5. Singly
    BY <2>2 DEF Init, Singly, Uninstalled
  <2> QED
    BY <2>3, <2>4, <2>5, InitTypes, InitShape, InitStamps
<1>2. Inv /\ [Next]_vars => Inv'
  BY StepTypes, StepShape, StepStamps, StepOrder, StepBeginning, StepUndisturbed,
     StepUpToDate, StepSingly
<1>3. Inv => CatchesUp
  <2> SUFFICES ASSUME Inv, Synchronized PROVE mem.ts >= cloud.ts \/ cloud.body \subseteq mem.body
    BY DEF CatchesUp
  <2>1. /\ up /\ started /\ link = "on" /\ ~Uninstalled /\ pending = None /\ Received = {}
    BY RangeEmpty DEF Synchronized, Quiet, Uninstalled, Received, Shape, Phases
  <2>2. CASE May("events")
    <3>1. Single
      BY <2>2 DEF Synchronized, Single, Excluding, May
    <3> QED
      BY <2>1, <3>1 DEF Singly
  <2>3. CASE ~May("events")
    <3>1. Pushing
      BY <2>3 DEF Synchronized, Pushing, Gentle, Excluding, May
    <3> QED
      BY <2>1, <3>1 DEF UpToDate, Fresh
  <2> QED
    BY <2>2, <2>3
<1> QED
  BY <1>1, <1>2, <1>3, PTL DEF Spec

-----------------------------------------------------------------------------
(***************************************************************************)
(* A manager in the cloud: two configurations with the same time stamp are *)
(* the same one, and what the manager has is the cloud's copy, or on its   *)
(* way there, or about to be replaced.                                     *)
(***************************************************************************)

CloudManager ==
  May("zagent") /\ Excluding({"early", "hasty", "refresh", "outage", "events"})
Known == Coming \cup Sent \cup {mem} \cup {c \in {file} : Whole(c)}

Unique == CloudManager => \A a, b \in Known : a.ts = b.ts => a.body = b.body
Settled == CloudManager /\ up /\ started => Covered \/ Forced

\* A new stamp is given to one configuration only.
LEMMA StepUnique ==
  TypeInv /\ Stamps /\ FromCloud /\ Kinds /\ Unique /\ [Next]_vars => Unique'
<1> SUFFICES ASSUME TypeInv, Stamps, FromCloud, Kinds, Unique, [Next]_vars, CloudManager
             PROVE  \A a, b \in Known' : a.ts = b.ts => a.body = b.body
  BY WorldKept DEF Unique, CloudManager, Excluding, May
<1>c. /\ clock \in Nat /\ clock' \in Nat
      /\ cloud' = cloud \/ cloud' \in Sent \/ (clock' = clock + 1 /\ cloud'.ts = clock')
  BY CloudChange DEF Stamps
<1>k. \A c \in Known : c.ts \in Nat /\ c.ts <= clock
  <2>1. Known \subseteq Config
    BY QueueElements DEF Known, Coming, Whole, TypeInv, TypeOK
  <2>2. \A c \in Config : c.ts \in Nat
    BY StampTypes
  <2>3. \A c \in Coming : c.ts <= clock
    BY <1>c, <2>1, <2>2, ReceivedStamps DEF FromCloud, Known
  <2> QED
    BY <2>1, <2>2, <2>3 DEF Known, Stamps
<1>1. cloud \in Known /\ mem \in Known /\ (Whole(file) => file \in Known)
  BY DEF Known, Coming, TypeInv, TypeOK
<1>2. ASSUME mem' \notin Known PROVE clock' = clock + 1 /\ mem'.ts = clock' /\ cloud' = cloud
  <2>1. ~\E m \in Received : m.kind = "event"
    BY DEF Kinds, Permitted, CloudManager, Excluding, May
  <2>2. Uninstalled => applying.conf \in Known
    BY DEF Known, Coming, Uninstalled, TypeInv, TypeOK
  <2>3. mem' = Loaded => mem'.ts = clock + 1 /\ ~Whole(file)
    BY <1>1, <1>2 DEF Loaded
  <2> QED
    BY <1>1, <1>2, <2>1, <2>2, <2>3, MemChange
<1>3. ASSUME cloud' \notin Known PROVE clock' = clock + 1 /\ cloud'.ts = clock'
  BY <1>1, <1>3, <1>c DEF Known
<1>4. ASSUME NEW c \in Known' PROVE c \in Known \/ c = mem' \/ c = cloud'
  BY <1>1, <1>4, ComingChange, SentChange, FileChange DEF Known, Whole
<1>5. ASSUME NEW a \in Known', NEW b \in Known', a.ts = b.ts PROVE a.body = b.body
  <2>1. a \in Known \/ (clock' = clock + 1 /\ a.ts = clock + 1 /\ (a = mem' \/ a = cloud'))
    BY <1>2, <1>3, <1>4
  <2>2. b \in Known \/ (clock' = clock + 1 /\ b.ts = clock + 1 /\ (b = mem' \/ b = cloud'))
    BY <1>2, <1>3, <1>4
  <2>3. CASE a \in Known /\ b \in Known
    BY <1>5, <2>3 DEF Unique
  <2>4. CASE a \notin Known /\ b \notin Known
    BY <1>1, <1>2, <2>1, <2>2, <2>4
  <2> QED
    BY <1>5, <1>k, <1>c, <2>1, <2>2, <2>3, <2>4
<1> QED
  BY <1>5

\* A started manager in the cloud is covered by the cloud, or being replaced.
LEMMA StepSettled ==
  /\ TypeInv /\ Shape /\ Stamps /\ FromCloud /\ Beginning /\ Settled
  /\ [Next]_vars
  => Settled'
<1> SUFFICES ASSUME TypeInv, Shape, Stamps, FromCloud, Beginning, Settled, [Next]_vars,
                    CloudManager, up', started'
             PROVE  Covered' \/ Forced'
  BY WorldKept DEF Settled, CloudManager, Excluding, May
<1>p. /\ ~May("outage") /\ ~May("early") /\ May("zagent") /\ Steady
      /\ Excluding({"hasty"})
  BY DEF CloudManager, Excluding, May, Steady
<1>t. /\ mem.ts \in Nat /\ cloud.ts \in Nat /\ cloud \in Config
      /\ applying \in [conf: Config, installed: BOOLEAN] \cup {None}
      /\ applying # None => applying.conf \in Coming /\ applying.conf.ts \in Nat
  BY StateTypes DEF Coming
<1>1. CASE StartApply
  <2>1. /\ ~started /\ fetched # None /\ ApplyCloudConfig(fetched, ZagentForce)
        /\ mem' = mem /\ cloud' = cloud
    BY <1>1 DEF StartApply
  <2>2. fetched = cloud /\ applying = None /\ ZagentForce = TRUE
    BY <1>p, <2>1 DEF Beginning, ZagentForce
  <2>3. applying' = [conf |-> cloud, installed |-> FALSE] /\ applying' # None
    BY <1>t, <2>1, <2>2, TasksAreSome DEF ApplyCloudConfig
  <2> QED
    BY <1>t, <2>1, <2>3 DEF Covered, Forced, Uninstalled
<1>2. CASE ~StartApply
  <2>1. up /\ started
    BY <1>2, StartSteps DEF FetchConf, Shape, Ended
  <2>2. CASE Covered
    BY <1>p, <2>1, <2>2, CoveredKept
  <2>3. CASE Forced
    <3>1. CASE Install
      BY <1>t, <3>1 DEF Install, Save, FromCloud, Covered
    <3>2. CASE ~Install
      <4>1. mem'.ts = mem.ts
        BY <1>p, <2>1, <2>3, <3>2, MemWaits DEF Forced, Uninstalled
      <4>2. applying' = applying
        BY <1>2, <2>3, <3>2, ApplySteps DEF apply, Gone, FinishApply, ApplyCloudConfig, Forced, Uninstalled
      <4> QED
        BY <2>3, <4>1, <4>2 DEF Forced, Uninstalled
    <3> QED
      BY <3>1, <3>2
  <2> QED
    BY <2>1, <2>2, <2>3 DEF Settled
<1> QED
  BY <1>1, <1>2

\* A save that is interrupted for the first time leaves a whole copy of the
\* user's configuration, and a manager in the cloud gets back what the cloud has.
THEOREM ConfigurationsSurvive == Spec => []SurvivesCrash
<1> DEFINE Inv == /\ TypeInv /\ Shape /\ Stamps /\ FromCloud /\ Order /\ Kinds
                  /\ Beginning /\ Undisturbed /\ UpToDate
                  /\ FirstFault /\ Unique /\ Settled
<1>1. Init => Inv
  <2> SUFFICES ASSUME Init PROVE Inv
    OBVIOUS
  <2>1. Range(<<>>) = {} /\ Increasing(<<>>)
    BY RangeEmpty DEF Increasing
  <2>2. Received = {} /\ Sent = {}
    BY <2>1 DEF Init, Received, Sent
  <2>3. Order /\ Kinds /\ Beginning /\ UpToDate
    BY <2>1, <2>2 DEF Init, Order, Kinds, Beginning, UpToDate
  <2>4. Undisturbed /\ FirstFault /\ Settled
    BY <2>2 DEF Init, Undisturbed, Forced, Uninstalled, FirstFault, Settled
  <2>5. Known \subseteq {mem}
    <3>1. Coming \subseteq {mem}
      BY <2>2, MarkersAssumption DEF Init, Coming
    <3> QED
      BY <2>2, <3>1 DEF Init, Known
  <2>6. Unique
    BY <2>5 DEF Unique
  <2> QED
    BY <2>3, <2>4, <2>6, InitTypes, InitShape, InitStamps
<1>2. Inv /\ [Next]_vars => Inv'
  BY StepTypes, StepShape, StepStamps, StepOrder, StepBeginning, StepUndisturbed,
     StepUpToDate, StepFirstFault, StepUnique, StepSettled
<1>3. Inv => SurvivesCrash
  <2> SUFFICES ASSUME Inv PROVE SurvivesCrash
    OBVIOUS
  <2>1. ASSUME faults <= 1, ~up, 1 \in mem.body
        PROVE  \E c \in {file, backup} : Whole(c) /\ 1 \in c.body
    <3>1. faults \in Nat /\ mem \in Config
      BY StampTypes DEF TypeInv, TypeOK
    <3>2. mem \in {file, backup}
      BY <2>1, <3>1 DEF FirstFault
    <3>3. Whole(mem)
      BY <3>1, MarkersAssumption DEF Whole
    <3> QED
      BY <2>1, <3>2, <3>3
  <2>2. ASSUME Quiet, CloudManager PROVE mem.body = cloud.body
    <3>1. /\ up /\ started /\ link = "on" /\ ~Uninstalled /\ pending = None
          /\ Received = {} /\ Sent = {}
      BY <2>2, RangeEmpty DEF Quiet, Uninstalled, Received, Sent, Shape, Phases
    <3>2. Pushing
      BY <2>2 DEF CloudManager, Pushing, Gentle, Excluding, May
    <3>3. mem.ts >= cloud.ts
      BY <3>1, <3>2 DEF UpToDate, Fresh
    <3>4. mem.ts <= cloud.ts
      BY <2>2, <3>1 DEF Settled, Covered, Forced
    <3>5. mem.ts \in Nat /\ cloud.ts \in Nat /\ mem \in Known /\ cloud \in Known
      BY StateTypes DEF Known, Coming
    <3> QED
      BY <2>2, <3>3, <3>4, <3>5 DEF Unique
  <2> QED
    BY <2>1, <2>2 DEF SurvivesCrash, CloudManager
<1> QED
  BY <1>1, <1>2, <1>3, PTL DEF Spec
=============================================================================
