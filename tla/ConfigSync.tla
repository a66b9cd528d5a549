------------------------------ MODULE ConfigSync ------------------------------
(***************************************************************************)
(* The configuration of a manager: in memory, in its file, and in the      *)
(* cloud (lib/config.js, apply_cloud_config of lib/mixins/mgr_config.js,   *)
(* the configuration calls and pushed messages of lib/lpm_f.js), with      *)
(* config synchronization switched on.                                     *)
(*                                                                         *)
(* A configuration is the set of edits it contains and the time stamp ts   *)
(* of its last edit.  "clock" stands for date(); no two edits share a      *)
(* millisecond.  Edit 1 is what the user had configured at the beginning.  *)
(* "world" says which of the troublesome circumstances may occur:          *)
(*   confs    another manager changes the cloud copy, pushed as new_conf   *)
(*   events   ... pushed as a single change (proxy_update_in_place)        *)
(*   early    the cloud copy changes between the get_conf of start() and   *)
(*            its application                                              *)
(*   hasty    users save while a cloud configuration is being applied      *)
(*   refresh  the connection is renewed from time to time                  *)
(*   outage   the connection breaks                                        *)
(*   faults   the process dies, or the disk fails, also in the middle of a *)
(*            save                                                         *)
(*   zagent   the manager runs in the cloud: start() forces the cloud copy *)
(***************************************************************************)
EXTENDS Naturals, Sequences, FiniteSets

CONSTANTS None, NoFile, Torn,   \* no task; no file; a file that does not parse
          Worlds, MaxEdits, MaxFaults, MaxBreaks

VARIABLES world, clock,
          up, started, fetched, \* process; start() is through; what it fetched
          mem, file, backup,    \* manager, its file and the file's .backup
          link, refreshing,     \* connection of lpm_f
          applying, pending,    \* apply_cloud_config
          inbox, waiting, ready,\* pushed messages, handlers that wait for an
                                \* apply, and how many of them are woken
          uploads, calls,       \* update_conf: waiting for a refresh, sent
          cloud, faults, breaks

process == <<up, started, fetched>>
disk == <<file, backup>>
apply == <<applying, pending>>
handlers == <<inbox, waiting, ready>>
sending == <<uploads, calls>>
network == <<link, refreshing, breaks>>
vars == <<world, clock, process, mem, disk, network, apply, handlers, sending,
          cloud, faults>>

\* bound of the clock: the edits, and one new stamp for every file that is lost
MaxClock == MaxEdits + MaxFaults
Config == [ts: 1..MaxClock, body: SUBSET (1..MaxClock)]

ASSUME BoundsAssumption == MaxEdits \in Nat \ {0} /\ {MaxFaults, MaxBreaks} \subseteq Nat
ASSUME MarkersAssumption ==
  /\ {None, NoFile, Torn} \cap Config = {}
  /\ None \notin [conf: Config, installed: BOOLEAN] \cup [conf: Config, force: BOOLEAN]

Whole(c) == c \notin {NoFile, Torn}
May(what) == what \in world

TypeOK ==
  /\ world \in Worlds /\ clock \in 1..MaxClock
  /\ up \in BOOLEAN /\ started \in BOOLEAN /\ fetched \in Config \cup {None}
  /\ mem \in Config /\ cloud \in Config
  /\ file \in Config \cup {NoFile, Torn} /\ backup \in Config \cup {NoFile, Torn}
  /\ link \in {"never", "on", "off"} /\ refreshing \in BOOLEAN
  /\ applying \in [conf: Config, installed: BOOLEAN] \cup {None}
  /\ pending \in [conf: Config, force: BOOLEAN] \cup {None}
  /\ ready \in 0..Len(waiting)
  /\ \A i \in DOMAIN inbox : inbox[i].conf \in Config
  /\ \A i \in DOMAIN calls : calls[i] \in Config
  /\ uploads \subseteq Config
  /\ faults \in 0..MaxFaults /\ breaks \in 0..MaxBreaks

Init ==
  /\ world \in Worlds /\ clock = 1
  /\ up = TRUE /\ started = FALSE /\ fetched = None
  /\ mem = [ts |-> 1, body |-> {1}] /\ cloud = mem
  /\ file = mem /\ backup = NoFile
  /\ link = "never" /\ refreshing = FALSE
  /\ applying = None /\ pending = None
  /\ inbox = <<>> /\ waiting = <<>> /\ ready = 0
  /\ uploads = {} /\ calls = <<>>
  /\ faults = 0 /\ breaks = 0

-----------------------------------------------------------------------------
(* The file *)

MutRenamed == backup                \* the file is written in place

\* what .backup holds once save() has renamed the file
Renamed == IF file = NoFile THEN backup ELSE file

Strike == May("faults") /\ faults < MaxFaults /\ faults' = faults + 1

\* save({skip_cloud_update}): rename, then write; errors are only logged
Save(c) ==
  /\ mem' = c
  /\ backup' = Renamed
  /\ \/ file' = c /\ UNCHANGED faults
     \/ Strike /\ file' \in {NoFile, Torn}

MutLoaded == file                   \* a bad file is taken as it is

\* _load_json: a missing, empty or unreadable file gives the pure configuration
Loaded == IF Whole(file) THEN file ELSE [ts |-> clock + 1, body |-> {}]

\* what a process that ends takes with it
Gone ==
  /\ up' = FALSE /\ started' = FALSE /\ fetched' = None
  /\ link' = "never" /\ refreshing' = FALSE
  /\ applying' = None /\ pending' = None
  /\ inbox' = <<>> /\ waiting' = <<>> /\ ready' = 0
  /\ uploads' = {} /\ calls' = <<>>

Crash ==
  /\ up /\ Strike
  /\ Gone
  /\ UNCHANGED <<world, clock, mem, disk, cloud, breaks>>

\* the process dies between renameSync and the end of writeFileSync
CrashInSave ==
  /\ up /\ Strike
  /\ backup' = Renamed /\ file' \in {NoFile, Torn}
  /\ Gone
  /\ UNCHANGED <<world, clock, mem, cloud, breaks>>

\* Manager.stop for a restart: the last save
Stop ==
  /\ up /\ started /\ Strike
  /\ file' = mem /\ backup' = Renamed
  /\ Gone
  /\ UNCHANGED <<world, clock, mem, cloud, breaks>>

\* the constructor of Manager: load, then save what was loaded
Boot ==
  /\ ~up
  /\ up' = TRUE
  /\ clock' = IF Whole(file) THEN clock ELSE clock + 1
  /\ Save(Loaded)
  /\ UNCHANGED <<world, started, fetched, network, apply, handlers, sending,
                 cloud>>

-----------------------------------------------------------------------------
(* Configurations that come from the cloud *)

MutAnyAge(c, force) ==              \* the time stamps are not compared
  \/ /\ applying # None
     /\ pending' = [conf |-> c, force |-> force]
     /\ UNCHANGED applying
  \/ /\ applying = None
     /\ applying' = [conf |-> c, installed |-> FALSE]
     /\ UNCHANGED pending

MutNoPending(c, force) ==           \* what comes during an apply is dropped
  /\ UNCHANGED pending
  /\ IF applying = None /\ (force \/ c.ts > mem.ts)
     THEN applying' = [conf |-> c, installed |-> FALSE]
     ELSE UNCHANGED applying

\* apply_cloud_config up to its first yield
ApplyCloudConfig(c, force) ==
  \/ /\ ~force /\ c.ts <= mem.ts
     /\ UNCHANGED apply
  \/ /\ force \/ c.ts > mem.ts
     /\ \/ /\ applying # None
           /\ pending' = [conf |-> c, force |-> force]
           /\ UNCHANGED applying
        \/ /\ applying = None
           /\ applying' = [conf |-> c, installed |-> FALSE]
           /\ UNCHANGED pending

\* the workers are killed and the ports deleted: the configuration is replaced
Install ==
  /\ up /\ applying # None /\ ~applying.installed
  /\ Save(applying.conf)
  /\ applying' = [applying EXCEPT !.installed = TRUE]
  /\ UNCHANGED <<world, clock, process, network, pending, handlers, sending,
                 cloud>>

NextApply ==
  IF pending # None /\ (pending.force \/ pending.conf.ts > mem.ts)
  THEN [conf |-> pending.conf, installed |-> FALSE]
  ELSE None

MutFinish ==                        \* nobody wakes the waiting handlers
  /\ up /\ applying # None /\ applying.installed
  /\ applying' = NextApply /\ pending' = None
  /\ UNCHANGED <<world, clock, process, mem, disk, network, handlers, sending,
                 cloud, faults>>

\* the apply ends, or fails after the configuration was replaced: its finally
\* callback starts the one that is pending, then the waiting handlers are woken
FinishApply ==
  /\ up /\ applying # None /\ applying.installed
  /\ applying' = NextApply /\ pending' = None
  /\ ready' = Len(waiting)
  /\ UNCHANGED <<world, clock, process, mem, disk, network, inbox, waiting,
                 sending, cloud, faults>>

\* the body of on_json for the messages that change the configuration
Handle(m) ==
  \/ /\ m.kind = "conf"
     /\ ApplyCloudConfig(m.conf, FALSE)
     /\ UNCHANGED <<mem, disk, faults>>
  \/ /\ m.kind = "event"
     /\ Save([mem EXCEPT !.body = @ \cup {m.conf.ts}])
     /\ UNCHANGED apply

OnJson ==
  /\ up /\ inbox # <<>>
  /\ inbox' = Tail(inbox)
  /\ \/ /\ applying # None
        /\ waiting' = Append(waiting, Head(inbox))
        /\ UNCHANGED <<mem, disk, faults, apply, ready>>
     \/ /\ applying = None
        /\ Handle(Head(inbox))
        /\ UNCHANGED <<waiting, ready>>
  /\ UNCHANGED <<world, clock, process, network, sending, cloud>>

\* wait_ext(applying_cloud_config) is over; nothing looks at it again
WakeHandler ==
  /\ up /\ ready > 0
  /\ ready' = ready - 1
  /\ waiting' = Tail(waiting)
  /\ Handle(Head(waiting))
  /\ UNCHANGED <<world, clock, process, network, inbox, sending, cloud>>

\* start(): get_conf, and later the application of what it returned
FetchConf ==
  /\ up /\ ~started /\ fetched = None
  /\ link = "on" /\ ~refreshing
  /\ fetched' = cloud
  /\ UNCHANGED <<world, clock, up, started, mem, disk, network, apply,
                 handlers, sending, cloud, faults>>

ZagentForce == May("zagent")

StartApply ==
  /\ up /\ ~started /\ fetched # None
  /\ ApplyCloudConfig(fetched, ZagentForce)
  /\ started' = TRUE /\ fetched' = None
  /\ UNCHANGED <<world, clock, up, mem, disk, network, handlers, sending,
                 cloud, faults>>

-----------------------------------------------------------------------------
(* Configurations that go to the cloud *)

\* update_conf after wait_refresh: silently nothing without a connection
Transmit(c) == calls' = IF link = "on" THEN Append(calls, c) ELSE calls

MutUpload(c) == Transmit(c) /\ UNCHANGED uploads    \* no wait_refresh

\* update_conf: wait_refresh first
Upload(c) ==
  IF refreshing THEN uploads' = uploads \cup {c} /\ UNCHANGED calls
                ELSE Transmit(c) /\ UNCHANGED uploads

\* a change through the API: save() and upload()
LocalEdit ==
  /\ up /\ started /\ clock < MaxEdits
  /\ May("hasty") \/ (applying = None /\ waiting = <<>>)
  /\ clock' = clock + 1
  /\ LET c == [ts |-> clock + 1, body |-> mem.body \cup {clock + 1}]
     IN Save(c) /\ Upload(c)
  /\ UNCHANGED <<world, process, network, apply, handlers, cloud>>

\* wait_refresh polls every 50 ms, each caller in its own rhythm
UploadWakes ==
  /\ up /\ ~refreshing
  /\ \E c \in uploads : Transmit(c) /\ uploads' = uploads \ {c}
  /\ UNCHANGED <<world, clock, process, mem, disk, network, apply, handlers,
                 cloud, faults>>

\* the cloud keeps the configuration with the latest time stamp
Newer(c) == IF c.ts > cloud.ts THEN c ELSE cloud

CloudServes ==
  /\ up /\ link = "on" /\ calls # <<>>
  /\ cloud' = Newer(Head(calls))
  /\ calls' = Tail(calls)
  /\ UNCHANGED <<world, clock, process, mem, disk, network, apply, handlers,
                 uploads, faults>>

\* the answer is lost with the connection: the call stays, to be sent again
AnswerLost ==
  /\ up /\ link = "on" /\ calls # <<>>
  /\ May("outage") /\ breaks < MaxBreaks
  /\ cloud' = Newer(Head(calls))
  /\ link' = "off" /\ breaks' = breaks + 1 /\ inbox' = <<>>
  /\ UNCHANGED <<world, clock, process, mem, disk, refreshing, apply, waiting,
                 ready, sending, faults>>

\* 30 s without an answer
CallTimeout ==
  /\ up /\ link = "off" /\ May("outage") /\ calls # <<>>
  /\ calls' = Tail(calls)
  /\ UNCHANGED <<world, clock, process, mem, disk, network, apply, handlers,
                 uploads, cloud, faults>>

\* another manager of the account; the cloud pushes to the connections that have
\* shown their token, as get_conf does, and to no other
CloudEdit(kind) ==
  /\ clock < MaxEdits
  /\ May("early") \/ fetched = None
  /\ clock' = clock + 1
  /\ cloud' = [ts |-> clock + 1, body |-> cloud.body \cup {clock + 1}]
  /\ inbox' = IF up /\ link = "on" /\ (started \/ fetched # None)
              THEN Append(inbox, [kind |-> kind, conf |-> cloud'])
              ELSE inbox
  /\ UNCHANGED <<world, process, mem, disk, network, apply, waiting, ready,
                 sending, faults>>

NewConf == May("confs") /\ CloudEdit("conf")
NewEvent == May("events") /\ CloudEdit("event")

-----------------------------------------------------------------------------
(* The connection *)

\* the first connection: init() goes on, nothing is applied here
Connect ==
  /\ up /\ link = "never"
  /\ link' = "on"
  /\ UNCHANGED <<world, clock, process, mem, disk, refreshing, breaks, apply,
                 handlers, sending, cloud, faults>>

\* on_connected: login, apply what it returns unless this is a refresh
Reconnect ==
  /\ up /\ link = "off"
  /\ link' = "on" /\ refreshing' = FALSE
  /\ IF refreshing THEN UNCHANGED apply ELSE ApplyCloudConfig(cloud, FALSE)
  /\ UNCHANGED <<world, clock, process, mem, disk, breaks, handlers, sending,
                 cloud, faults>>

\* start_refresh: not while calls are pending
StartRefresh ==
  /\ up /\ link = "on" /\ ~refreshing /\ calls = <<>>
  /\ May("refresh") /\ breaks < MaxBreaks
  /\ link' = "off" /\ refreshing' = TRUE
  /\ breaks' = breaks + 1 /\ inbox' = <<>>
  /\ UNCHANGED <<world, clock, process, mem, disk, apply, waiting, ready,
                 sending, cloud, faults>>

LinkBreaks ==
  /\ up /\ link = "on" /\ May("outage") /\ breaks < MaxBreaks
  /\ link' = "off" /\ breaks' = breaks + 1 /\ inbox' = <<>>
  /\ UNCHANGED <<world, clock, process, mem, disk, refreshing, apply, waiting,
                 ready, sending, cloud, faults>>

\* a woken handler runs at once (process.nextTick), before anything else happens
Progress == \/ WakeHandler
            \/ /\ ready = 0
               /\ \/ Boot \/ Install \/ FinishApply \/ OnJson
                  \/ FetchConf \/ StartApply \/ UploadWakes \/ CloudServes
                  \/ Connect \/ Reconnect

Next == \/ Progress
        \/ /\ ready = 0
           /\ \/ LocalEdit \/ NewConf \/ NewEvent
              \/ Crash \/ CrashInSave \/ Stop
              \/ AnswerLost \/ CallTimeout \/ StartRefresh \/ LinkBreaks

Spec == Init /\ [][Next]_vars

\* timers fire, tasks that wait are continued, the connection is tried again
\* without end and the cloud answers: one of these steps is always taken
FairSpec == Spec /\ WF_vars(Progress)

-----------------------------------------------------------------------------
(* Properties *)

Excluding(circumstances) == world \cap circumstances = {}

\* Nothing is under way.
Quiet == /\ up /\ started /\ link = "on" /\ ~refreshing
         /\ applying = None /\ inbox = <<>> /\ waiting = <<>>
         /\ uploads = {} /\ calls = <<>>

\* A save that is interrupted for the first time, at whatever point, leaves a
\* whole copy of the user's configuration in the file or in its .backup.  (mem
\* of a process that has ended is what it had in memory.)  A manager in the
\* cloud gets its configuration back after any crash.
SurvivesCrash ==
  /\ faults <= 1 /\ ~up /\ 1 \in mem.body
       => \E c \in {file, backup} : Whole(c) /\ 1 \in c.body
  /\ Quiet /\ May("zagent") /\ Excluding({"early", "hasty", "refresh", "outage", "events"})
       => mem.body = cloud.body

\* Once nothing is under way, the manager has what the cloud has, or something
\* newer: no pushed configuration, missed or pending, is forgotten.  (Not true
\* of changes during a refresh, of users who save during an apply, of single
\* changes that meet an apply or an older configuration, where start() forces a
\* copy that is out of date by then, and where such a copy takes the pending place
\* of the one that a reconnection has brought.)
Synchronized ==
  /\ Quiet /\ Excluding({"hasty", "refresh"})
  /\ May("early") => Excluding({"outage"})
  /\ May("events") => Excluding({"confs", "outage", "faults", "early"})
  /\ May("zagent") => Excluding({"early", "outage"})
CatchesUp ==
  Synchronized => mem.ts >= cloud.ts \/ cloud.body \subseteq mem.body

\* Once nothing is under way, the cloud has every edit of the manager or
\* something newer: a refresh of the connection loses and reorders nothing that
\* matters.  (Not true of edits made while the connection is broken.)
UploadsArrive ==
  Quiet /\ Excluding({"outage", "faults"}) => cloud.ts >= mem.ts

\* While the process runs, the time stamp of its configuration goes back only
\* where start() forces the copy of the cloud on it.
TsNeverBack ==
  [][up /\ up' /\ Excluding({"hasty", "zagent"}) => mem'.ts >= mem.ts]_vars

\* lib/lpm_f.js, on_json: "should waiting at events which save config in mgr":
\* no pushed change is saved while a cloud configuration is being applied.
JsonEventsWait ==
  [][up' /\ ready > 0 /\ ready' = ready - 1 /\ Head(waiting).kind = "event"
       => applying = None]_vars

\* Every apply, handler, upload and restart comes to its end.
Settles == <>[]Quiet

=============================================================================
