-------------------------------- MODULE Mqtt --------------------------------
(***************************************************************************)
(* The life of the MQTT client: the manager in the MQTT_MANAGER cell, the   *)
(* event loop task spawned for each manager (which finds "its" manager only *)
(* through the cell), the periodic status task, and setMqttSettings         *)
(* requests that clean up, save, close the old manager and make a new one.  *)
(* The cell's lock is held while a manager publishes; a client's requests   *)
(* wait in a channel that only its own event loop empties.  A batch of      *)
(* messages (discovery, subscriptions, a cleanup: 33, 9 and 44 of the       *)
(* channel's 100) counts as one.                                            *)
(***************************************************************************)
EXTENDS Naturals, FiniteSets

CONSTANTS
  MqttReqs,       \* setMqttSettings requests
  QueueCap,       \* batches the request channel holds
  MaxMqttActive,  \* bound on requests under way at once
  MaxSaveFaults,  \* bound on failed writes of mqtt-config.toml
  MaxLinkEvents   \* bound on connections made and lost

ASSUME MqttAssumption ==
  /\ IsFiniteSet(MqttReqs) /\ "boot" \notin MqttReqs
  /\ QueueCap \in Nat /\ QueueCap >= 2 /\ {MaxMqttActive, MaxSaveFaults, MaxLinkEvents} \subseteq Nat

VARIABLES
  mqttCell,     \* the manager stored in MQTT_MANAGER, or 0
  mqttLock,     \* who holds the cell's lock
  managers,     \* how many managers were made: they are 1..managers
  evLoop, told, \* per manager: its event loop, and the shutdown permit
  online, connected, queue,  \* the broker connection, the connected flag, queued batches
  statusTasks, statusHandle, \* running status tasks, and the one STATUS_TASK holds
  cfgEnabled,   \* `enabled` of the saved settings
  mqttPc, wants, own,        \* per request: its place, the settings' `enabled`, the manager it closes or makes
  mqttOverlap, saveFaults, linkEvents

mqttVars == <<mqttCell, mqttLock, managers, evLoop, told, online, connected, queue, statusTasks,
              statusHandle, cfgEnabled, mqttPc, wants, own, mqttOverlap, saveFaults, linkEvents>>
perManager == <<managers, evLoop, told, online, connected, queue>>
perRequest == <<mqttPc, wants, own, mqttOverlap, cfgEnabled, saveFaults>>
statusVars == <<statusTasks, statusHandle>>

Requests == MqttReqs \cup {"boot"}
MaxManagers == Cardinality(Requests)
MqttEnded == {"new", "done", "failed"}
MqttActive == {r \in Requests : mqttPc[r] \notin MqttEnded}
MqttGoto(r, pc) == mqttPc' = [mqttPc EXCEPT ![r] = pc]
Free == mqttLock = "free"
\* A publish that finds the channel full for PUBLISH_TIMEOUT gives up.
Publish(m) == queue' = [queue EXCEPT ![m] = IF @ < QueueCap THEN @ + 1 ELSE @]

MqttTypeOK ==
  /\ mqttCell \in 0..MaxManagers /\ managers \in 0..MaxManagers
  /\ mqttLock \in {"free", "loop"} \cup Requests
  /\ evLoop \in [1..MaxManagers -> {"none", "poll", "up", "greet", "lost", "ended"}]
  /\ queue \in [1..MaxManagers -> 0..QueueCap]
  /\ statusTasks \subseteq Requests /\ statusHandle \in Requests \cup {"none"}

MqttInit ==
  /\ mqttCell = 0 /\ mqttLock = "free" /\ managers = 0
  /\ evLoop = [m \in 1..MaxManagers |-> "none"] /\ queue = [m \in 1..MaxManagers |-> 0]
  /\ told = [m \in 1..MaxManagers |-> FALSE] /\ online = told /\ connected = told
  /\ statusTasks = {} /\ statusHandle = "none"
  /\ cfgEnabled \in BOOLEAN
  \* start_mqtt runs as a task of its own
  /\ mqttPc = [r \in Requests |-> IF r = "boot" /\ cfgEnabled THEN "create" ELSE "new"]
  /\ wants = [r \in Requests |-> TRUE] /\ own = [r \in Requests |-> 0]
  /\ mqttOverlap = FALSE /\ saveFaults = 0 /\ linkEvents = 0

-----------------------------------------------------------------------------
(* run_eventloop of manager m.  Its select may prefer a ready event to a shutdown permit. *)

LoopConnects(m) ==
  /\ evLoop[m] = "poll" /\ ~online[m] /\ linkEvents < MaxLinkEvents
  /\ linkEvents' = linkEvents + 1
  /\ online' = [online EXCEPT ![m] = TRUE] /\ evLoop' = [evLoop EXCEPT ![m] = "up"]
  /\ UNCHANGED <<mqttCell, mqttLock, managers, told, connected, queue, statusVars, perRequest>>

\* A connection that breaks takes the channel's content over into the client's pending list.
LoopFails(m) ==
  /\ evLoop[m] = "poll" /\ linkEvents < MaxLinkEvents
  /\ queue' = IF online[m] THEN [queue EXCEPT ![m] = 0] ELSE queue
  /\ linkEvents' = linkEvents + 1
  /\ online' = [online EXCEPT ![m] = FALSE] /\ evLoop' = [evLoop EXCEPT ![m] = "lost"]
  /\ UNCHANGED <<mqttCell, mqttLock, managers, told, connected, statusVars, perRequest>>

LoopSends(m) ==
  /\ evLoop[m] = "poll" /\ online[m] /\ queue[m] > 0
  /\ queue' = [queue EXCEPT ![m] = @ - 1]
  /\ UNCHANGED <<mqttCell, mqttLock, managers, evLoop, told, online, connected, statusVars, perRequest, linkEvents>>

LoopEnds(m) ==
  /\ evLoop[m] = "poll" /\ told[m]
  /\ evLoop' = [evLoop EXCEPT ![m] = "ended"] /\ online' = [online EXCEPT ![m] = FALSE]
  /\ queue' = [queue EXCEPT ![m] = 0]
  /\ UNCHANGED <<mqttCell, mqttLock, managers, told, connected, statusVars, perRequest, linkEvents>>

\* ConnAck: on_connect of the manager in the cell, under its lock; nothing when the cell is empty.
HandleConnAck(m) ==
  /\ evLoop[m] = "up" /\ Free
  /\ IF mqttCell = 0
     THEN evLoop' = [evLoop EXCEPT ![m] = "poll"] /\ UNCHANGED <<mqttLock, connected, queue>>
     ELSE /\ evLoop' = [evLoop EXCEPT ![m] = "greet"] /\ mqttLock' = "loop"
          /\ connected' = [connected EXCEPT ![mqttCell] = TRUE] /\ Publish(mqttCell)
  /\ UNCHANGED <<mqttCell, managers, told, online, statusVars, perRequest, linkEvents>>

\* subscribe_commands waits for room without a timeout; the states follow.
SubscribeCommands(m) ==
  /\ evLoop[m] = "greet" /\ queue[mqttCell] < QueueCap
  /\ Publish(mqttCell) /\ mqttLock' = "free" /\ evLoop' = [evLoop EXCEPT ![m] = "poll"]
  /\ UNCHANGED <<mqttCell, managers, told, online, connected, statusVars, perRequest, linkEvents>>

\* An error or a DISCONNECT: on_connection_lost of the manager in the cell.
HandleLost(m) ==
  /\ evLoop[m] = "lost" /\ Free
  /\ connected' = IF mqttCell = 0 THEN connected ELSE [connected EXCEPT ![mqttCell] = FALSE]
  /\ evLoop' = [evLoop EXCEPT ![m] = "poll"]
  /\ UNCHANGED <<mqttCell, mqttLock, managers, told, online, queue, statusVars, perRequest, linkEvents>>

\* A status task ends when it finds the cell empty; its few messages are left out of the count.
StatusTaskEnds(t) ==
  /\ t \in statusTasks /\ Free /\ mqttCell = 0
  /\ statusTasks' = statusTasks \ {t}
  /\ UNCHANGED <<mqttCell, mqttLock, perManager, statusHandle, perRequest, linkEvents>>

-----------------------------------------------------------------------------
(* rpc_set_mqtt_settings and restart_mqtt. *)

\* MQTT turned off, or its discovery: the old manager's topics are cleared first.
SetSettings(r, enable, dropDiscovery) ==
  /\ mqttPc[r] = "new" /\ r # "boot" /\ Cardinality(MqttActive) < MaxMqttActive
  /\ wants' = [wants EXCEPT ![r] = enable]
  /\ MqttGoto(r, IF (cfgEnabled /\ ~enable) \/ dropDiscovery THEN "clean" ELSE "save")
  /\ mqttOverlap' = (mqttOverlap \/ MqttActive # {})
  /\ UNCHANGED <<mqttCell, mqttLock, perManager, statusVars, cfgEnabled, own, saveFaults, linkEvents>>

CleanTopics(r) ==
  /\ mqttPc[r] = "clean" /\ Free /\ MqttGoto(r, "save")
  /\ IF mqttCell = 0 THEN UNCHANGED queue ELSE Publish(mqttCell)
  /\ UNCHANGED <<mqttCell, mqttLock, managers, evLoop, told, online, connected, statusVars, wants, own,
                 mqttOverlap, cfgEnabled, saveFaults, linkEvents>>

SaveSettings(r) ==
  /\ mqttPc[r] = "save"
  /\ \/ cfgEnabled' = wants[r] /\ MqttGoto(r, "stopStatus") /\ UNCHANGED saveFaults
     \/ /\ saveFaults < MaxSaveFaults /\ saveFaults' = saveFaults + 1
        /\ MqttGoto(r, "failed") /\ UNCHANGED cfgEnabled
  /\ UNCHANGED <<mqttCell, mqttLock, perManager, statusVars, wants, own, mqttOverlap, linkEvents>>

\* Mutant: the old status task is forgotten instead of stopped.
StopStatusForgets(r) ==
  /\ mqttPc[r] \in {"stopStatus", "startStatus"} /\ statusHandle' = "none"
  /\ MqttGoto(r, IF mqttPc[r] = "stopStatus" THEN "take" ELSE "spawnStatus")
  /\ UNCHANGED <<mqttCell, mqttLock, perManager, statusTasks, wants, own, mqttOverlap, cfgEnabled, saveFaults, linkEvents>>

StopStatus(r) ==
  /\ mqttPc[r] \in {"stopStatus", "startStatus"}
  /\ statusTasks' = statusTasks \ {statusHandle} /\ statusHandle' = "none"
  /\ MqttGoto(r, IF mqttPc[r] = "stopStatus" THEN "take" ELSE "spawnStatus")
  /\ UNCHANGED <<mqttCell, mqttLock, perManager, wants, own, mqttOverlap, cfgEnabled, saveFaults, linkEvents>>

\* The manager is taken out of the cell and closed: its loop is told to stop, then "offline" is
\* published (one message, not counted), all while the lock is held.
Restarting(r) == MqttGoto(r, IF wants[r] THEN "create" ELSE "done")
TakeManager(r) ==
  /\ mqttPc[r] = "take" /\ Free
  /\ IF mqttCell = 0
     THEN Restarting(r) /\ UNCHANGED <<mqttCell, mqttLock, own, told>>
     ELSE /\ own' = [own EXCEPT ![r] = mqttCell] /\ mqttCell' = 0 /\ mqttLock' = r
          /\ told' = [told EXCEPT ![mqttCell] = TRUE] /\ MqttGoto(r, "close")
  /\ UNCHANGED <<managers, evLoop, online, connected, queue, statusVars, wants, mqttOverlap, cfgEnabled, saveFaults, linkEvents>>

\* disconnect waits for room without a timeout; it fails at once when the loop is gone.
Disconnect(r) ==
  /\ mqttPc[r] = "close" /\ (queue[own[r]] < QueueCap \/ evLoop[own[r]] = "ended")
  /\ connected' = [connected EXCEPT ![own[r]] = FALSE] /\ mqttLock' = "free" /\ Restarting(r)
  /\ UNCHANGED <<mqttCell, managers, evLoop, told, online, queue, statusVars, wants, own, mqttOverlap,
                 cfgEnabled, saveFaults, linkEvents>>

\* MqttManager::new spawns the event loop; the manager is stored afterwards.
CreateManager(r) ==
  /\ mqttPc[r] = "create" /\ managers' = managers + 1
  /\ own' = [own EXCEPT ![r] = managers + 1] /\ evLoop' = [evLoop EXCEPT ![managers + 1] = "poll"]
  /\ MqttGoto(r, "store")
  /\ UNCHANGED <<mqttCell, mqttLock, told, online, connected, queue, statusVars, wants, mqttOverlap,
                 cfgEnabled, saveFaults, linkEvents>>

StoreManager(r) ==
  /\ mqttPc[r] = "store" /\ Free
  /\ mqttCell' = own[r] /\ MqttGoto(r, "startStatus")
  /\ UNCHANGED <<mqttLock, perManager, statusVars, wants, own, mqttOverlap, cfgEnabled, saveFaults, linkEvents>>

SpawnStatus(r) ==
  /\ mqttPc[r] = "spawnStatus" /\ MqttGoto(r, "done")
  /\ statusTasks' = statusTasks \cup {r} /\ statusHandle' = r
  /\ UNCHANGED <<mqttCell, mqttLock, perManager, wants, own, mqttOverlap, cfgEnabled, saveFaults, linkEvents>>

RequestStep(r) ==
  CleanTopics(r) \/ SaveSettings(r) \/ StopStatus(r) \/ TakeManager(r) \/ Disconnect(r)
  \/ CreateManager(r) \/ StoreManager(r) \/ SpawnStatus(r)
LoopHandles(m) == HandleConnAck(m) \/ SubscribeCommands(m) \/ HandleLost(m)

MqttNext ==
  \/ \E m \in 1..MaxManagers :
       LoopConnects(m) \/ LoopFails(m) \/ LoopSends(m) \/ LoopEnds(m) \/ LoopHandles(m)
  \/ \E t \in Requests : StatusTaskEnds(t)
  \/ \E r \in Requests : RequestStep(r) \/ \E e, d \in BOOLEAN : SetSettings(r, e, d)

\* Tasks run, a broker that is there takes messages, and tokio's lock is handed over in the order
\* it was asked for.
MqttFairness ==
  /\ \A r \in Requests : SF_mqttVars(RequestStep(r))
  /\ \A m \in 1..MaxManagers : SF_mqttVars(LoopHandles(m)) /\ WF_mqttVars(LoopEnds(m) \/ LoopSends(m))

-----------------------------------------------------------------------------
\* The manager in the cell is one whose event loop runs and was not told to stop: no order of
\* restarts stores a closed manager.
StoredIsLive == mqttCell # 0 => evLoop[mqttCell] \notin {"none", "ended"} /\ ~told[mqttCell]

\* "replaced on every (re)start so only one runs": one status task, and one event loop that was
\* not told to stop, as long as no two of start_mqtt and the settings requests overlap.
OneOfEach ==
  ~mqttOverlap =>
    /\ Cardinality(statusTasks) <= 1
    /\ Cardinality({m \in 1..managers : evLoop[m] # "ended" /\ ~told[m]}) <= 1

\* A settings request comes back: nobody waits for ever for the lock or for room in a channel.
\* A second cleanup queued for a broker that cannot be reached (requests that overlap, or one that
\* comes after a failed save) is more than the channel holds, and then they do.
SettingsReturn ==
  [](~mqttOverlap /\ saveFaults = 0)
    => \A r \in Requests : (mqttPc[r] \notin MqttEnded) ~> (mqttPc[r] \in MqttEnded)

\* What the cell and the tasks hold, however restarts interleave with connections.
MqttInv == MqttTypeOK /\ StoredIsLive /\ OneOfEach

=============================================================================
