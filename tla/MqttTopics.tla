----------------------------- MODULE MqttTopics -----------------------------
(***************************************************************************)
(* What the MQTT client leaves on the broker: the retained Home Assistant    *)
(* discovery entries and state topics.  Messages go out one at a time; some  *)
(* are lost (a publish that times out is only logged), and settings change   *)
(* between them.  The power extension is read from get_active_extension, a   *)
(* stub that answers "" today; Extensions lists what it may answer, so that  *)
(* the branches behind it are covered too.                                   *)
(***************************************************************************)
EXTENDS Naturals, Sequences

CONSTANTS
  Extensions,   \* subset of {"", "atx-power", "dc-power"}
  MaxLost,      \* bound on publishes that time out
  MaxChanges    \* bound on setMqttSettings calls

ASSUME TopicsAssumption ==
  Extensions \subseteq {"", "atx-power", "dc-power"} /\ {MaxLost, MaxChanges} \subseteq Nat

\* An entry: component, object, the state topic it shows, the command topic it sends to ("" for none).
Entry(c, o, state, command) == [c |-> c, o |-> o, state |-> state, command |-> command]
Put(e) == [put |-> TRUE, c |-> e.c, o |-> e.o, entry |-> {e}]
Del(c, o) == [put |-> FALSE, c |-> c, o |-> o, entry |-> {}]
PutAll(es) == [i \in 1..Len(es) |-> Put(es[i])]
DelAll(names) == [i \in 1..Len(names) |-> Del(names[i][1], names[i][2])]

-----------------------------------------------------------------------------
\* The entries of every device: status, video, cloud, sessions and USB.
StatusEntries ==
  <<Entry("binary_sensor", "online", "status", ""), Entry("binary_sensor", "video_signal", "video", ""),
    Entry("sensor", "video_resolution", "video", ""), Entry("sensor", "video_fps", "video", ""),
    Entry("binary_sensor", "cloud_connected", "cloud", ""), Entry("sensor", "active_sessions", "sessions", ""),
    Entry("binary_sensor", "usb_state", "usb", "")>>

NetworkEntries == <<Entry("sensor", "ip_address", "network", ""), Entry("sensor", "hostname", "network", "")>>

\* Load, temperature, memory and storage.
SystemEntries ==
  [i \in 1..5 |-> Entry("sensor", <<"cpu_load", "temperature", "memory_used", "storage_used", "storage_free">>[i],
                        "system", "")]

\* An entry with two forms: the form not wanted is removed first.
Variant(actions, acting, reading) ==
  IF actions THEN <<Del(reading.c, reading.o), Put(acting)>> ELSE <<Del(acting.c, acting.o), Put(reading)>>

MediaOps(actions) ==
  Variant(actions, Entry("select", "virtual_media", "virtual_media", "virtual_media/set"),
                   Entry("sensor", "virtual_media", "virtual_media", ""))
JigglerOps(actions) ==
  Variant(actions, Entry("switch", "jiggler", "jiggler", "jiggler/set"),
                   Entry("binary_sensor", "jiggler", "jiggler", ""))

\* Mutant: the button stays when actions are switched off.
RebootKept(actions) == IF actions THEN PutAll(<<Entry("button", "reboot", "", "reboot/set")>>) ELSE << >>

RebootOps(actions) ==
  IF actions THEN PutAll(<<Entry("button", "reboot", "", "reboot/set")>>) ELSE DelAll(<< <<"button", "reboot">> >>)
FirmwareOps(actions) ==
  PutAll(<<Entry("update", "firmware", "update", IF actions THEN "update/install" ELSE "")>>)

AtxButtons == <<"atx_power_short", "atx_power_long", "atx_reset">>
AtxCommands == <<"atx_power_short/set", "atx_power_long/set", "atx_reset/set">>
AtxOps(actions) ==
  PutAll(<<Entry("binary_sensor", "power_led", "atx", ""), Entry("binary_sensor", "hdd_led", "atx", "")>>)
  \o IF actions THEN PutAll([i \in 1..3 |-> Entry("button", AtxButtons[i], "", AtxCommands[i])])
     ELSE DelAll([i \in 1..3 |-> <<"button", AtxButtons[i]>>])

DcSensors == <<"voltage", "current", "power">>
DcOps(actions) ==
  PutAll([i \in 1..3 |-> Entry("sensor", DcSensors[i], "dc", "")])
  \o Variant(actions, Entry("switch", "dc_power", "dc", "dc_power/set"), Entry("binary_sensor", "dc_power", "dc", ""))

\* The restore policy is offered only when the hardware reports one.
RestoreOps(actions, restore) ==
  IF restore
  THEN Variant(actions, Entry("select", "dc_restore", "dc", "dc_restore/set"), Entry("sensor", "dc_restore", "dc", ""))
  ELSE DelAll(<< <<"select", "dc_restore">>, <<"sensor", "dc_restore">> >>)

RemoveAtx == DelAll(<< <<"binary_sensor", "power_led">>, <<"binary_sensor", "hdd_led">>, <<"button", "atx_power_short">>,
                       <<"button", "atx_power_long">>, <<"button", "atx_reset">> >>)
RemoveDc == DelAll(<< <<"sensor", "voltage">>, <<"sensor", "current">>, <<"sensor", "power">>, <<"switch", "dc_power">>,
                      <<"binary_sensor", "dc_power">>, <<"select", "dc_restore">>, <<"sensor", "dc_restore">> >>)

\* publish_ha_discovery.
DiscoveryOps(actions, ext, restore) ==
  PutAll(StatusEntries) \o PutAll(NetworkEntries) \o PutAll(SystemEntries)
  \o MediaOps(actions) \o JigglerOps(actions) \o RebootOps(actions) \o FirmwareOps(actions)
  \o CASE ext = "atx-power" -> AtxOps(actions) \o RemoveDc
       [] ext = "dc-power"  -> DcOps(actions) \o RestoreOps(actions, restore) \o RemoveAtx
       [] OTHER             -> RemoveAtx \o RemoveDc

\* remove_all_discovery names every entry once more.
RemoveAll ==
  DelAll(<< <<"binary_sensor", "online">>, <<"binary_sensor", "video_signal">>, <<"sensor", "video_resolution">>,
            <<"sensor", "video_fps">>, <<"binary_sensor", "cloud_connected">>, <<"sensor", "active_sessions">>,
            <<"binary_sensor", "usb_state">>, <<"sensor", "ip_address">>, <<"sensor", "hostname">>,
            <<"sensor", "cpu_load">>, <<"sensor", "temperature">>, <<"sensor", "memory_used">>,
            <<"sensor", "storage_used">>, <<"sensor", "storage_free">>, <<"select", "virtual_media">>,
            <<"sensor", "virtual_media">>, <<"switch", "jiggler">>, <<"binary_sensor", "jiggler">>,
            <<"button", "reboot">>, <<"update", "firmware">> >>)
  \o RemoveAtx \o RemoveDc

\* The state topics of publish_extended_states and the status task, and those cleanup_all_topics empties.
ExtendedTopics == {"video", "usb", "cloud", "sessions", "jiggler", "network", "system", "virtual_media", "update"}
PublishedTopics(ext) ==
  {"status"} \cup ExtendedTopics
  \cup (CASE ext = "atx-power" -> {"atx"} [] ext = "dc-power" -> {"dc"} [] OTHER -> {})
CleanedTopics == ExtendedTopics \cup {"status", "atx", "dc"}

\* subscribe_commands.
SubscribedCommands ==
  {"dc_power/set", "dc_restore/set", "atx_power_short/set", "atx_power_long/set", "atx_reset/set",
   "jiggler/set", "reboot/set", "update/install", "virtual_media/set"}

\* handle_command and its handlers: the payloads that have an effect; "any" where it is not looked at.
Understood(command) ==
  CASE command \in {"dc_power/set", "jiggler/set"} -> {"ON", "OFF"}
    [] command = "dc_restore/set" -> {"off", "on", "last_state"}
    [] command = "virtual_media/set" -> {"-- no media --", "image"}
    [] command \in {"atx_power_short/set", "atx_power_long/set", "atx_reset/set", "reboot/set", "update/install"} -> {"any"}
    [] OTHER -> {}

\* What an advertised entry sends.
Offered(e) ==
  CASE e.c = "switch" -> {"ON", "OFF"}
    [] e.o = "dc_restore" /\ e.c = "select" -> {"off", "on", "last_state"}
    [] e.o = "virtual_media" /\ e.c = "select" -> {"-- no media --", "image"}
    [] OTHER -> {"any"}

-----------------------------------------------------------------------------
Modes == [enabled : BOOLEAN, actions : BOOLEAN, discovery : BOOLEAN]

VARIABLES
  mode, nextMode,     \* the settings of the manager in the cell, and of a request under way
  extension, restore, \* what the power control answers
  entries, topics,    \* retained on the broker
  work,               \* messages of the current procedure not yet sent
  stage,              \* "off", "connecting", "steady", "removing", "saving"
  converged,          \* nothing has disturbed the procedures since the last complete one
  lost, changes
topicVars == <<mode, nextMode, extension, restore, entries, topics, work, stage, converged, lost, changes>>

TopicsTypeOK ==
  /\ mode \in Modes /\ extension \in Extensions /\ restore \in BOOLEAN
  /\ stage \in {"off", "connecting", "steady", "removing", "saving"}
  /\ topics \subseteq CleanedTopics /\ lost \in 0..MaxLost /\ changes \in 0..MaxChanges

Apply(es, op) == {e \in es : <<e.c, e.o>> # <<op.c, op.o>>} \cup op.entry

\* What a complete discovery leaves on an empty broker: it names every entry once.
Left(a, x, r) == LET ops == DiscoveryOps(a, x, r) IN UNION {ops[i].entry : i \in 1..Len(ops)}

\* The broker may hold what an earlier run with other settings left.
TopicsInit ==
  /\ mode \in Modes /\ nextMode = mode /\ extension \in Extensions
  /\ restore \in {FALSE, extension = "dc-power"}
  /\ \/ entries = {} /\ topics = {}
     \/ \E a \in BOOLEAN, x \in Extensions : \E r \in {FALSE, x = "dc-power"} :
          entries = Left(a, x, r) /\ topics = CleanedTopics
  /\ work = << >> /\ stage = "off" /\ converged = FALSE /\ lost = 0 /\ changes = 0

\* on_connect: the status, then the discovery entries if they are wanted.
Connect ==
  /\ stage = "off" /\ mode.enabled /\ stage' = "connecting" /\ topics' = topics \cup {"status"}
  /\ work' = IF mode.discovery THEN DiscoveryOps(mode.actions, extension, restore) ELSE << >>
  /\ converged' = (mode.discovery \/ converged)
  /\ UNCHANGED <<mode, nextMode, extension, restore, entries, lost, changes>>

\* publish_raw of the next message; when it times out the procedure goes on.
Send ==
  /\ work # << >> /\ work' = Tail(work)
  /\ \/ entries' = Apply(entries, Head(work)) /\ UNCHANGED <<converged, lost>>
     \/ lost < MaxLost /\ lost' = lost + 1 /\ converged' = FALSE /\ UNCHANGED entries
  /\ UNCHANGED <<mode, nextMode, extension, restore, topics, stage, changes>>

\* The end of on_connect: subscribe_commands and publish_extended_states.
Connected ==
  /\ stage = "connecting" /\ work = << >> /\ stage' = "steady" /\ topics' = topics \cup ExtendedTopics
  /\ UNCHANGED <<mode, nextMode, extension, restore, entries, work, converged, lost, changes>>

\* A broken connection cuts the procedure short; the client connects again.
ConnectionLost ==
  /\ stage \in {"connecting", "steady"} /\ stage' = "off" /\ work' = << >>
  /\ converged' = (converged /\ stage = "steady")
  /\ UNCHANGED <<mode, nextMode, extension, restore, entries, topics, lost, changes>>

\* The status task; publish_virtual_media_state republishes the select when the images changed.
StatusTick(images) ==
  /\ stage \in {"steady", "saving"}
  /\ topics' = topics \cup PublishedTopics(extension)
  /\ entries' = IF images /\ mode.discovery /\ mode.actions
                THEN Apply(entries, Put(Entry("select", "virtual_media", "virtual_media", "virtual_media/set")))
                ELSE entries
  /\ converged' = (converged /\ stage = "steady")
  /\ UNCHANGED <<mode, nextMode, extension, restore, work, stage, lost, changes>>

\* rpc_set_mqtt_settings removes what the new settings do not want, saves, and restarts the client.
\* Disabling empties the state topics as well, after the entries.
ChangeSettings(new) ==
  /\ stage = "steady" /\ changes < MaxChanges /\ changes' = changes + 1
  /\ nextMode' = new /\ stage' = "removing"
  /\ work' = IF ~new.enabled \/ (mode.discovery /\ ~new.discovery) THEN RemoveAll ELSE << >>
  /\ converged' = (~new.enabled \/ (mode.discovery /\ ~new.discovery) \/ converged)
  /\ UNCHANGED <<mode, extension, restore, entries, topics, lost>>

Removed ==
  /\ stage = "removing" /\ work = << >> /\ stage' = "saving"
  /\ topics' = IF nextMode.enabled THEN topics ELSE topics \ CleanedTopics
  /\ UNCHANGED <<mode, nextMode, extension, restore, entries, work, converged, lost, changes>>

\* restart_mqtt stops the status task; close leaves the retained status "offline".
Restart ==
  /\ stage = "saving" /\ stage' = "off" /\ mode' = nextMode /\ topics' = topics \cup {"status"}
  /\ UNCHANGED <<nextMode, extension, restore, entries, work, converged, lost, changes>>

TopicsNext ==
  \/ Connect \/ Send \/ Connected \/ ConnectionLost \/ Removed \/ Restart
  \/ \E images \in BOOLEAN : StatusTick(images)
  \/ \E new \in Modes : ChangeSettings(new)

TopicsSpec == TopicsInit /\ [][TopicsNext]_topicVars

-----------------------------------------------------------------------------
\* What the device should show, said without the order of messages.
StatusNames ==
  {<<"binary_sensor", "online">>, <<"binary_sensor", "video_signal">>, <<"sensor", "video_resolution">>,
   <<"sensor", "video_fps">>, <<"binary_sensor", "cloud_connected">>, <<"sensor", "active_sessions">>,
   <<"binary_sensor", "usb_state">>}
NetworkNames == {<<"sensor", "ip_address">>, <<"sensor", "hostname">>}
SystemNames ==
  {<<"sensor", "cpu_load">>, <<"sensor", "temperature">>, <<"sensor", "memory_used">>, <<"sensor", "storage_used">>,
   <<"sensor", "storage_free">>}
WantedControls(a) ==
  {<<"update", "firmware">>}
  \cup IF a THEN {<<"select", "virtual_media">>, <<"switch", "jiggler">>, <<"button", "reboot">>}
       ELSE {<<"sensor", "virtual_media">>, <<"binary_sensor", "jiggler">>}
WantedAtx(a) ==
  {<<"binary_sensor", "power_led">>, <<"binary_sensor", "hdd_led">>}
  \cup IF a THEN {<<"button", "atx_power_short">>, <<"button", "atx_power_long">>, <<"button", "atx_reset">>} ELSE {}
WantedDc(a, r) ==
  {<<"sensor", "voltage">>, <<"sensor", "current">>, <<"sensor", "power">>}
  \cup (IF a THEN {<<"switch", "dc_power">>} ELSE {<<"binary_sensor", "dc_power">>})
  \cup (IF ~r THEN {} ELSE IF a THEN {<<"select", "dc_restore">>} ELSE {<<"sensor", "dc_restore">>})
Wanted(a, x, r) ==
  StatusNames \cup NetworkNames \cup SystemNames \cup WantedControls(a)
  \cup IF x = "atx-power" THEN WantedAtx(a) ELSE IF x = "dc-power" THEN WantedDc(a, r) ELSE {}
Names(es) == {<<e.c, e.o>> : e \in es}

\* Discovery repairs whatever is on the broker: after a connect whose messages all arrived, the
\* retained entries are exactly those of the current settings and extension, even if an earlier run
\* used others, was cut short, or lost messages; with discovery off or MQTT disabled there are none.
DiscoveryConverges ==
  /\ (stage = "steady" /\ converged /\ mode.discovery)
       => Names(entries) = Wanted(mode.actions, extension, restore)
  /\ (stage \in {"off", "steady", "saving"} /\ converged /\ changes > 0 /\ ~(nextMode.enabled /\ nextMode.discovery)
      /\ nextMode = mode) => entries = {}

\* The two forms of an entry are never advertised together, not even half-way through a republish:
\* the other form is removed first.  Only a lost removal breaks this.
OneForm ==
  lost = 0 => \A d, e \in entries : (d.o = e.o /\ d.o \in {"virtual_media", "jiggler", "dc_power", "dc_restore"}) => d.c = e.c

\* Every entry that a connected client advertises is served: its state topic is one the device
\* publishes, its command topic is subscribed, and each payload it offers has a handler.
AdvertisedIsServed ==
  (stage = "steady" /\ converged /\ mode.discovery) =>
     \A e \in entries : /\ e.state = "" \/ e.state \in PublishedTopics(extension)
                        /\ e.command = "" \/ (e.command \in SubscribedCommands /\ Offered(e) \subseteq Understood(e.command))

\* Disabling MQTT leaves no state topic but the status that close writes, unless the status task
\* ran between the cleanup and the restart, which nothing prevents.
DisabledLeavesStatusOnly ==
  (stage = "off" /\ ~mode.enabled /\ changes > 0 /\ converged) => topics \subseteq {"status"}

\* What is on the broker is what the settings ask for, and all of it is served.
TopicsInv == TopicsTypeOK /\ DiscoveryConverges /\ OneForm /\ AdvertisedIsServed /\ DisabledLeavesStatusOnly

=============================================================================
