-------------------------------- MODULE Api --------------------------------
(***************************************************************************)
(* The JSON-RPC interface of the device, as its three kinds of callers     *)
(* meet it: the web client, the MCP tools and hand-written clients.        *)
(*                                                                         *)
(*   api/registry_builder.rs   which methods exist and how each reads its  *)
(*                             parameters                                  *)
(*   api/registry.rs           convert_parameters, the forgiving reading   *)
(*                             of numbers                                  *)
(*   mcp.rs                    the tools, their schemas and the method     *)
(*                             each one calls                              *)
(*   rkvm-web                  the calls the settings page, the toolbar,   *)
(*                             the upload and the OCR panel make           *)
(*                                                                         *)
(* What a method does with its parameters is the business of the other     *)
(* modules; here a call is a method and the shape of its parameters.       *)
(***************************************************************************)
EXTENDS Integers, FiniteSets

CONSTANTS
    U32Max,        \* u32::MAX, scaled
    U8Max          \* u8::MAX, scaled, below U32Max

ASSUME ApiAssumption == U8Max \in Nat /\ U32Max \in Nat /\ 0 < U8Max /\ U8Max < U32Max

VARIABLES
    call,          \* the call being made, a record with a "from" field
    answer         \* what its caller is told: "none" while it runs

apiVars == <<call, answer>>
-----------------------------------------------------------------------------
(* How a method reads its parameters, and the fields it cannot do without. *)
Reading(kind, need, methods) == {[method |-> m, kind |-> kind, need |-> need] : m \in methods}
Ignoring(methods) == Reading("ignored", {}, methods)

RegisteredVideo ==
    Ignoring({"ping", "getDeviceID", "getFailsafeMode", "restartVideoPipeline", "getHealth",
              "getSerialSettings", "getDisplayRotation", "getBacklightSettings",
              "getStreamQualityFactor", "getAutoUpdateState", "getEDID", "getAudioConfig",
              "getHostDisplayIdleMode", "getUsbDevices", "getUsbEmulationState"})
    \cup Reading("typed", {}, {"reboot", "setEDID"})
    \cup Reading("typed", {"baud_rate", "data_bits", "stop_bits", "parity"}, {"setSerialSettings"})
    \cup Reading("typed", {"factor"}, {"setStreamQualityFactor"})
    \cup Reading("typed", {"devices"}, {"setUsbDevices"})
    \cup Reading("typed", {"device", "enabled"}, {"setUsbDeviceState"})
    \cup Reading("raw", {"rotation"}, {"setDisplayRotation"})
    \cup Reading("raw", {"max_brightness", "dim_after", "off_after"}, {"setBacklightSettings"})
    \cup Reading("raw", {"enabled"}, {"setAutoUpdateState", "setHostDisplayIdleMode",
                                    "setUsbEmulationState"})
    \cup Reading("raw", {"params"}, {"setAudioConfig"})

RegisteredInput ==
    Ignoring({"wakeHost", "getKeyboardLayout", "getKeyboardLedState", "getKeyDownState",
              "getUSBState", "getUsbConfig", "getUpdateStatus", "getLocalVersion",
              "isUpdatePending", "getApiTokenState", "createApiToken", "revokeApiToken",
              "getDevChannelState", "getTLSState", "getKeyboardMacros"})
    \cup Reading("typed", {"modifier", "keys"}, {"keyboardReport"})
    \cup Reading("typed", {"x", "y", "buttons"}, {"absMouseReport"})
    \cup Reading("typed", {"dx", "dy", "buttons"}, {"relMouseReport"})
    \cup Reading("typed", {"wheelY"}, {"wheelReport"})
    \cup Reading("typed", {"key", "press"}, {"keypressReport"})
    \cup Reading("typed", {"usbConfig"}, {"setUsbConfig"})
    \cup Reading("text", {}, {"setUSBState"})
    \cup Reading("optional", {"layout"}, {"setKeyboardLayout"})
    \cup Reading("raw", {"enabled"}, {"setDevChannelState"})
    \cup Reading("state", {"mode"}, {"setTLSState"})
    \cup Reading("unwrapped", {"macros"}, {"setKeyboardMacros"})

RegisteredNetwork ==
    Ignoring({"getCloudState", "deregisterDevice", "resetConfig", "getNetworkState",
              "getNetworkSettings", "renewDHCPLease", "getNetworkIpAddress", "getDisplayState",
              "getLocalLoopbackOnly", "getWakeOnLanDevices"})
    \cup Reading("typed", {"state"}, {"setCloudState"})
    \cup Reading("typed", {"ip"}, {"setNetworkIpAddress"})
    \cup Reading("raw", {"apiUrl", "appUrl"}, {"setCloudUrl"})
    \cup Reading("raw", {"settings"}, {"setNetworkSettings"})
    \cup Reading("raw", {"enabled"}, {"setLocalLoopbackOnly"})
    \cup Reading("inner", {"devices"}, {"setWakeOnLanDevices"})
    \cup Reading("raw", {"macAddress"}, {"sendWOLMagicPacket"})

RegisteredMedia ==
    Ignoring({"getVirtualMediaState", "getVideoState", "unmountImage", "getMassStorageMode",
              "listStorageFiles", "getStorageSpace", "getSSHKeyState", "getDevModeState"})
    \cup Reading("typed", {"url"}, {"checkMountUrl"})
    \cup Reading("raw", {"url", "mode"}, {"mountWithHTTP"})
    \cup Reading("raw", {"filename", "size", "mode"}, {"mountWithWebRTC"})
    \cup Reading("raw", {"filename", "mode"}, {"mountWithStorage"})
    \cup Reading("raw", {"mode"}, {"setMassStorageMode"})
    \cup Reading("raw", {"filename", "size"}, {"startStorageFileUpload"})
    \cup Reading("raw", {"filename"}, {"deleteStorageFile", "mountBuiltInImage",
                                     "rpcMountBuiltInImage"})
    \cup Reading("raw", {"sshKey"}, {"setSSHKeyState"})
    \cup Reading("raw", {"enabled"}, {"setDevModeState"})

RegisteredSystem ==
    Ignoring({"getVideoCodecPreference", "getVideoSleepMode", "getVideoLogStatus",
              "getUpdateStatusChannel", "tryUpdate", "factoryReset", "getDefaultLogLevel",
              "getTimezone", "getTimezones", "checkPublicIPAddresses"})
    \cup Reading("typed", {"codec"}, {"setVideoCodecPreference"})
    \cup Reading("typed", {"duration"}, {"setVideoSleepMode"})
    \cup Reading("typed", {"level"}, {"setDefaultLogLevel", "emitTestLog"})
    \cup Reading("typed", {}, {"getRecentLogs"})
    \cup Reading("raw", {}, {"checkUpdateComponents", "tryUpdateComponents"})
    \cup Reading("optional", {}, {"readScreenText", "waitScreenStable", "getPublicIPAddresses"})
    \cup Reading("raw", {"text"}, {"findScreenText", "waitForText"})

RegisteredExtensions ==
    Ignoring({"getDCPowerState", "getATXState", "getActiveExtension", "getJigglerState",
              "getJigglerConfig", "getTailscaleStatus", "getMqttSettings", "getMqttStatus",
              "getSerialCommandHistory", "deleteSerialCommandHistory", "cancelKeyboardMacro"})
    \cup Reading("raw", {"enabled"}, {"setDCPowerState", "setJigglerState"})
    \cup Reading("raw", {"state"}, {"setDCRestoreState"})
    \cup Reading("raw", {"action"}, {"setATXPowerAction"})
    \cup Reading("raw", {"extensionId"}, {"setActiveExtension"})
    \cup Reading("raw", {"jigglerConfig"}, {"setJigglerConfig"})
    \cup Reading("raw", {"settings"}, {"setMqttSettings", "testMqttConnection"})
    \cup Reading("typed", {"command"}, {"sendCustomCommand"})
    \cup Reading("raw", {"commandHistory"}, {"setSerialCommandHistory"})
    \cup Reading("typed", {"terminalPaused"}, {"setTerminalPaused"})
    \cup Reading("steps", {}, {"executeKeyboardMacro"})
    \cup Reading("raw", {"text"}, {"typeText"})
    \cup Reading("raw", {"combo"}, {"pressCombo"})
    \cup Reading("raw", {"x", "y"}, {"mouseMove", "mouseClick"})

Registry == RegisteredVideo \cup RegisteredInput \cup RegisteredNetwork \cup RegisteredMedia
              \cup RegisteredSystem \cup RegisteredExtensions
-----------------------------------------------------------------------------
(* Parameters: absent, a list, a string, or an object; "inner" are the     *)
(* fields of the object under the key "params" or "state", if there is one.*)
NoArgs == [shape |-> "absent", keys |-> {}, inner |-> {}]
List   == [shape |-> "list", keys |-> {}, inner |-> {}]
Object(keys) == [shape |-> "object", keys |-> keys, inner |-> {}]
Wrapped(key, inner) == [shape |-> "object", keys |-> {key}, inner |-> inner]

(* The fields a typed method sees: a lone "params" is taken off.           *)
TypedFields(p) == IF p.keys = {"params"} THEN p.inner ELSE p.keys

(* Whether a method's parameter structure can be built from p.             *)
Readable(r, p) ==
    CASE r.kind = "ignored"   -> TRUE
      [] r.kind = "typed"     -> p.shape \in {"absent", "object"} /\ r.need \subseteq TypedFields(p)
      [] r.kind = "text"      -> p.shape = "text"
      [] r.kind = "steps"     -> p.shape = "list"
      [] r.kind = "raw"       -> p.shape = "object" /\ r.need \subseteq p.keys
      [] r.kind = "optional"  -> p.shape \in {"absent", "object"} /\ r.need \subseteq p.keys
      [] r.kind = "inner"     -> p.shape = "object" /\ "params" \in p.keys /\ r.need \subseteq p.inner
      [] r.kind = "unwrapped" -> p.shape = "object"
                                   /\ r.need \subseteq (IF "params" \in p.keys THEN p.inner ELSE p.keys)
      [] r.kind = "state"     -> p.shape = "object"
                                   /\ r.need \subseteq (IF "state" \in p.keys THEN p.inner ELSE p.keys)

(* RpcRegistry::call up to the handler's own checks.                       *)
RegistryCall(method, p) ==
    LET named == {r \in Registry : r.method = method}
    IN  IF named = {} THEN "unknown"
        ELSE IF \E r \in named : Readable(r, p) THEN "accepted" ELSE "refused"
-----------------------------------------------------------------------------
(* The web client's calls.                                                 *)
Get(methods) == {<<m, NoArgs>> : m \in methods}
With(method, keys) == <<method, Object(keys)>>

SettingsLoads ==
    Get({"getVideoCodecPreference", "getDisplayRotation", "getKeyboardLayout",
         "getBacklightSettings", "getDeviceID", "getLocalVersion", "getVirtualMediaState",
         "getNetworkState", "getUsbDevices", "getEDID", "getNetworkSettings",
         "getAutoUpdateState", "getJigglerState", "getUsbEmulationState",
         "getDefaultLogLevel", "getSSHKeyState", "getMqttSettings"})

SettingsMediaActions ==
    Get({"unmountImage", "renewDHCPLease", "getUpdateStatus", "tryUpdate"})
    \cup {With("mountWithHTTP", {"url", "mode"})}

SettingsSaves ==
    {With("setUsbDeviceState", {"device", "enabled"}), With("setEDID", {"edid"}),
     With("sendWOLMagicPacket", {"macAddress"}), With("setNetworkSettings", {"settings"}),
     With("setMqttSettings", {"settings"}), With("setSSHKeyState", {"sshKey"}),
     With("setDefaultLogLevel", {"level"}), With("setVideoCodecPreference", {"codec"}),
     With("setDisplayRotation", {"rotation"}), With("setKeyboardLayout", {"layout"}),
     With("setBacklightSettings", {"max_brightness", "dim_after", "off_after"}),
     With("reboot", {"force"})}

SettingsToggles ==
    {With(m, {"enabled"}) : m \in {"setJigglerState", "setUsbEmulationState", "setAutoUpdateState"}}

AdvancedLoads ==
    Get({"getDCPowerState", "getATXState", "getActiveExtension", "getCloudState",
         "getTailscaleStatus", "getDevModeState", "getDevChannelState", "getTLSState",
         "getSerialCommandHistory", "getTimezone", "getKeyboardMacros"})

AdvancedActions ==
    {With("setDCPowerState", {"enabled"}), With("setDCRestoreState", {"state"}),
     With("setATXPowerAction", {"action"}), With("setCloudUrl", {"apiUrl", "appUrl"}),
     With("setActiveExtension", {"extensionId"}), With("setDevModeState", {"enabled"}),
     With("setDevChannelState", {"enabled"}), With("setKeyboardMacros", {"macros"}),
     <<"setTLSState", Wrapped("state", {"mode"})>>,
     <<"setTLSState", Wrapped("state", {"mode", "certificate", "privateKey"})>>,
     <<"executeKeyboardMacro", List>>}
    \cup Get({"deregisterDevice", "deleteSerialCommandHistory", "resetConfig", "factoryReset"})

ConsoleCalls ==
    Get({"getVideoState", "getKeyboardLedState", "getAudioConfig", "getStreamQualityFactor",
         "getUsbDevices"})
    \cup {<<"setAudioConfig", Wrapped("params", {"enabled"})>>,
          With("setStreamQualityFactor", {"factor"}), With("wheelReport", {"wheelY", "wheelX"}),
          With("readScreenText", {}), With("startStorageFileUpload", {"filename", "size"}),
          With("mountWithStorage", {"filename", "mode"})}

ClientCalls == SettingsLoads \cup SettingsMediaActions \cup SettingsSaves \cup SettingsToggles
                 \cup AdvancedLoads \cup AdvancedActions \cup ConsoleCalls
-----------------------------------------------------------------------------
(* The MCP tools. A schema names the arguments a tool takes and those it   *)
(* cannot do without; the method of "screenshot", "list_rpc_methods" and   *)
(* "rpc_call" is chosen by call_tool itself.                               *)
Schema(tool, required, optional) == [tool |-> tool, required |-> required, optional |-> optional]

ToolSchemas ==
    {Schema(t, {}, {}) : t \in {"screenshot", "get_health", "get_atx_state", "get_dc_power_state",
                               "list_rpc_methods"}}
    \cup {Schema("get_logs", {}, {"limit", "level", "contains"}),
          Schema("type_text", {"text"}, {"delayMs"}),
          Schema("press_combo", {"combo"}, {"holdMs"}),
          Schema("mouse_move", {"x", "y"}, {"normalized"}),
          Schema("mouse_click", {"x", "y"}, {"normalized", "button", "double"}),
          Schema("atx_power", {"action"}, {}), Schema("dc_power", {"enabled"}, {}),
          Schema("wake_on_lan", {"macAddress"}, {})}

ToolSchemasVision ==
    {Schema("read_screen_text", {}, {"detail", "region", "waitStableMs"}),
     Schema("find_text", {"text"}, {"detail", "region"}),
     Schema("wait_for_text", {"text"}, {"timeoutMs", "intervalMs", "detail", "region"}),
     Schema("wait_until_stable", {}, {"timeoutMs", "stableMs"}),
     Schema("rpc_call", {"method"}, {"params"})}

Tools == ToolSchemas \cup ToolSchemasVision

RpcMethodForTool ==
    {<<"get_health", "getHealth">>, <<"get_logs", "getRecentLogs">>, <<"type_text", "typeText">>,
     <<"press_combo", "pressCombo">>, <<"mouse_move", "mouseMove">>, <<"mouse_click", "mouseClick">>,
     <<"atx_power", "setATXPowerAction">>, <<"get_atx_state", "getATXState">>,
     <<"dc_power", "setDCPowerState">>, <<"get_dc_power_state", "getDCPowerState">>,
     <<"wake_on_lan", "sendWOLMagicPacket">>, <<"read_screen_text", "readScreenText">>,
     <<"find_text", "findScreenText">>, <<"wait_until_stable", "waitScreenStable">>,
     <<"wait_for_text", "waitForText">>}

(* McpServer::call_tool; named is the method an rpc_call names.            *)
CallTool(tool, args, named) ==
    CASE tool \in {"screenshot", "list_rpc_methods"} -> "accepted"
      [] tool = "rpc_call" ->
           IF "method" \notin args THEN "refused"
           ELSE RegistryCall(named, IF "params" \in args THEN Object({}) ELSE NoArgs)
      [] OTHER ->
           IF \E m \in RpcMethodForTool : m[1] = tool
           THEN RegistryCall((CHOOSE m \in RpcMethodForTool : m[1] = tool)[2],
                             IF args = {} THEN NoArgs ELSE Object(args))
           ELSE "unknown"

(* McpServer::handle: a request without an id gets no response at all.     *)
McpHandle(c) ==
    IF ~c.id THEN "silence"
    ELSE CASE c.method \in {"initialize", "ping", "tools/list"} -> "accepted"
           [] c.method = "tools/call" -> CallTool(c.tool, c.args, c.named)
           [] OTHER -> "unknown"
-----------------------------------------------------------------------------
(* The forgiving reading of numbers. A sent value is a number written as   *)
(* an integer, as a float or as a string, or a word; half is a float that  *)
(* is no whole number. What serde cannot read at first is converted as a   *)
(* whole and tried once more.                                              *)
Sent(form, n) == [form |-> form, n |-> n]
Whole(v) == v.form \in {"int", "float", "digits"}

(* as u32, as u8: a conversion that saturates.                             *)
Saturate(n, top) == IF n < 0 THEN 0 ELSE IF n > top THEN top ELSE n

\* Mutant: a float above the range is clipped to it.
ConvertObjectValueClipped(v) ==
    CASE v.form = "float" /\ v.n >= 0 -> Sent("int", Saturate(v.n, U32Max))
      [] v.form = "digits" -> Sent("int", v.n)
      [] OTHER -> v

ConvertObjectValue(v) ==
    CASE v.form = "float" /\ v.n >= 0 /\ v.n <= U32Max -> Sent("int", Saturate(v.n, U32Max))
      [] v.form = "digits" -> Sent("int", v.n)
      [] OTHER -> v

ConvertArrayValue(v) ==
    IF v.form = "float" /\ v.n >= 0 /\ v.n <= U8Max THEN Sent("int", Saturate(v.n, U8Max)) ELSE v

(* serde_json::from_value on one field.                                    *)
Reads(type, v) ==
    CASE type = "u8"     -> v.form = "int" /\ v.n \in 0..U8Max
      [] type = "u32"    -> v.form = "int" /\ v.n \in 0..U32Max
      [] type = "i8"     -> v.form = "int" /\ v.n \in (-(U8Max \div 2) - 1)..(U8Max \div 2)
      [] type = "string" -> v.form \in {"digits", "word"}

(* convert_parameters for a structure of two fields; "refused" or what the *)
(* handler receives. The second field may be a list of one element.        *)
ConvertParameters(types, first, second, listed) ==
    LET again1 == ConvertObjectValue(first)
        again2 == IF listed THEN ConvertArrayValue(second) ELSE ConvertObjectValue(second)
    IN  IF Reads(types[1], first) /\ Reads(types[2], second) THEN <<first, second>>
        ELSE IF Reads(types[1], again1) /\ Reads(types[2], again2) THEN <<again1, again2>>
        ELSE <<>>
-----------------------------------------------------------------------------
Idle == [from |-> "nobody"]

ApiInit == call = Idle /\ answer = "none"

ClientAsks ==
    \E c \in ClientCalls : call' = [from |-> "client", method |-> c[1], params |-> c[2]]

McpMethods == {"initialize", "ping", "tools/list", "tools/call", "resources/list"}
NamedMethods == {"getHealth", "typeText", "noSuchMethod"}

McpAsks ==
    \E id \in BOOLEAN, m \in McpMethods, named \in NamedMethods :
      \E t \in Tools : \E optional \in SUBSET t.optional :
        /\ m # "tools/call" => t.tool = "screenshot"
        /\ t.tool # "rpc_call" => named = "getHealth"
        /\ call' = [from |-> "mcp", id |-> id, method |-> m, tool |-> t.tool,
                    args |-> t.required \cup optional, named |-> named]

NumberForms == {"int", "float", "digits", "half", "word"}
NumberEdges == {-1, 0, U8Max, U8Max + 1, U32Max, U32Max + 1}

NumberAsks ==
    \E t1 \in {"u8", "u32", "i8"}, t2 \in {"u8", "u32", "string"}, listed \in BOOLEAN :
      \E f1, f2 \in NumberForms, n1, n2 \in NumberEdges :
          call' = [from |-> "number", types |-> <<t1, t2>>, listed |-> listed,
                   sent |-> <<Sent(f1, n1), Sent(f2, n2)>>]

ApiAsk == answer = "none" /\ call = Idle /\ UNCHANGED answer
            /\ (ClientAsks \/ McpAsks \/ NumberAsks)

ApiAnswer ==
    /\ answer = "none" /\ call # Idle
    /\ answer' = CASE call.from = "client" -> RegistryCall(call.method, call.params)
                   [] call.from = "mcp" -> McpHandle(call)
                   [] call.from = "number" ->
                        IF ConvertParameters(call.types, call.sent[1], call.sent[2], call.listed) = <<>>
                        THEN "refused" ELSE "accepted"
    /\ UNCHANGED call

ApiDone == answer # "none" /\ call' = Idle /\ answer' = "none"

ApiNext == ApiAsk \/ ApiAnswer \/ ApiDone
ApiSpec == ApiInit /\ [][ApiNext]_apiVars
-----------------------------------------------------------------------------
(* Every call is a call of one of the three kinds and is answered at most   *)
(* once.                                                                   *)
ApiTypeOK ==
    /\ call.from \in {"nobody", "client", "mcp", "number"}
    /\ answer \in {"none", "accepted", "refused", "unknown", "silence"}
    /\ call = Idle => answer = "none"

(* The web client and the device are built from two crates that share no   *)
(* declaration of the interface: every call a button or a page of the web  *)
(* client makes names a method the device registers (registry_builder.rs)  *)
(* and carries the fields that method's parameters require.                *)
ClientSpeaksDevice == call.from = "client" => answer \in {"none", "accepted"}

(* Whatever a tool's published schema allows reaches a handler: a listed   *)
(* tool is never unknown, and no optional argument left out or given makes *)
(* the device method refuse its parameters (mcp.rs tool_definitions,       *)
(* rpc_method_for_tool). A request without an id, and only that, is        *)
(* answered with silence.                                                  *)
ToolsAreHonoured ==
    call.from = "mcp" /\ answer # "none" =>
      /\ (answer = "silence") <=> ~call.id
      /\ call.id /\ call.method = "tools/call" /\ call.tool # "rpc_call" => answer = "accepted"

(* The forgiving conversion never changes a number: whatever a handler     *)
(* receives is the number that was sent, in whichever of the three ways it *)
(* was written; a value outside the type is refused, never clipped         *)
(* (registry.rs convert_object_values, convert_array_values).              *)
AcceptedIsWhatWasSent ==
    call.from = "number" /\ answer = "accepted" =>
      LET got == ConvertParameters(call.types, call.sent[1], call.sent[2], call.listed)
      IN  \A i \in 1..2 : /\ got[i].n = call.sent[i].n
                          /\ call.types[i] # "string" => Whole(call.sent[i])

(* The device and its callers agree on the interface, and no number        *)
(* changes on its way through the conversion.                              *)
ApiInv == ApiTypeOK /\ ClientSpeaksDevice /\ ToolsAreHonoured /\ AcceptedIsWhatWasSent

=============================================================================
