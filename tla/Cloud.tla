------------------------------- MODULE Cloud -------------------------------
(***************************************************************************)
(* The cloud connection: the connection loop of CloudManager, the WebSocket *)
(* it opens, and the API requests that register or deregister the device,   *)
(* change the cloud URL or force a state.  CloudManager.state is an atomic  *)
(* byte that the loop and the requests read and store independently; a      *)
(* request awaits the network or the configuration between its stores.      *)
(***************************************************************************)
EXTENDS Naturals, FiniteSets

CONSTANTS
  CloudReqs,         \* API requests
  Clouds,            \* URLs of cloud services
  MaxCloudActive,    \* bound on requests under way at once
  MaxCloudFaults     \* bound on failed configuration saves

ASSUME CloudAssumption ==
  /\ IsFiniteSet(CloudReqs) /\ "none" \notin CloudReqs
  /\ MaxCloudActive \in Nat \ {0} /\ MaxCloudFaults \in Nat

VARIABLES
  cloudState,    \* CloudManager.state
  cloudToken, cloudIdentity,  \* Config fields, named by the registration that set them, or "none"
  cloudUrl,      \* Config.cloud_url, or "none" when it is empty
  loopPc, loopSees,  \* the connection loop, and the state it read
  socketTo,      \* the URL and token of the connection being made or open
  wsTx,          \* CLOUD_WS_TX holds a sender
  cloudPc, cloudKind, cloudArg,
  cloudUpsets,   \* what happened that breaks a promise: see its uses
  cloudFaults

cloudVars == <<cloudState, cloudToken, cloudIdentity, cloudUrl, loopPc, loopSees, socketTo, wsTx,
               cloudPc, cloudKind, cloudArg, cloudUpsets, cloudFaults>>
cloudCfgVars == <<cloudToken, cloudIdentity, cloudUrl>>
cloudLoopVars == <<loopPc, loopSees, socketTo, wsTx>>

CloudStates == {"notConfigured", "disconnected", "connecting", "connected"}
CloudEnded == {"new", "done", "failed"}
CloudActive == {r \in CloudReqs : cloudPc[r] \notin CloudEnded}
CloudGoto(r, pc) == cloudPc' = [cloudPc EXCEPT ![r] = pc]
Nowhere == [url |-> "none", token |-> "none"]
Registered == cloudToken # "none" /\ cloudUrl # "none"

CloudTypeOK ==
  /\ cloudState \in CloudStates /\ loopSees \in CloudStates
  /\ {cloudToken, cloudIdentity} \subseteq CloudReqs \cup {"none"}
  /\ cloudUrl \in Clouds \cup {"none"}
  /\ loopPc \in {"look", "act", "configure", "handshake", "open", "clear", "leave"}
  /\ cloudFaults \in 0..MaxCloudFaults

CloudInit ==
  /\ cloudState = "notConfigured" /\ cloudToken = "none" /\ cloudIdentity = "none"
  /\ cloudUrl \in Clouds \cup {"none"}
  /\ loopPc = "look" /\ loopSees = "notConfigured" /\ socketTo = Nowhere /\ wsTx = FALSE
  /\ cloudPc = [r \in CloudReqs |-> "new"] /\ cloudKind = [r \in CloudReqs |-> "none"]
  /\ cloudArg = [r \in CloudReqs |-> "none"]
  /\ cloudUpsets = {} /\ cloudFaults = 0

-----------------------------------------------------------------------------
(* The connection loop. *)

LoopGoto(pc) == loopPc' = pc /\ UNCHANGED loopSees
LoopOnly == UNCHANGED <<cloudCfgVars, cloudPc, cloudKind, cloudArg, cloudUpsets, cloudFaults>>

\* The state is loaded; in Connecting or Connected the loop sleeps and looks again.
LoopLook ==
  /\ loopPc = "look" /\ cloudState \in {"notConfigured", "disconnected"}
  /\ loopPc' = "act" /\ loopSees' = cloudState
  /\ UNCHANGED <<cloudState, socketTo, wsTx>> /\ LoopOnly

\* NotConfigured: a stored registration starts the connection, else sleep.
LoopNotConfigured ==
  /\ loopPc = "act" /\ loopSees = "notConfigured"
  /\ cloudState' = IF Registered THEN "disconnected" ELSE cloudState
  /\ LoopGoto("look") /\ UNCHANGED <<socketTo, wsTx>> /\ LoopOnly

\* Disconnected: the state becomes Connecting, whatever it is by now.
LoopDisconnected ==
  /\ loopPc = "act" /\ loopSees = "disconnected"
  /\ cloudState' = "connecting"
  /\ LoopGoto("configure") /\ UNCHANGED <<socketTo, wsTx>> /\ LoopOnly

\* connect_to_cloud reads the configuration; with a token it reports Connected before it connects.
ConnectToCloud ==
  /\ loopPc = "configure"
  /\ IF cloudToken = "none"
     THEN /\ cloudState' = "disconnected" /\ LoopGoto("look") /\ UNCHANGED socketTo
     ELSE /\ cloudState' = "connected" /\ LoopGoto("handshake")
          /\ socketTo' = [url |-> cloudUrl, token |-> cloudToken]
  /\ UNCHANGED wsTx /\ LoopOnly

\* CloudWebSocketClient::connect: the handshake opens the socket and installs the sender, or fails.
HandshakeSucceeds ==
  /\ loopPc = "handshake" /\ socketTo.url # "none"
  /\ wsTx' = TRUE /\ LoopGoto("open")
  /\ UNCHANGED <<cloudState, socketTo>> /\ LoopOnly

HandshakeFails ==
  /\ loopPc = "handshake" /\ LoopGoto("leave")
  /\ UNCHANGED <<cloudState, socketTo, wsTx>> /\ LoopOnly

\* The peer closes (the sender is taken back), or a stream error returns at once and leaves it.
SocketCloses ==
  /\ loopPc = "open" /\ LoopGoto("clear")
  /\ UNCHANGED <<cloudState, socketTo, wsTx>> /\ LoopOnly

ClearSender ==
  /\ loopPc = "clear" /\ wsTx' = FALSE /\ LoopGoto("leave")
  /\ UNCHANGED <<cloudState, socketTo>> /\ LoopOnly

SocketErrs ==
  /\ loopPc = "open" /\ LoopGoto("leave")
  /\ cloudUpsets' = cloudUpsets \cup {"streamError"}
  /\ UNCHANGED <<cloudState, socketTo, wsTx, cloudCfgVars, cloudPc, cloudKind, cloudArg, cloudFaults>>

\* Mutant: the state is not reset when the connection ends.
LeaveKeepsState ==
  /\ loopPc = "leave" /\ socketTo' = Nowhere
  /\ LoopGoto("look") /\ UNCHANGED <<cloudState, wsTx>> /\ LoopOnly

LeaveCloud ==
  /\ loopPc = "leave" /\ cloudState' = "disconnected" /\ socketTo' = Nowhere
  /\ LoopGoto("look") /\ UNCHANGED wsTx /\ LoopOnly

-----------------------------------------------------------------------------
(* Requests. *)

\* register_device takes the configured URL, else the one it was given; deregister_device and
\* set_cloud_url read the configuration, and set_cloud_url resets the state before it saves.
CloudStart(r, kind, arg) ==
  /\ cloudPc[r] = "new" /\ Cardinality(CloudActive) < MaxCloudActive
  /\ cloudKind' = [cloudKind EXCEPT ![r] = kind]
  /\ cloudArg' = [cloudArg EXCEPT ![r] = arg]
  /\ cloudUpsets' = IF CloudActive = {} THEN cloudUpsets ELSE cloudUpsets \cup {"overlap"}
  /\ UNCHANGED <<cloudCfgVars, cloudLoopVars, cloudFaults>>

StartRegister(r, api) ==
  LET url == IF cloudUrl # "none" THEN cloudUrl ELSE api
  IN  /\ CloudStart(r, "register", url) /\ UNCHANGED cloudState
      /\ CloudGoto(r, IF url = "none" THEN "failed" ELSE "exchange")

StartDeregister(r) ==
  /\ CloudStart(r, "deregister", cloudUrl) /\ UNCHANGED cloudState
  /\ CloudGoto(r, IF Registered THEN "delete" ELSE "failed")

StartSetUrl(r, url) ==
  /\ CloudStart(r, "setUrl", url)
  /\ cloudState' = IF url # cloudUrl THEN "disconnected" ELSE cloudState
  /\ CloudGoto(r, "saveUrl")

\* The setCloudState RPC stores any state.
ForceState(r, s) ==
  /\ cloudPc[r] = "new" /\ CloudGoto(r, "done")
  /\ cloudState' = s /\ cloudUpsets' = cloudUpsets \cup {"forced"}
  /\ UNCHANGED <<cloudCfgVars, cloudLoopVars, cloudKind, cloudArg, cloudFaults>>

\* The cloud answers (token exchange, identity verification, DELETE), or refuses or times out.
CloudAnswers(r) ==
  /\ cloudPc[r] \in {"exchange", "verify", "delete"}
  /\ \/ CloudGoto(r, CASE cloudPc[r] = "exchange" -> "verify"
                       [] cloudPc[r] = "verify"   -> "saveToken"
                       [] cloudPc[r] = "delete"   -> "saveToken")
     \/ CloudGoto(r, "failed")
  /\ UNCHANGED <<cloudState, cloudCfgVars, cloudLoopVars, cloudKind, cloudArg, cloudUpsets, cloudFaults>>

\* One ConfigManager::update: the value is in memory even when the save fails and the request ends.
Registering(r) == cloudKind[r] = "register"
SaveStep(r, pc, next) ==
  /\ cloudPc[r] = pc
  /\ \/ CloudGoto(r, next) /\ UNCHANGED <<cloudFaults, cloudUpsets>>
     \/ /\ cloudFaults < MaxCloudFaults /\ cloudFaults' = cloudFaults + 1
        /\ CloudGoto(r, "failed") /\ cloudUpsets' = cloudUpsets \cup {"saveFailed"}
  /\ UNCHANGED <<cloudLoopVars, cloudKind, cloudArg>>

SaveToken(r) ==
  /\ SaveStep(r, "saveToken", "saveIdentity")
  /\ cloudToken' = IF Registering(r) THEN r ELSE "none"
  /\ cloudUrl' = IF Registering(r) THEN cloudArg[r] ELSE cloudUrl
  /\ UNCHANGED <<cloudState, cloudIdentity>>

SaveIdentity(r) ==
  /\ SaveStep(r, "saveIdentity", "finish")
  /\ cloudIdentity' = IF Registering(r) THEN r ELSE "none"
  /\ UNCHANGED <<cloudState, cloudToken, cloudUrl>>

FinishCloud(r) ==
  /\ cloudPc[r] = "finish" /\ CloudGoto(r, "done")
  /\ cloudState' = IF Registering(r) THEN "disconnected" ELSE "notConfigured"
  /\ UNCHANGED <<cloudCfgVars, cloudLoopVars, cloudKind, cloudArg, cloudUpsets, cloudFaults>>

SaveUrl(r) ==
  /\ SaveStep(r, "saveUrl", "done")
  /\ cloudUrl' = cloudArg[r] /\ UNCHANGED <<cloudState, cloudToken, cloudIdentity>>

LoopTask == LoopLook \/ LoopNotConfigured \/ LoopDisconnected \/ ConnectToCloud
            \/ HandshakeSucceeds \/ HandshakeFails \/ ClearSender \/ LeaveCloud

CloudNext ==
  \/ LoopTask \/ SocketCloses \/ SocketErrs
  \/ \E r \in CloudReqs :
       \/ \E u \in Clouds \cup {"none"} : StartRegister(r, u) \/ StartSetUrl(r, u)
       \/ StartDeregister(r) \/ \E s \in CloudStates : ForceState(r, s)
       \/ CloudAnswers(r) \/ SaveToken(r) \/ SaveIdentity(r) \/ FinishCloud(r) \/ SaveUrl(r)

\* The loop's task runs, a cloud that is there lets the device in at last.
CloudFairness == WF_cloudVars(LoopTask) /\ SF_cloudVars(HandshakeSucceeds)

-----------------------------------------------------------------------------
\* Whatever requests store while the loop connects, it never comes back to its look at a state
\* it only sleeps in: that takes a setCloudState, whose state nothing takes back.
LoopNeverParked ==
  (loopPc = "look" /\ cloudState \in {"connecting", "connected"}) => "forced" \in cloudUpsets

\* Token and identity are set by separate updates.  When requests do not overlap and no save
\* fails, between requests they belong to the same registration, or both are gone.
RegistrationIsWhole ==
  (CloudActive = {} /\ cloudUpsets \cap {"overlap", "saveFailed"} = {}) => cloudToken = cloudIdentity

\* cloud_ws_send_json finds a sender exactly while the socket is open, until a stream error leaves
\* the sender of a dead socket behind.
SenderIsOpen ==
  "streamError" \notin cloudUpsets => (wsTx => loopPc \in {"open", "clear"})

\* A registered device gets its connection again and again, unless a setCloudState parked the loop.
CloudConnects ==
  (<>[](Registered /\ "forced" \notin cloudUpsets)) => []<>(loopPc = "open")

\* Loop, registration and sender stay consistent through requests that overlap with the loop.
CloudInv == CloudTypeOK /\ LoopNeverParked /\ RegistrationIsWhole /\ SenderIsOpen

=============================================================================
