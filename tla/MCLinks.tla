------------------------------ MODULE MCLinks ------------------------------
(***************************************************************************)
(* The device's links: the control socket, JSON-RPC, the disk bridge, MQTT   *)
(* and the cloud.  They share no variable, so one instance checks them side  *)
(* by side: a behaviour chooses the link it is about in its first state      *)
(* (focus), and the others rest in an initial state.                         *)
(***************************************************************************)
EXTENDS CtrlSocket, RpcCalls, DiskBridge, Mqtt, Cloud

VARIABLE focus

MCInit ==
  /\ focus \in {"ctrl", "rpc", "disk", "mqtt", "cloud"}
  /\ CtrlInit /\ RpcInit /\ DiskInit /\ MqttInit /\ CloudInit
  /\ focus # "mqtt" => ~cfgEnabled
  /\ focus # "cloud" => cloudUrl = "none"

MCNext ==
  \/ focus = "ctrl" /\ CtrlNext /\ UNCHANGED <<focus, rpcVars, diskVars, mqttVars, cloudVars>>
  \/ focus = "rpc" /\ RpcNext /\ UNCHANGED <<focus, ctrlVars, diskVars, mqttVars, cloudVars>>
  \/ focus = "disk" /\ DiskNext /\ UNCHANGED <<focus, ctrlVars, rpcVars, mqttVars, cloudVars>>
  \/ focus = "mqtt" /\ MqttNext /\ UNCHANGED <<focus, ctrlVars, rpcVars, diskVars, cloudVars>>
  \/ focus = "cloud" /\ CloudNext /\ UNCHANGED <<focus, ctrlVars, rpcVars, diskVars, mqttVars>>

\* The fairness of each link; of those that rest only the cloud's loop has a step to take.
MCSpec ==
  /\ MCInit /\ [][MCNext]_<<focus, ctrlVars, rpcVars, diskVars, mqttVars, cloudVars>>
  /\ \A k \in CtrlCalls : WF_ctrlVars(CtrlTask(k))
  /\ \A k \in RpcCallers : WF_rpcVars(RpcTask(k))
  /\ WF_diskVars(DiskStep)
  /\ MqttFairness
  /\ WF_cloudVars(focus = "cloud" /\ LoopTask) /\ SF_cloudVars(HandshakeSucceeds)

\* Both transports of calls implement RemoteCall: nobody gets the answer to another request, and
\* nobody waits for ever.
CallsAreRemoteCalls == CtrlRemote!RemoteSpec /\ RpcRemote!RemoteSpec

\* Nothing that waits on a link waits for ever: a read of the disk bridge comes back, so that the
\* NBD server can be joined; a settings request comes back; and a registered device is connected
\* to its cloud again and again.
LinksComeBack == ReadsReturn /\ SettingsReturn /\ CloudConnects

=============================================================================
