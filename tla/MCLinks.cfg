SPECIFICATION MCSpec
CONSTANTS
  CtrlCalls = {k1, k2}
  CtrlClients = {n1, n2}
  RpcCallers = {k1, k2}
  MaxAttempts = 2
  Blocked = {k2}
  PanicAborts = TRUE
  MaxPanics = 1
  DiskChannels = {c1, c2}
  DiskSize = 2
  MaxReads = 2
  MqttReqs = {"s1"}
  QueueCap = 3
  MaxMqttActive = 2
  MaxSaveFaults = 1
  MaxLinkEvents = 3
  CloudReqs = {"q1", "q2"}
  Clouds = {"u1"}
  MaxCloudActive = 2
  MaxCloudFaults = 1
INVARIANTS CtrlInv RpcInv DiskInv MqttInv CloudInv
PROPERTIES CallsAreRemoteCalls LinksComeBack
CHECK_DEADLOCK FALSE
