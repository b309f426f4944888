SPECIFICATION MCSpec
CONSTANTS
  MediaRequests = {r1, r2, r3}
  MaxMediaActive = 1
  Images = {img}
  MaxMediaFaults = 2
  MaxMediaRestarts = 1
  Uploads = {u1, u2}
  Chunks = 2
  MaxUploadFaults = 1
  MaxUploadRestarts = 1
  DeviceConfigs <- BuiltDevices
  MaxGadgetFaults = 2
  MaxSetups = 3
  Selects = {"s1", "s2"}
  Presses = {"p1", "p2"}
  DcSets = {"d1", "d2"}
  MaxPowerFaults = 1
  Wakes = {w1, w2}
  LightSettings = {ls1}
  Brightnesses = {0, 60, 200}
SYMMETRY MCSymmetry
INVARIANTS MediaInv UploadInv HardwareInv
 
CHECK_DEADLOCK FALSE
