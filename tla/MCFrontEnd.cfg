SPECIFICATION MCSpec
CONSTANTS
  MaxFailures = 2
  BaseWindow = 3
  MaxLevel = 2
  CleanupInterval = 1
  MaxInFlight = 2
  MaxNow = 10
  MaxRecorded = 6
  AuthRequests = {a1, a2, a3}
  Passwords = {p1, p2}
  MaxAuthActive = 2
  MaxAuthFaults = 1
  Switches = {s1, s2}
  MaxClicks = 2
  MaxLoads = 2
  MaxRefusals = 1
  MaxGivenUp = 1
  Extensions = {"", "atx-power", "dc-power"}
  MaxLost = 1
  MaxChanges = 1
  U32Max = 9
  U8Max = 3
  Keys = {a, b, m}
  ModifierKeys = {m}
  MaxKeyEvents = 4
  MaxMouseEvents = 5
  KeySlots = 1
  Sample <- MCSample
  MaxText = 3
  Tokens = {"ctrl", "ControlLeft", "alt", "del", "Delete", "a", "A", "f1", "F1", "win", "nope"}
  MaxTokens = 3
  BufferSize = 2
SYMMETRY MCSymmetry
INVARIANTS RateInv AuthInv SettingsInv  ApiInv ClientInv
PROPERTY AnswersAreTrue
CHECK_DEADLOCK FALSE
