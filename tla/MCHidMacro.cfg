SPECIFICATION FairSpec
CONSTANTS
    Macros = {m1, m2}
    Cancellers = {k1}
    Channels = {c1}
    Reports <- PressRelease
    HidErrors = TRUE
    None = None
INVARIANTS RunningIsTheTypist NoMacroMissesCancel CancelIsFinal
PROPERTIES  LaneIsTypingService LaneMovesOn
CHECK_DEADLOCK FALSE
