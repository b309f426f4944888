SPECIFICATION Spec
CONSTANTS
    Macros = {m1}
    Cancellers = {k1}
    Channels = {c1, c2}
    Reports <- PressRelease
    HidErrors = FALSE
    None = None
PROPERTY CancelReleasesKeys
CHECK_DEADLOCK FALSE
