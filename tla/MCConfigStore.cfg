SPECIFICATION Spec
CONSTANTS
    u1 = u1
    u2 = u2
    bad = bad
    f1 = f1
    f2 = f2
    Updates = {u1, u2, bad}
    Invalid = {bad}
    Fields = {f1, f2}
    Field <- FieldOf
    Files = {i1, i2, i3, i4}
    MaxCrashes = 2
    IoErrors = TRUE
    Default = Default
    Empty = Empty
    Torn = Torn
    None = None
INVARIANTS AckedSurvives
PROPERTIES CompleteStaysComplete
CHECK_DEADLOCK FALSE
