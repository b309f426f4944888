SPECIFICATION Spec
CONSTANTS
    u1 = u1
    u2 = u2
    bad = bad
    f1 = f1
    f2 = f2
    Updates = {u1, u2, bad}
    Invalid = {bad}
    Fields = {f1, f2}
    Field <- FieldOf
    Files = {i1, i2, i3, i4}
    MaxCrashes = 0
    IoErrors = FALSE
    Default = Default
    Empty = Empty
    Torn = Torn
    None = None
INVARIANT SavedIsValid
CHECK_DEADLOCK FALSE
