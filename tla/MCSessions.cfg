SPECIFICATION FairSpec
CONSTANTS
    Sessions = {s1, s2}
    Ids = {s1, s2}
    Id <- OwnId
    MayFail = TRUE
    None = None
INVARIANTS SessionsInv OpenIsRegistered
PROPERTIES TakenOverCloses ClosedIsForgotten
CHECK_DEADLOCK FALSE
