SPECIFICATION FairSpec
CONSTANTS
    Slots = {p1, p2}
    Restarters = {r1}
    Profiles = {base}
    Configured = base
    MaxFaults = 1
    MaxViewers = 1
    MayShutdown = TRUE
    None = None
INVARIANTS PipelineInv
PROPERTIES CaptureRecovers
CHECK_DEADLOCK FALSE
