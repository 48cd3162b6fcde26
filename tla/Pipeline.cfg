SPECIFICATION PipeSpec
CONSTANTS
    Devices = {press}
    Powers <- MCOnePower
    Grid = 2
    RefreshInterval = 1
    MaxTime = 3
    MaxBoots = 1
    MaxSteps = 0
    Interval = 2
    MaxGateway = 1
    MaxLog = 3
    MaxSessions = 1
INVARIANT LandedAddsUp
CHECK_DEADLOCK FALSE
