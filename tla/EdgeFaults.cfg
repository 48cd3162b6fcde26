SPECIFICATION Spec
CONSTANTS
    Devices = {press}
    Powers <- MCPowers
    Grid = 2
    RefreshInterval = 1
    MaxTime = 3
    MaxBoots = 2
    MaxSteps = 1
    Interval = 2
    MaxGateway = 2
    MaxLog = 2
    MaxFaults = 1
CONSTRAINT FewFaults
INVARIANTS
    EdgeTypeOK
    NoEnergyInvented
    EnergyFollowsTime
    OnePerInterval
    DisorderIsRetry
    PaceKept
CHECK_DEADLOCK FALSE
