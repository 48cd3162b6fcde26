SPECIFICATION FairSpec
CONSTANTS
    Orders <- MCOrders
    Runs <- MCRuns
    States <- MCStates
    Seeds <- MCSeeds
    MaxChanges = 3
    MaxRestarts = 2
INVARIANTS
    TypeOK
    CaughtUpIsEqual
    CopyAtOrAfterStored
PROPERTIES
    NeverOlderWithoutRestart
    Converges
CHECK_DEADLOCK FALSE
