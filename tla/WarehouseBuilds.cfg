SPECIFICATION FairSpec
CONSTANTS
    Machines <- MCMachines
    Orders <- MCOrders
    MaxUpserts = 1
    MaxBuilds = 2
    MaxRefreshes = 1
    Slots = 3
INVARIANTS
    TypeOK
    KeysExist
    MismatchExplained
PROPERTY BuildsGetThrough
CHECK_DEADLOCK FALSE
