SPECIFICATION Spec
CONSTANTS
    Machines <- MCMachines
    Orders <- MCOrders
    MaxUpserts = 1
    MaxBuilds = 2
    MaxRefreshes = 1
    Slots = 3
INVARIANT BuildsPass
CHECK_DEADLOCK FALSE
