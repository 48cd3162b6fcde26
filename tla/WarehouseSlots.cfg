SPECIFICATION FairSpec
CONSTANTS
    Machines <- MCMachines
    Orders <- MCOrders
    MaxUpserts = 1
    MaxBuilds = 2
    MaxRefreshes = 1
    Slots = 1
PROPERTY ScheduledBuildsRun
CHECK_DEADLOCK FALSE
