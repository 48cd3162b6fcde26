SPECIFICATION Spec
CONSTANTS
    Devices <- MCDevices
    Loads <- MCLoads
    AirFlow = 394
    PlantFlow = 468
INVARIANTS
    ClampsIdle
    LoopsHold
    StallShows
    PowerNearRating
