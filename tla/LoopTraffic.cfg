SPECIFICATION FairSpec
CONSTANT BatchSize = 6
PROPERTIES
    SigtermHonoured
    OpenConnectionFlushes
    PauseReconnects
