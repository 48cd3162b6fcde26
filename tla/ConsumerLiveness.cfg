SPECIFICATION QuietSpec
CONSTANTS
    Topics <- MCTopics
    Undecodable <- MCUndecodable
    BatchSize = 2
    MaxLog = 1
    MaxSessions = 2
PROPERTY SubscribedLands
CHECK_DEADLOCK FALSE
