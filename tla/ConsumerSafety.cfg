SPECIFICATION Spec
CONSTANTS
    Topics <- MCTopics
    Undecodable <- MCUndecodable
    BatchSize = 2
    MaxLog = 2
    MaxSessions = 2
INVARIANTS
    TypeOK
    NoUnexplainedLoss
    OrderedPerSession
    OnlyUncommittedRepeated
    BatchBoundedWhileConnected
PROPERTIES
    CommitsNeverGoBack
    ImplementsControl
    ImplementsLanding
CHECK_DEADLOCK FALSE
