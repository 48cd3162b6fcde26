SPECIFICATION Spec
CONSTANTS
    Rows <- MCRows
    Fleet <- MCFleet
    Power = 2
    Energy = 1
    BlockRegisters = 4
    MaxRows = 4
    MaxPass = 2
INVARIANTS
    TypeOK
    UnderItsName
    Answered
    RangesOpen
PROPERTY CalibrationKeepsTheMap
