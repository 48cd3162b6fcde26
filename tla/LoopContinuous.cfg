SPECIFICATION BusySpec
CONSTANT BatchSize = 6
PROPERTY LandsContinuously
