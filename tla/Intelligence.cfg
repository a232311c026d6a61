SPECIFICATION DetectionSpec
CONSTANTS
    Worlds <- MCWorlds
    MaxNow = 3
    MaxAcks = 1
    MaxFailures = 1
INVARIANTS
    BatchAccepted
    DetectionGrows
PROPERTY SummaryCatchesUp
