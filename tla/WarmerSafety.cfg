SPECIFICATION AllSpec
CONSTANTS
    Requests <- MCRequests
    Slots = 2
    MaxMessages = 3
    Columns = {"risk_score", "escalated"}
    MaxAttempts = 2
    MaxStarts = 2
    MaxOutages = 1
    MaxStored = 2
INVARIANTS
    StartAccounted
    RightWhenUndisturbed
    LabelMatchesKey
PROPERTIES
    TasksEnd
    WaitsEnd
