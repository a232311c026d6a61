SPECIFICATION Spec
CONSTANTS
    Order <- MCOrder
    Chain <- MCChain
    Environment = {"ollama"}
    Keyless = {"ollama"}
    NoProvider = "none"
    Missions = {1, 2, 3}
    Clients = {4}
    Callers = {1, 2, 3, 4}
    MaxMissions = 1
    MaxRunning = 2
    Removable = {"coordinator", "analysis", "narrative"}
    MaxChanges = 2
INVARIANTS
    OutcomesAgree
PROPERTIES
    RecordsKept
    CalmCalls
    MissionsEnd
