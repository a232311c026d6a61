SPECIFICATION Spec
CONSTANTS
    Worlds <- MCWorlds
    Events = {1, 2, 3, 4, 5}
    HighSignal = {1, 2}
    LongNames = {1, 2, 3, 4}
    CommonAt = 4
    AnchorMin = 4
    FamilyMin = 4
    SemanticMin = 4
    BulkMax = 4
    CaseMax = 5
    ActorMax = 3
    Requests = {r1, r2}
    PipelineWindow = 4
    MaxPasses = 3
SYMMETRY MCSymmetry
INVARIANTS
    PassDisjoint
    CalmPassHolds
    GraphBacked
