SPECIFICATION Spec
CONSTANTS
    Nothing = Nothing
    Events = {"e1", "e2", "e3"}
    Actors = {"a", "b", "c", "d"}
    Topics = {"t"}
    Names <- MCNames
    About <- MCAbout
    Batches <- MCBatches
    Writers = {"job", "api"}
    Pipelines = {"p1", "p2"}
    MaxWrites = 2
    MaxPasses = 2
INVARIANTS MentionsCounted EdgesComplete CommunitiesAgree
CHECK_DEADLOCK FALSE
