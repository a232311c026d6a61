SPECIFICATION MCSpec
CONSTANTS
    text = text
    live = live
    boot = boot
    Runs <- MCRuns
    KindOf <- MCKindOf
    ProcessOf <- MCProcessOf
    Queries = {q1, q2}
    Events <- MCEvents
    Times = {1, 2}
    FeedOf <- MCFeedOf
    SourceOf <- MCSourceOf
    MaxBatches = 2
    Runners = {r1}
    Probers = {}
    Threshold = 3
    Cooldown = 3
    MaxLag = 1
INVARIANTS
    JobsTraceable
    CheckpointBacked
    AnnouncedIsDurable
PROPERTY
    ImplementsContract
