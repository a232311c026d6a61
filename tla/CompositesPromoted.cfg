SPECIFICATION MCSpec
CONSTANTS
    a1 = a1
    a2 = a2
    b1 = b1
    c1 = c1
    c2 = c2
    worker = worker
    job = job
    Signals <- MCSignals
    SourceOf <- MCSourceOf
    Score <- MCScore
    Engines = {worker, job}
    Pipelines = {worker}
    MinSignals = 2
    MinSources = 2
    Faults = TRUE
    MaxPasses = 2
    N = 4
INVARIANT
    QualifyingPromoted
