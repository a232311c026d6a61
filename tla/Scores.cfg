SPECIFICATION Spec
CONSTANTS
    Contains <- MCContains
    CountryToRegion <- MCCountries
    AllRegions <- MCRegions
    SourceType <- MCSourceType
    SourceTiers <- MCTiers
    Jobs <- MCJobs
    Catalogue <- MCCatalogue
    Centrality <- MCCentrality
    RiskBatch = 1
    MaxWrites = 4
    MaxFaults = 1
    Limit <- MCLimit
INVARIANTS
    AlarmsBacked
    FailureContained
    EvidenceNeverCalms
CHECK_DEADLOCK FALSE
