SPECIFICATION Spec
CONSTANTS
    None = None
    Folded <- MCFolded
    Starts <- MCStarts
    Unprefixed <- MCUnprefixed
    Coords <- MCCoords
    Countries <- MCCountries
    Aliases <- MCAliases
    LastPart <- MCLastPart
    ActorKey <- MCActorKey
    Proper <- MCProper
    Estimate = 0
    SourceKey <- MCSourceKey
    Articles <- MCArticles
    NlpCap = 1
    Recognised <- MCRecognised
    Felt <- MCFelt
    Likeness <- MCLikeness
    Jobs = {j1, j2}
    Requests <- MCRequests
    Answers <- MCAnswers
    MaxFaults = 2
    Family <- MCFamily
    Engagement <- MCEngagement
    FamilyOrder <- MCFamilyOrder
    Arrivals <- MCArrivals
    FullLimit = 1
    DeltaLimit = 1
    ListLimit = 1
    Scopes <- MCScopes
    MaxIncidents = 1
    Subjects = {"jobs", "screen", "views", "walker", "reader"}
    Evidence <- MCEvidence
    MaxEvidence = 5
    WalkLimit = 1
    Questions <- MCQuestions
    Videos <- MCVideos
    Fetched <- MCFetched
    Links <- MCLinks
INVARIANTS
    DoneIsBacked
    MissesExplained
    ReadsComplete
    EvidenceNeverSinks
PROPERTIES
    JobsEnd
    RefreshesServed
CHECK_DEADLOCK FALSE
