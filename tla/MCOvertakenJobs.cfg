SPECIFICATION JobsSpec
CONSTANTS
    Scrapers = {s1, s2}
    Publishers = {p1}
    FixtureHolder = fixture
    Routes = {r1}
    Attributes = {a1}
    None = None
    Generations <- Ids
    NewId <- MCNewId
    Versions <- MCVersions
    Exports <- MCExports
    Collected <- MCCollected
    Holders <- MCHolders
    MaxAttempts = 1
    Forces = {FALSE, TRUE}
    Overrun = TRUE
    Faults = {"rolled_back", "lost_ack"}
SYMMETRY ScraperSymmetry
INVARIANTS
    NoOverlap
    PublishedRunsWereCurrent
    ReturnedScrapesCleanUp
CHECK_DEADLOCK FALSE
