SPECIFICATION JobsSpec
CONSTANTS
    Scrapers = {}
    Publishers = {p1, p2}
    FixtureHolder = fixture
    Routes = {r1}
    Attributes = {a1}
    None = None
    Generations <- Ids
    NewId <- MCNewId
    Versions <- MCVersions
    Exports <- MCExports
    Collected <- MCCollected
    Holders <- MCHolders
    MaxAttempts = 2
    Forces = {FALSE}
    Overrun = FALSE
    Faults = {}
INVARIANTS
    NoOverlap
CHECK_DEADLOCK FALSE
