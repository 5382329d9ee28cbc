SPECIFICATION JobsSpec
CONSTANTS
    Scrapers = {s1}
    Publishers = {}
    FixtureHolder = fixture
    Routes = {r1}
    Attributes = {a1}
    None = None
    Generations <- Ids
    NewId <- MCNewId
    Versions <- MCVersions
    Exports <- MCExports
    Collected <- MCCollected
    Holders <- MCHolders
    MaxAttempts = 2
    Forces = {FALSE}
    Overrun = FALSE
    Faults = {"lost_ack"}
INVARIANTS
    FailedRunsPublishNothing
CHECK_DEADLOCK FALSE
