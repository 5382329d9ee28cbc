SPECIFICATION JobsSpec
CONSTANTS
    Scrapers = {s1, s2}
    Publishers = {p1}
    FixtureHolder = fixture
    Routes = {r1}
    Attributes = {a1}
    None = None
    Generations <- Ids
    NewId <- MCNewId
    Versions <- MCVersions
    Exports <- MCExports
    Collected <- MCCollected
    Holders <- MCHolders
    MaxAttempts = 2
    Forces = {FALSE}
    Overrun = FALSE
    Faults = {"rolled_back", "lost_ack"}
INVARIANTS
    JobsTypeOK
    NoOverlap
    FailedRunsWereNotAnswered
    RunsPublishOnce
    StagedByItsJob
PROPERTIES
    PublishersHoldLease
    EventuallyQuiet
CHECK_DEADLOCK FALSE
