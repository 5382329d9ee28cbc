---------------------------- MODULE MCScrapeJobs ----------------------------
EXTENDS ScrapeJobs, TLC

\* An attempt's ids are named after it: uuid4 never repeats one.
Ids == Jobs \X Attempts
MCNewId == [id \in Ids |-> id]
MCHolders == Scrapers \cup {FixtureHolder}

\* One route with one version per export: what a generation holds is the
\* subject of MCGenerationStore. Every fixture publication stages the rows of
\* the same JSON file.
OneVersion(v) ==
    [attributes |-> [r \in Routes |-> CHOOSE a \in Attributes : TRUE],
     versions   |-> [w \in Versions |-> IF w = v THEN CHOOSE r \in Routes : TRUE ELSE None]]
MCVersions == (Scrapers \X Attempts) \cup {<<FixtureHolder, 1>>}
MCExports == {OneVersion(v) : v \in MCVersions}
MCCollected ==
    [id \in Ids |-> OneVersion(IF id[1] \in Scrapers THEN id ELSE <<FixtureHolder, 1>>)]

ScraperSymmetry == Permutations(Scrapers)
=============================================================================
