# A TLA+ development of sombreado-service

sombreado-service scrapes the bus routes of a transit consortium into a
PostGIS database, the *Generation Store*, and tells passengers from it on which
side of the bus the sun will be. This directory holds TLA+ models of the
program, the configurations TLC checks them with, and theorems about them with
proofs for TLAPS. `PROJECT.json` lists the components, the runs, the theorems,
the hazards each property is aimed at, and for every definition the source
lines it stands for.

Paths below are relative to the repository; `store/` stands for
`src/sombreado/store/` and so on.

## The system

| Component | State it keeps | Operations | What is hard about it | What makes it correct |
|---|---|---|---|---|
| Generation Store (`store/generation.py`, `store/generation_writes.py`, migration 0001) | tables of generations, pointers, memberships, versions, shared route rows and their per-generation snapshots | `stage`, `validate`, `publish`, `discard_staging`, the cleanup inside claims | rows shared by generations, foreign keys, READ COMMITTED interleavings | one whole dataset visible at a time, current and previous stay whole, nothing else lingers |
| Scrape lease (same files) | one row: holder and expiry | `claim_scrape_lease`, `release_scrape_lease`, expiry | expiry and `--force` while the old holder still runs; no fencing in `publish` | one job at a time, and the lease always becomes free again |
| Jobs (`ingestion/scrape.py`, `store/fixture_publish.py`, `cli/main.py`, `scrape.yml`) | attempt, outcome, run log | `run_scrape`, `publish_fixture` | kills between transactions, errors in handlers, a lost answer to COMMIT, retries | failures publish nothing and a run publishes once unless an answer is lost, leftovers only after a kill or an error that escapes |
| Catalogue collection (`ingestion/catalogue.py`, `http.py`, `canonical.py`) | results of concurrent fetches | `collect` | order of completion, partial failure | rows independent of the order; any hard failure blocks the export |
| Direction inference (`ingestion/directions.py`), segments (`ingestion/segments.py`, `store/geodesic.py`), parsers | none | pure functions | departure groups and placemarks in any order, labels that may be terminals, pieces of a length | a label leads the way it says, a segment list covers its direction |
| Passenger reads (`route_reads/current.py`, `store/discovery.py`, `api/routes/`) | none; they read through the current pointer | candidates, nearby, direction choices, geometry, advice context | two statements beside a publication, stale client ids | answers of one generation |
| Engine and sessions (`store/neon_connect.py`, `api/deps.py`) | cached engine, pool of two | `engine`, `session` | lazy initialisation by threads, pool at its limit | one pool, requests get a connection or an error |
| Advice (`advice/`) | none | decision procedure, exposure, shares, projection | wrap-around of angles, rounding, budget of the window | shares sum to 100, the seat is the shaded side |
| HTTP API (`api/`) | settings, access log | handlers, error mapping | - | every service error has a response |
| Backup and restore (`store/backup.py`, `object_storage.py`) | files and objects | backup job, restore aside | crash between two moves | never without a database file |
| Deployment (`deploy/`) | release links | deploy, roll back | crash in the middle | a working release is linked |

Jobs call the store; every store call is one Postgres transaction on a
connection of its own. Passenger reads run in other processes and see what is
committed. The lease row couples jobs with each other; nothing couples
`publish` with the lease.

## Modules

| Module | Models | State and code |
|---|---|---|
| `Publication` | what ADR 0007 promises passengers | `current`, `previous` and the `view` passengers read; one action |
| `GenerationStore` | the store's transactions | one variable per table (`status` is `dataset_generations`, `members` is `dataset_route_versions`, `snapshots` is `generation_routes`, ...); one action per committed transaction, named as the method |
| `GenerationStoreProofs`, `GenerationRowsProofs` | - | theorems about `GenerationStore`; the second with scraped exports |
| `ScrapeJobs` | the jobs, composed with the store | extends `GenerationStore`; `pc` and `attempt` of each job; one action per call a job makes, each of which performs a `GenerationStore` action, fails, or does both |
| `PublishTransactions` | `publish` and the cleanup of a claim, statement by statement | committed rows, what each transaction has read, deleted and written so far, and the row locks that follow from it |
| `PassengerReads` | passenger requests, composed with `Publication` | the cached store, its engine, the connections handed out, how far each client's request is and the ids it holds from earlier answers; one action per step of a request: `BuildStore` and `FindEngine`/`CreateEngine` (`api/deps.py`, `GenerationStore.engine`), `Checkout`, one action per statement, `Respond` |
| `RouteExport` | from a page and its map to canonical rows | operators only: service directions, map directions, matches, passenger names, segments, `Row` |
| `CatalogueCollect` | `ConsorcioCatalogueSource.collect`, composed with `RouteExport` | how far the collection and each route's task are, attempts made, what was answered, what each task returned; one action per answer, failure, entry under the semaphore, and for closing and assembling |
| `Advice` | `POST /v1/advice` | the request with its context, the part of the way selected, the answer; `Refuse`, `Select` and `Advise` are the handler and `build_advice` up to the context, the selection and the answer |
| `PublishTransactionsProofs`, `ScrapeJobsProofs`, `PassengerReadsProofs`, `CatalogueCollectProofs`, `AdviceArithmeticProofs`, `AdviceProofs` | - | theorems about the modules of these names |
| `MCGenerationStore`, `MCScrapeJobs`, `MCPublishTransactions`, `MCPassengerReads`, `MCCatalogueCollect`, `MCAdvice` | - | instances for TLC |

`GenerationStore` implements `Publication`, and `PassengerReads` builds on
`Publication`: what a passenger's statement sees is what the refinement says the
store shows. `CatalogueCollect` stops where `ScrapeJobs` begins, with what
`collect` returns.

What is abstracted:

- A *route version* stands for its rows in `route_versions`,
  `route_directions`, `service_directions` and `route_segments`, which are
  inserted and deleted together. Of a *route* there is its id (which determines
  the code) and one attribute, for all the columns that `publish` copies.
- `validate_generation` compares counts and joins of rows that one transaction
  inserted under the schema's constraints; of its checks, the model keeps the
  one such rows can fail: no route version at all.
- Deleting several generations is one step. The order matters only for the
  foreign key of `generation_routes`: `DeletionOrders` and `ForeignKeyBlocks`
  say which orders succeed.
- In `GenerationStore` transactions are atomic. `PublishTransactions` drops
  that for the two that race in practice. There each statement sees what is
  committed when it runs, a statement that needs a locked row waits, deletions
  and pointer writes are checked against the foreign key, and Postgres ends a
  member of a wait cycle. Rows only one transaction touches are left out.
- Time is the one bit `leaseExpired`.
- In `PassengerReads` the rows of a version never change, so its directions are
  a constant; a direction stands for its labels and its segments. A query, a
  place and a limit select any of the current routes. A request begins with the
  cache lookup, and the test of `_engine` and the return after it are one step,
  since the engine is never unset.
- In `RouteExport` a label is given by its normal form and whether that names a
  terminal, a placemark's name by which of the words *ida* and *volta* it
  contains. Names of directions are the labels they consist of. Distances are
  natural numbers. A piece of an edge is given by how far along the edge it begins
  and ends, in whole units where the code has fractions of the edge; its length is
  the difference. `ExportAssumption` says that `None` is no number and no word for
  a kind, and that the longest segment has a length.
- In `CatalogueCollect` a site either answers every request (and pages differ)
  or may fail any of them (and the orders differ). `CollectAssumption` says of a
  site that the routes it lists have pages, that the maps these name are there, and
  that tabs, columns, placemarks and edges are sequences.
- In `Advice` distances are whole metres and angles whole degrees. A location is
  the nearest point of every segment with its distance, the sun is its position
  at every segment's midpoint. Where `_integer_percent_shares` divides floats,
  `Quotas` and `Orders` allow every result that rounding errors can have: a
  whole number may come out a trace less, and equal remainders in any order.

Some definitions are marked *mutant*: they change the definition below them the
way a bug would, and stand for the bugs the properties are there to catch. No
specification uses them.

## Runs

| Run | Instance | What it shows |
|---|---|---|
| `store_scraped` | 4 generations, 2 routes, 3 versions, 2 attribute values, 2 holders; scraped exports | all store properties, and that the store implements `Publication` |
| `jobs_deployed` | 2 scrapes of 2 attempts, 1 fixture publication; rolled-back and unacknowledged commits and kills | exclusion, no publication by failures and one per run but for COMMITs without an answer, leftovers of failures only, a live lease behind every publication, and rest |
| `jobs_overtaken` | 2 scrapes and 1 fixture publication of one attempt; force, overrun, rolled-back and unacknowledged commits | what survives a takeover: exclusion among jobs not overtaken, truth of recorded successes, cleanup of returned scrapes |
| `publish_recovery` | 3 publications, or 2 and 2 takeovers, over 0, 1 or 2 published generations; a publication and a takeover may lose their connections | pointers resolve; racing publications do not all fail; only the cleanup of a takeover can lose current |
| `passenger_reads` | 2 clients, 2 publications, a pool of one; one client sends four requests of every kind, or two while the other sends one | answers are of one generation that was current meanwhile; hints are whole or missing because of a publication; a client that uses ids of one answer learns of publications and of nothing else; one engine once the process is warm; every request is answered |
| `catalogue_collect` | 2208 sites of one route, and 5 catalogues of up to 4 routes, limit 3, 2 at a time, 1 retry | an export is complete or empty with the routes that failed; its segments cover the directions of the maps, none longer than it may be; labels lead where they say, in whatever order the map lists its directions; collections end |
| `advice` | 7394 requests | the window is the way ahead of the nearest point; shares sum to 100 and are those of the sides the sun is on; a seat on a side is out of the sun, which shines in for the longest on the other; left and right are treated alike |
| `fixture_wedge` | 3 generations, fixture exports | *violation*: a validated generation that cannot be published |
| `failed_but_current` | 1 scrape, unacknowledged commits | *violation*: recorded as failed and yet current |
| `fixture_overlap` | 2 fixture publications | *violation*: two jobs in the lease |
| `leaked_generation` | 2 publications | *violation*: a third published generation |
| `lost_current` | 1 publication, 1 takeover | *violation*: the current pointer is deleted |

The five violations are where the code differs from what its documents say;
`PROJECT.json` quotes them under `findings`. None of them needs anything but
legal calls; `leaked_generation` and `lost_current` need two jobs inside
`publish` or a takeover at once, which takes two fixture publications, `--force`
or a job that outlives its lease.

**Bounds.** Four generations are current, previous, one being published and one
orphan: every set that a deletion distinguishes is inhabited. Two routes are one
that a generation keeps and one that it drops, three versions let two
generations share a route while a third is staged. Two attribute values show
an old one from a new one. Two attempts is the code's `max_attempts`; two jobs
of a kind and one of the other cover overlapping, and a third job is what it
takes to see a release hit somebody else's lease. Three publications let one
meet what two others left; `Crowd` bounds
`publish_recovery` to three publications, two beside the takeovers, or takeovers
after all three. Generations, versions and holders are symmetric in
`GenerationStore` (nothing compares them but by equality), as are scrapes in
`jobs_overtaken`, where no liveness is checked.

In `passenger_reads`, two clients with a pool of one stand for three with the
pool of two that the code has: somebody waits while everybody else is inside. Two
generations change one route and drop the other; a direction without a label
tells hints from directions. Four requests take a client from a search through
directions to geometry, with a publication before, between or in the middle.
`ReadsAssumption` has what the store's theorems say of a view: a route has one
version in it, versions belong to one generation. In `catalogue_collect`, labels
are two terminals, one of them in two spellings, two places and no label; the
pages have every pair of them, as tabs and as columns, and some longer lists; the
maps every pair of the four kinds of name, points and edges of 0, a piece and
several pieces. Page variety and failures do not interact but through what a task
returns, which is why no site has both. With one retry
a failure is repeated or is the last. In `advice`, the cases are every difference of two whole
degrees with three positions of the sun, every limit of elevation, shares of up
to 10, 29 and 497 metres beside each other (ties, traces, wholes), and requests
of each kind at the start, middle and end of each segment of routes with segments
shorter and longer than the window of 6 metres, and of none.

**Fairness.** `JobsSpec` has weak fairness of each job's next call, since a
process that is not killed goes on, and of the expiry of the lease, since time
passes. Nothing is fair about kills, faults or what `collect` returns.
`EventuallyQuiet` needs no more: kills end a job, and attempts are bounded.
`ReadsSpec` has weak fairness of each client's own steps: threads run, a
statement returns or fails, and a checkout that finds no connection times out.
It needs nothing of publications or of other clients. `CatalogueCollect` has weak
fairness of its next step: a request is answered or times out after 20 seconds,
and the event loop runs what is ready. Nothing is fair about which.

**Assumptions of the deployment.** `scrape.yml` ends a scrape after 20 minutes,
which is the lease's time to live (1200 seconds); `Overrun = FALSE` is that a
job is gone when its lease expires. `jobs_overtaken` drops it.

## Proofs

Every theorem holds for all values of the constants that satisfy the module's
assumption (identifiers that are not `None`, inputs that are typed), unless its
`ASSUME` says more. Of the invariants none is inductive alone; what each proof
strengthens them to, and why, is said here.

**The store** (`GenerationStoreProofs`): `TypeCorrect`; `NoThirdGeneration`,
`AttributesShowCurrent`, `VersionsHaveOneOwner` and
`PointedGenerationsStayWhole`, which are the invariants `PublishedIffPointed`,
`RoutesShowCurrent`, `VersionsOwned` and `PointedStayWhole`;
`PublicationsLeaveTwo`, the action property `PublicationLeavesTwo`; and
`Refinement`: the store implements `Publication`. They rest on `Invariance`:
`StoreInv` is inductive. That current stays whole needs every generation's
versions to have their route rows, since any may become current; that a deletion
spares them needs versions to have one owner, and generations that are absent to
be empty, since a new one is staged over them; that a publication shows the new
attributes needs the pointer facts, since what it deletes must not be what it
publishes. `StoreInv` is the conjunction of these and of `ValidatedHasMembers`,
which a view that is never empty needs. The proof has lemmas for the two ways
the tables change, deletion of a set of generations and staging, and takes each
action from them. The theorems hold for fixture exports as well as scraped ones.

**The store with scraped exports** (`GenerationRowsProofs`, under
`ScrapedOnly`: an export has one row and one version per route, as
`canonical.py` builds it): `ScrapesLeaveNoStrays` (`NoStrayRoutes`) and
`ValidationMeansPublishable` (`ValidatedIsPublishable`). A fixture's JSON may
break both, as the run `fixture_wedge` shows, so the assumption is what they
are about. The invariant `RowsInv` pairs every snapshot with a version of its
generation and says that finitely many generations exist at a time: then they
can be deleted one after the other, in any order, and no foreign key is met.

**Transactions that race** (`PublishTransactionsProofs`, any number of
publications and takeovers, statement by statement): `TypeCorrect`,
`CommittedPointersResolve` (`PointersResolve`), `OnlyCleanupsLoseCurrent`
(`PublicationsKeepCurrent`) and `NotAllPublicationsLose`
(`SomePublicationWins`). `PointersInv` says what protects a pointer between a
read and a commit: no pointer, committed or written, names what a transaction
has deleted; one transaction at a time writes a pointer row; what is written
there is published, and so was what a publication read as current. `RaceInv`
is about the time before anybody has committed: what each publication has read
still is so, it deletes none but the generations of others, and somebody goes
on, since a deadlock's victim leaves another one of those who waited.

**Jobs** (`ScrapeJobsProofs`, any number of scrapes, fixture publications and
attempts): `JobsUseTheStore` shows that `JobsSpec` implements `GenerationStore`,
whatever is killed, overtaken, rolled back or lost, so that every theorem above
holds of the jobs; `JobsPublishAtomically` takes `ImplementsPublication` from it.
`JobsTypeCorrect`, `RecordedPublicationsHappened`, `LeftoversAreOfFailures`
(`StagedByItsJob`, also for jobs that were overtaken) and
`ReturnedScrapesLeaveNothing` need nothing else, and neither do
`OnlyUnansweredFailuresPublish` (`FailedRunsWereNotAnswered`) and
`OnePublicationPerRun` (`RunsPublishOnce`): a run that recorded a failure has
published, or published a second time, only where the answer to an earlier COMMIT
was lost. The history variable `unanswered` keeps the generations of such COMMITs;
no action reads it. `FailuresPublishNothing` (`FailedRunsPublishNothing`) is the
corollary for runs without a lost answer, and `failed_but_current` shows that it
needs that assumption. `JobsDoNotOverlap` assumes that `publish-fixture` runs once at a time, since all its runs claim under one
holder (`fixture_overlap`); `OnlyLeaseHoldersPublish` also that nobody forces a
claim and that jobs end before their lease expires (`Overrun = FALSE`). The
invariants tie a job's step to the status of the generation of its attempt and
to the lease row.

**Passenger reads** (`PassengerReadsProofs`, any number of clients, any pool):
`ReadersSeePublications` shows that the readers beside publications implement
`Publication`; `AnswersShowOneGeneration`, `HintsTogether`,
`RefusalsMeanPublications`, `ReadsTypeCorrect` and `WarmRequestsShareAnEngine`
are the invariants of `passenger_reads`. `Shown` says of every request, at
whatever step, that the rows it holds are of a generation that was current
while it ran; `PoolCounts` that connections handed out are those of requests
inside a session; `EarlyOrWarm` that requests of the start and requests of the
warm process are never open together, and that the latter have the cached store
and the engine that nobody replaces any more.

**Catalogue collection** (`CatalogueCollectProofs`, catalogues of any length, any
pages and maps, any number of tasks inside the semaphore and of retries):
`CollectsAllOrNothing` (`CompleteOrNothing`), `LabelsNameWays`
(`LabelsNameDirections`), `WaysIgnoreMapOrder` (`MapOrderIrrelevant`),
`SegmentsLeaveNothingOut` (`SegmentsCoverDirections`) and, under `NoneIsNoResult` (what a task or a collection
returns is not `None`), `CollectTypeCorrect`. `CompleteOrNothing` says which
routes an export has by what was answered, the code by how far tasks are;
`Progress` joins the two: a task in its place has had just the answers before
it, one that finished is intact and has its route's snapshot, one that failed is
not. `Ended` says that nothing is assembled of tasks that may still go on. The
order of the index is that of `Sorted`, about which `SortedPlaces` shows that
every position has the place that as many are up to it.

By `CompleteOrNothing` the rows of an export are those that `Row` makes of the
pages and maps, and the operators of `RouteExport` carry the rest of the
argument. The service directions of a page, by tabs or by columns, have distinct
labels. A match is public for both of two service directions or for neither, and
where it is public the two lead to different directions of the map
(`PublicMatches`); so the first label linked to a direction is the only one, and
its name is the one the property asks for (`RowLabels`). Which way a label leads
follows from the labels and from there being one *ida* and one *volta*, and a map
read backwards has the same kinds at exchanged places (`ReversedKinds`). For the
segments, a `Chain` is a sequence of pieces in which each begins where the one
before it ends, or at the start of the next edge when that one is at its end.
`Splits` gives enough pieces of an edge for none to be too long, in whole units as
well, and these are a chain (`ChainOfEdge`); chains of successive edges make a
longer one (`ChainedChains`, `AllParts`); and running totals over all pieces of
some edges are running totals over these edges. The inductions, over edges and
pieces, are arguments about the least number at which a claim fails.

**Advice** (`AdviceArithmeticProofs`, `AdviceProofs`, for all ways, lengths,
locations, windows and whole angles): `AnswersAreAboutTheWayAhead`
(`WindowIsAhead`), `SharesAreOfTheWayAhead` (`SharesFollowTheWay`),
`SeatsAreOutOfTheSun` (`SeatOutOfSun`), `AdviceFavoursNoSide`
(`MirrorSwapsSides`) and `AdviceTypeCorrect`. The state
machine is small: `AdviceInv` says that what is selected is one of the two
parts the code can select, and an answer one of its summaries. The work is in
the operators. `SideIsWhereTheSunIs` and `MirroredExposure` are about the
sectors of all angles, `PercentagesFit` about the rounding of all three
distances, with float errors either way. Sums are folds, and what a fold
computes is found without an induction theorem: `FoldExists` and `InductionUpTo`
argue by the least number at which a claim fails. From these `WithinFits` and
`AheadIsTaken` show that the budget leaves of each segment what is ahead, and
`MetersAddUp` that the six directions share the whole, so that the dominant one
has a sixth of it and its side a share that is not rounded away.

`AdviceFavoursNoSide` compares a way with its mirror image at the sun. There each
segment faces the other side under the same sun (`MirroredPart`), so the meters
of the two sides are exchanged and so is the dominant direction, unless both sides
have the same: then the code takes the one it lists first, in either way. Different
meters can be rounded to exchanged shares (`SwappedShares`: an order of the
remainders has a mirror image, as only equal meters are bound to the order of the
sides). Equal meters get shares that differ by a point at most (`CloseShares`),
and if one of the two sides is dominant, both have shares (`BothSides`), so that
the advice is neutral.

**Only model-checked.** Liveness (`EventuallyQuiet`, `EveryRequestAnswered`,
`CollectEnds`): the prover handles neither fairness nor `ENABLED`. These are the
only properties of a passing run without a theorem. And the five violations, which
are counterexamples.

## Not modelled

- `store/backup.py`, `object_storage.py`, `alerting.py`: the CLI commands that
  would call them are parked and end with an error, and nothing else calls them.
- Reads and advice that no handler calls: `store/nearby.py`, four methods of
  `CurrentRouteReadService` (with the statements behind them),
  `AdviceService.build_onboard_advisory`, and `store/db.py`.
- Trigonometry and astronomy: distances, bearings, interpolation, the projection
  onto a segment, the position of the sun. They are floating point; the models
  take their results as inputs.
- The extraction of text by the parsers, and what they extract that does not
  reach the store: fares, itineraries, schedules.
- The running of the migrations, at the start of the API among others.
- The deployment scripts: they call themselves parked and historical
  (`deploy/deploy-release.sh`), and no running system takes their steps.
- Settings, logging and the access log.

Within what is modelled: the wording of errors and logs, timestamps, timings,
`prune_scrape_runs`' choice of rows, serialization failures and statement
timeouts of Postgres other than as a transaction that fails, the pause between
attempts of a fetch, the hashes of pages, and the warnings of a collection.

## Plan

1. `Migrations`: processes that start together and run `upgrade head`, beside
   requests of the old release.
2. A clock in the lease, so that a claim that waits for the advisory lock can
   write an expiry that has passed.
3. `BackupRestore` and the releases of `deploy/`, once they are no longer parked.
