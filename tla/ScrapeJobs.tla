----------------------------- MODULE ScrapeJobs -----------------------------
(***************************************************************************)
(* The jobs that write the Generation Store: ingestion/scrape.py run_scrape*)
(* and store/fixture_publish.py publish_fixture, each a process that makes *)
(* one store transaction per step. Jobs of both kinds may run at the same  *)
(* time, be killed between any two transactions, be overtaken by a forced  *)
(* claim or by an expired lease, and see a transaction fail or, when the   *)
(* connection is lost at COMMIT, fail although it committed.               *)
(***************************************************************************)
EXTENDS GenerationStore

CONSTANTS Scrapers,       \* runs of the scrape command
          Publishers,     \* runs of the publish-fixture command
          FixtureHolder,  \* the default lease_holder of publish_fixture
          MaxAttempts,    \* collect attempts of one scrape
          Forces,         \* the values --force may be given
          NewId,          \* the generation id each attempt of a job makes up
          Collected,      \* the canonical export each attempt of a job stages
          Overrun,        \* may a job still run when its lease expires?
          Faults          \* what may go wrong with the database: subset of FaultKinds

Attempts == 1..MaxAttempts
Jobs == Scrapers \cup Publishers
FaultKinds == {"rolled_back", "lost_ack"}
Outcomes == {"published", "failed", "lease_held", "raised", "killed"}

ASSUME JobsAssumption ==
    /\ Scrapers \cap Publishers = {} /\ Scrapers \subseteq Holders
    /\ FixtureHolder \in Holders \ Scrapers
    /\ MaxAttempts \in Nat \ {0}
    /\ NewId \in [Jobs \X Attempts -> Generations]
    /\ \A a, b \in Jobs \X Attempts : NewId[a] = NewId[b] => a = b  \* uuid4
    /\ Collected \in [Jobs \X Attempts -> Exports]
    /\ Forces \subseteq BOOLEAN /\ Overrun \in BOOLEAN
    /\ Faults \subseteq FaultKinds
    /\ None \notin Outcomes

VARIABLES pc,        \* what each job does next
          attempt,   \* its collect attempt
          outcome,   \* how it ended, or will end
          runs,      \* scrape_runs: job -> recorded outcome
          shown,     \* history: the generations that have been current
          overtaken, \* history: jobs whose lease another job took over
          unanswered \* history: generations published by a COMMIT without an answer

jobVars == <<pc, attempt, outcome, runs, shown, overtaken, unanswered>>
allVars == <<vars, jobVars>>

Steps    == {"claim", "collect", "stage", "validate", "discard_invalid", "publish",
             "recover", "record", "release", "done"}

JobsTypeOK ==
    /\ TypeOK
    /\ pc \in [Jobs -> Steps]
    /\ attempt \in [Jobs -> Attempts]
    /\ outcome \in [Jobs -> Outcomes \cup {None}]
    /\ runs \in [Jobs -> Outcomes \cup {None}]
    /\ shown \subseteq Generations
    /\ overtaken \subseteq Jobs
    /\ unanswered \subseteq Generations

JobsInit ==
    /\ Init
    /\ pc = [j \in Jobs |-> "claim"]
    /\ attempt = [j \in Jobs |-> 1]
    /\ outcome = [j \in Jobs |-> None]
    /\ runs = [j \in Jobs |-> None]
    /\ shown = {}
    /\ overtaken = {}
    /\ unanswered = {}

\* The generation of the job's current attempt.
gen(j) == NewId[j, attempt[j]]

\* Mutant: every job claims under the fixture's default holder.
DefaultHolder(j) == FixtureHolder
HolderOf(j) == IF j \in Scrapers THEN j ELSE FixtureHolder

\* The jobs between a successful claim and their release.
InLease == {j \in Jobs : pc[j] \notin {"claim", "done"} /\ outcome[j] # "lease_held"}

Goto(j, step) == pc' = [pc EXCEPT ![j] = step]

-----------------------------------------------------------------------------
(* Store calls *)

\* A store call that changes the store as Effect does: it commits and the job
\* goes on with ok, or it raises and the job goes on with error, rolled back or,
\* when the answer to COMMIT is lost, committed all the same.
StoreCall(j, Effect, ok, error) ==
    \/ Effect /\ Goto(j, ok)
    \/ "lost_ack" \in Faults /\ Effect /\ Goto(j, error)
    \/ "rolled_back" \in Faults /\ UNCHANGED vars /\ Goto(j, error)

\* A call whose own checks fail raises and changes nothing.
CallRaises(j, check, error) == ~check /\ UNCHANGED vars /\ Goto(j, error)

\* Deleting D runs into a foreign key in some order of the deletions.
DeletionRaises(D, first) ==
    \E rank \in DeletionOrders(D, first) : ForeignKeyBlocks(D, rank)

\* Where a job goes when a call on its generation raises.
OnError(j) == IF j \in Scrapers THEN "recover" ELSE "release"

\* An exception no handler catches leaves through the finally that releases.
Propagate(j) == Goto(j, "release") /\ outcome' = [outcome EXCEPT ![j] = "raised"]

\* Mutants: one attempt too many, and a loop that does not count.
AttemptTooMany(j) ==
    \/ /\ attempt[j] <= MaxAttempts
       /\ attempt' = [attempt EXCEPT ![j] = @ + 1]
       /\ Goto(j, "collect")
       /\ UNCHANGED outcome
    \/ /\ attempt[j] > MaxAttempts
       /\ Goto(j, "record")
       /\ outcome' = [outcome EXCEPT ![j] = "failed"]
       /\ UNCHANGED attempt
AttemptUncounted(j) == Goto(j, "collect") /\ UNCHANGED <<attempt, outcome>>

\* "continue": the next attempt, or a failed outcome after the last one.
NextAttempt(j) ==
    \/ /\ attempt[j] < MaxAttempts
       /\ attempt' = [attempt EXCEPT ![j] = @ + 1]
       /\ Goto(j, "collect")
       /\ UNCHANGED outcome
    \/ /\ attempt[j] = MaxAttempts
       /\ Goto(j, "record")
       /\ outcome' = [outcome EXCEPT ![j] = "failed"]
       /\ UNCHANGED attempt

-----------------------------------------------------------------------------
(* Steps *)

\* Jobs that hold a lease a claim takes away from them.
TakenOver(force) ==
    IF leaseExpired \/ force THEN {k \in InLease : HolderOf(k) = leaseHolder} ELSE {}

\* claim_scrape_lease; a claim that raises leaves without releasing.
ClaimLease(j, force) ==
    /\ pc[j] = "claim"
    /\ \/ /\ ClaimScrapeLease(HolderOf(j), force)
          /\ overtaken' = overtaken \cup TakenOver(force)
          /\ \/ /\ Goto(j, IF j \in Scrapers THEN "collect" ELSE "stage")
                /\ UNCHANGED outcome
             \/ /\ "lost_ack" \in Faults
                /\ Goto(j, "done")
                /\ outcome' = [outcome EXCEPT ![j] = "raised"]
       \/ /\ \/ "rolled_back" \in Faults
             \/ /\ leaseHolder # None /\ (leaseExpired \/ force)
                /\ DeletionRaises(Orphans(pointers, None), None)
          /\ Goto(j, "done")
          /\ outcome' = [outcome EXCEPT ![j] = "raised"]
          /\ UNCHANGED <<vars, overtaken>>
    /\ UNCHANGED <<attempt, runs, shown, unanswered>>

\* ScrapeLeaseHeldError: run_scrape records lease_held, publish_fixture raises.
LeaseHeld(j, force) ==
    /\ pc[j] = "claim"
    /\ leaseHolder \notin {None, HolderOf(j)} /\ ~leaseExpired /\ ~force
    /\ IF j \in Scrapers
       THEN Goto(j, "record") /\ outcome' = [outcome EXCEPT ![j] = "lease_held"]
       ELSE Goto(j, "done") /\ outcome' = [outcome EXCEPT ![j] = "raised"]
    /\ UNCHANGED <<vars, attempt, runs, shown, overtaken, unanswered>>

\* source.collect: an export, hard failures or a retryable error, or another
\* exception.
Collect(j) ==
    /\ pc[j] = "collect"
    /\ \/ Goto(j, "stage") /\ UNCHANGED <<attempt, outcome>>
       \/ NextAttempt(j)
       \/ Propagate(j) /\ UNCHANGED attempt
    /\ UNCHANGED <<vars, runs, shown, overtaken, unanswered>>

\* stage, under a generation id made up for this attempt.
StageExport(j) ==
    /\ pc[j] = "stage"
    /\ LET export == Collected[j, attempt[j]] IN
       \/ StoreCall(j, Stage(gen(j), export), "validate", OnError(j))
       \/ CallRaises(j, CanStage(gen(j), export), OnError(j))
    /\ UNCHANGED <<attempt, outcome, runs, shown, overtaken, unanswered>>

\* validate: when its transaction raises, it discards in another one.
ValidateStaged(j) ==
    /\ pc[j] = "validate"
    /\ \/ StoreCall(j, Validate(gen(j)), "publish", "discard_invalid")
       \/ CallRaises(j, status[gen(j)] = "staging" /\ Complete(gen(j)), "discard_invalid")
    /\ UNCHANGED <<attempt, outcome, runs, shown, overtaken, unanswered>>

\* The discard inside validate; whatever comes of it, validate raises.
DiscardInvalid(j) ==
    /\ pc[j] = "discard_invalid"
    /\ \/ StoreCall(j, DiscardStaging(gen(j)), OnError(j), OnError(j))
       \/ CallRaises(j, CanDiscard(gen(j)) /\ ~DeletionRaises({gen(j)}, None), OnError(j))
    /\ UNCHANGED <<attempt, outcome, runs, shown, overtaken, unanswered>>

\* Mutants: the handler also covers what follows a publication that succeeded,
\* and a publication that raises is taken for one that succeeded.
PublishThenRecover(j) ==
    /\ pc[j] = "publish"
    /\ Publish(gen(j))
    /\ Goto(j, OnError(j))
    /\ shown' = shown \cup {pointers'["current"]}
    /\ UNCHANGED <<attempt, outcome, runs, overtaken, unanswered>>
PublishErrorIgnored(j) ==
    /\ pc[j] = "publish"
    /\ Publish(gen(j)) \/ UNCHANGED vars
    /\ Goto(j, IF j \in Scrapers THEN "record" ELSE "release")
    /\ outcome' = [outcome EXCEPT ![j] = "published"]
    /\ shown' = shown \cup ({pointers'["current"]} \ {None})
    /\ UNCHANGED <<attempt, runs, overtaken, unanswered>>

\* publish, the last call of publish_fixture.
PublishValidated(j) ==
    /\ pc[j] = "publish"
    /\ \/ /\ Publish(gen(j))
          /\ Goto(j, IF j \in Scrapers THEN "record" ELSE "release")
          /\ outcome' = [outcome EXCEPT ![j] = "published"]
          /\ UNCHANGED unanswered
       \/ /\ "lost_ack" \in Faults
          /\ Publish(gen(j))
          /\ Goto(j, OnError(j))
          /\ unanswered' = unanswered \cup {gen(j)}
          /\ UNCHANGED outcome
       \/ /\ \/ "rolled_back" \in Faults
             \/ status[gen(j)] # "validated"
             \/ DeletionRaises(Replaced(gen(j)), pointers["previous"])
          /\ Goto(j, OnError(j))
          /\ UNCHANGED <<vars, outcome, unanswered>>
    /\ shown' = shown \cup ({pointers'["current"]} \ {None})
    /\ UNCHANGED <<attempt, runs, overtaken>>

\* Mutant: the handler goes on to the next attempt without discarding.
RecoverWithoutDiscard(j) ==
    /\ pc[j] = "recover"
    /\ NextAttempt(j)
    /\ UNCHANGED <<vars, runs, shown, overtaken, unanswered>>

\* run_scrape's handler: if the generation is still there, discard it; a
\* RuntimeError of the discard is logged, a database error propagates.
Recover(j) ==
    /\ pc[j] = "recover"
    /\ \/ /\ DiscardStaging(gen(j))
          /\ \/ NextAttempt(j)
             \/ "lost_ack" \in Faults /\ Propagate(j) /\ UNCHANGED attempt
       \/ /\ ~CanDiscard(gen(j))
          /\ NextAttempt(j)
          /\ UNCHANGED vars
       \/ /\ "rolled_back" \in Faults \/ (CanDiscard(gen(j)) /\ DeletionRaises({gen(j)}, None))
          /\ Propagate(j)
          /\ UNCHANGED <<vars, attempt>>
    /\ UNCHANGED <<runs, shown, overtaken, unanswered>>

\* _persist_run: record_scrape_run, then prune_scrape_runs; a database error of
\* either propagates. A turned-away run has no lease to release.
RecordRun(j) ==
    /\ pc[j] = "record"
    /\ Goto(j, IF outcome[j] = "lease_held" THEN "done" ELSE "release")
    /\ \/ runs' = [runs EXCEPT ![j] = outcome[j]] /\ UNCHANGED outcome
       \/ /\ Faults # {}
          /\ runs' \in {runs, [runs EXCEPT ![j] = outcome[j]]}
          /\ outcome' = [outcome EXCEPT ![j] = "raised"]
    /\ UNCHANGED <<vars, attempt, shown, overtaken, unanswered>>

\* The finally clause: release_scrape_lease deletes the row only for its holder.
Release(j) ==
    /\ pc[j] = "release"
    /\ Goto(j, "done")
    /\ \/ /\ ReleaseScrapeLease(HolderOf(j)) \/ (leaseHolder # HolderOf(j) /\ UNCHANGED vars)
          /\ outcome' = [outcome EXCEPT ![j] = IF @ = None THEN "raised" ELSE @]
       \/ /\ Faults # {}
          /\ \/ UNCHANGED vars
             \/ "lost_ack" \in Faults /\ ReleaseScrapeLease(HolderOf(j))
          /\ outcome' = [outcome EXCEPT ![j] = "raised"]
    /\ UNCHANGED <<attempt, runs, shown, overtaken, unanswered>>

JobStep(j) ==
    \/ \E force \in IF j \in Scrapers THEN Forces ELSE {FALSE} :
          ClaimLease(j, force) \/ LeaseHeld(j, force)
    \/ Collect(j)
    \/ StageExport(j)
    \/ ValidateStaged(j)
    \/ DiscardInvalid(j)
    \/ PublishValidated(j)
    \/ Recover(j)
    \/ RecordRun(j)
    \/ Release(j)

\* The process is killed: no handler and no finally runs.
Killed(j) ==
    /\ pc[j] # "done"
    /\ Goto(j, "done")
    /\ outcome' = [outcome EXCEPT ![j] = "killed"]
    /\ UNCHANGED <<vars, attempt, runs, shown, overtaken, unanswered>>

\* Mutant: the lease expires whether or not its job is still running.
LeaseTimesOutEarly == LeaseExpires /\ UNCHANGED jobVars

\* Time passes; scrape.yml kills a scrape before the lease it claimed expires.
LeaseTimesOut ==
    /\ LeaseExpires
    /\ Overrun \/ \A j \in InLease : HolderOf(j) # leaseHolder
    /\ UNCHANGED jobVars

JobsNext ==
    \/ \E j \in Jobs : JobStep(j)
    \/ \E j \in Jobs : Killed(j)
    \/ LeaseTimesOut

\* A job that is not killed goes on, and time passes.
JobsFairness ==
    /\ \A j \in Jobs : WF_allVars(JobStep(j))
    /\ WF_allVars(LeaseTimesOut)

JobsSpec == JobsInit /\ [][JobsNext]_allVars /\ JobsFairness
-----------------------------------------------------------------------------
(* Correctness *)

CreatedBy(j) == {NewId[j, n] : n \in Attempts}

\* CONTEXT.md: the Scrape Lease "prevents overlapping scrape/fixture publish
\* jobs": two jobs are never both between claim and release, unless one lost its
\* lease to a forced claim or to expiry.
NoOverlap == \A i, j \in InLease \ overtaken : i = j

\* A run that recorded "published" did make its generation current, also when
\* it was overtaken and whatever failed on the way.
PublishedRunsWereCurrent == \A j \in Jobs : runs[j] = "published" => gen(j) \in shown

\* ADR 0007: "Failure retains last successful current": a run that recorded a
\* failure, or that was turned away, never made a generation current.
FailedRunsPublishNothing ==
    \A j \in Scrapers : runs[j] \in {"failed", "lease_held"} => CreatedBy(j) \cap shown = {}

\* The one way around that: whatever else fails, a generation that a failed run
\* made current is one whose COMMIT was not answered.
FailedRunsWereNotAnswered ==
    \A j \in Scrapers :
        runs[j] \in {"failed", "lease_held"} => CreatedBy(j) \cap shown \subseteq unanswered

\* A run tries again after a publication only if it was not told of it, and so
\* publishes once for itself. (A second time would evict the previous generation
\* from before the run.)
RunsPublishOnce ==
    \A j \in Jobs : \A m, n \in Attempts :
        m < n /\ {NewId[j, m], NewId[j, n]} \subseteq shown => NewId[j, m] \in unanswered

\* A scrape that returns an outcome leaves neither its lease nor a staging or
\* validated generation of any of its attempts behind, whatever database errors
\* it met. (One that raises or is killed may, until the next recovery.)
ReturnedScrapesCleanUp ==
    \A j \in Scrapers :
        pc[j] = "done" /\ outcome[j] \in {"published", "failed"} =>
            /\ leaseHolder # HolderOf(j)
            /\ \A g \in CreatedBy(j) : status[g] \in {"absent", "published"}

\* A generation that is neither published nor deleted belongs to a job in the
\* lease, overtaken or not, or is left over from one that raised or was killed.
StagedByItsJob ==
    \A j \in Jobs : \A g \in CreatedBy(j) :
        status[g] \in {"staging", "validated"} =>
            j \in InLease \/ (pc[j] = "done" /\ outcome[j] \in {"raised", "killed"})

\* publish never looks at the lease. While scrape.yml kills a scrape before its
\* lease expires and nobody forces a claim, the job that moves the pointers holds
\* a live lease all the same.
PublishersHoldLease ==
    [][pointers' # pointers =>
          \E j \in Jobs : /\ pc[j] = "publish" /\ pc'[j] # "publish"
                          /\ leaseHolder = HolderOf(j) /\ ~leaseExpired]_allVars

\* Every job ends, killed or not, and then the lease is free to claim.
EventuallyQuiet ==
    <>[](/\ \A j \in Jobs : pc[j] = "done"
         /\ leaseHolder = None \/ leaseExpired)
=============================================================================
