-------------------------- MODULE ScrapeJobsProofs --------------------------
(***************************************************************************)
(* What holds of the jobs that write the Generation Store, for any number  *)
(* of scrapes, attempts and exports, whatever fails on the way. Where a    *)
(* theorem needs more than that, it says so in its ASSUME.                 *)
(***************************************************************************)
EXTENDS ScrapeJobs, GenerationStoreProofs

-----------------------------------------------------------------------------
(* The jobs use the store through its transactions *)

\* The jobs' own state has its types, whatever the store's.
JobTypes ==
    /\ pc \in [Jobs -> Steps]
    /\ attempt \in [Jobs -> Attempts]
    /\ outcome \in [Jobs -> Outcomes \cup {None}]
    /\ runs \in [Jobs -> Outcomes \cup {None}]
    /\ overtaken \subseteq Jobs

\* How a job's step goes on: nobody but the job moves, and its attempts count up.
JobMoves(j) ==
    /\ \E step \in Steps : pc' = [pc EXCEPT ![j] = step]
    /\ \/ UNCHANGED attempt
       \/ attempt[j] < MaxAttempts /\ attempt' = [attempt EXCEPT ![j] = @ + 1]
    /\ UNCHANGED outcome \/ \E end \in Outcomes : outcome' = [outcome EXCEPT ![j] = end]
    /\ UNCHANGED runs \/ runs' = [runs EXCEPT ![j] = outcome[j]]
    /\ overtaken' = overtaken \/ \E force : overtaken' = overtaken \cup TakenOver(force)

\* A step of a job changes no other job.
LEMMA JobStepMoves ==
    ASSUME JobTypes, NEW j \in Jobs, JobStep(j) \/ Killed(j)
    PROVE  JobMoves(j)
  <1> USE DEF Goto, JobMoves, Steps, Outcomes
  <1>1. ASSUME NEW force, ClaimLease(j, force) \/ LeaseHeld(j, force)
        PROVE  JobMoves(j)
    BY <1>1 DEF ClaimLease, LeaseHeld
  <1>2. CASE Collect(j)
    BY <1>2 DEF Collect, NextAttempt, Propagate
  <1>3. CASE StageExport(j)
    BY <1>3 DEF StageExport, StoreCall, CallRaises, OnError
  <1>4. CASE ValidateStaged(j)
    BY <1>4 DEF ValidateStaged, StoreCall, CallRaises
  <1>5. CASE DiscardInvalid(j)
    BY <1>5 DEF DiscardInvalid, StoreCall, CallRaises, OnError
  <1>6. CASE PublishValidated(j)
    BY <1>6 DEF PublishValidated, OnError
  <1>7. CASE Recover(j)
    BY <1>7 DEF Recover, NextAttempt, Propagate
  <1>8. CASE RecordRun(j)
    BY <1>8 DEF RecordRun
  <1>9. CASE Release(j)
    <2>1. \/ outcome' = [outcome EXCEPT ![j] = IF @ = None THEN "raised" ELSE @]
          \/ outcome' = [outcome EXCEPT ![j] = "raised"]
      BY <1>9 DEF Release
    <2>2. UNCHANGED outcome \/ outcome' = [outcome EXCEPT ![j] = "raised"]
      BY <2>1 DEF JobTypes
    <2> QED
      BY <1>9, <2>2 DEF Release
  <1>10. CASE Killed(j)
    BY <1>10 DEF Killed
  <1> QED
    BY <1>1, <1>2, <1>3, <1>4, <1>5, <1>6, <1>7, <1>8, <1>9, <1>10 DEF JobStep

\* Every step keeps the types of the jobs' state.
LEMMA JobTypesStep == JobTypes /\ [JobsNext]_allVars => JobTypes'
  <1> SUFFICES ASSUME JobTypes, [JobsNext]_allVars PROVE JobTypes'
    OBVIOUS
  <1>1. ASSUME NEW j \in Jobs, JobMoves(j) PROVE JobTypes'
    <2>1. attempt' \in [Jobs -> Attempts]
      BY <1>1, JobsAssumption DEF JobMoves, JobTypes, Attempts
    <2>2. outcome' \in [Jobs -> Outcomes \cup {None}] /\ runs' \in [Jobs -> Outcomes \cup {None}]
      BY <1>1 DEF JobMoves, JobTypes
    <2>3. pc' \in [Jobs -> Steps] /\ overtaken' \subseteq Jobs
      BY <1>1 DEF JobMoves, JobTypes, TakenOver, InLease
    <2> QED
      BY <2>1, <2>2, <2>3 DEF JobTypes
  <1>2. CASE UNCHANGED jobVars
    BY <1>2 DEF jobVars, JobTypes
  <1> QED
    BY <1>1, <1>2, JobStepMoves DEF JobsNext, LeaseTimesOut, allVars

\* What a job does to the store is a transaction of the store.
LEMMA JobStepIsStoreStep ==
    ASSUME JobTypes, NEW j \in Jobs, JobStep(j) \/ Killed(j)
    PROVE  [Next]_vars
  <1>1. /\ gen(j) \in Generations /\ HolderOf(j) \in Holders
        /\ Collected[j, attempt[j]] \in Exports
    BY JobsAssumption DEF JobTypes, gen, HolderOf
  <1>2. ASSUME NEW force \in BOOLEAN, ClaimLease(j, force) \/ LeaseHeld(j, force)
        PROVE  [Next]_vars
    BY <1>1, <1>2 DEF ClaimLease, LeaseHeld, Next
  <1>3. CASE Collect(j) \/ RecordRun(j) \/ Killed(j)
    BY <1>3 DEF Collect, RecordRun, Killed
  <1>4. CASE StageExport(j)
    BY <1>1, <1>4 DEF StageExport, StoreCall, CallRaises, Next
  <1>5. CASE ValidateStaged(j)
    BY <1>1, <1>5 DEF ValidateStaged, StoreCall, CallRaises, Next
  <1>6. CASE DiscardInvalid(j)
    BY <1>1, <1>6 DEF DiscardInvalid, StoreCall, CallRaises, Next
  <1>7. CASE PublishValidated(j)
    BY <1>1, <1>7 DEF PublishValidated, Next
  <1>8. CASE Recover(j)
    BY <1>1, <1>8 DEF Recover, Next
  <1>9. CASE Release(j)
    BY <1>1, <1>9 DEF Release, Next
  <1>10. Forces \subseteq BOOLEAN
    BY JobsAssumption
  <1> QED
    BY <1>2, <1>3, <1>4, <1>5, <1>6, <1>7, <1>8, <1>9, <1>10 DEF JobStep

\* The jobs' own state is always of its types.
LEMMA JobTypesInvariance == JobsSpec => []JobTypes
  <1>1. JobsInit => JobTypes
    BY JobsAssumption DEF JobsInit, JobTypes, Steps, Attempts
  <1> QED
    BY <1>1, JobTypesStep, PTL DEF JobsSpec

\* However jobs are interleaved, overtaken, killed or fail, they do to the store
\* only what its own specification allows: every theorem about the store holds
\* of the jobs too.
THEOREM JobsUseTheStore == JobsSpec => Spec
  <1>1. JobsInit => Init
    BY DEF JobsInit
  <1>2. JobTypes /\ [JobsNext]_allVars => [Next]_vars
    BY JobStepIsStoreStep DEF JobsNext, LeaseTimesOut, Next, allVars
  <1> QED
    BY <1>1, <1>2, JobTypesInvariance, PTL DEF JobsSpec, Spec

\* What jobs of all kinds do to the store shows passengers nothing but atomic
\* publications (ImplementsPublication).
THEOREM JobsPublishAtomically == JobsSpec => ImplementsPublication
  BY JobsUseTheStore, Refinement, PTL

\* The type invariant of the jobs and their store (JobsTypeOK).
THEOREM JobsTypeCorrect == JobsSpec => []JobsTypeOK
  <1> DEFINE ShownTyped == shown \subseteq Generations /\ unanswered \subseteq Generations
  <1>1. JobsInit => ShownTyped
    BY DEF JobsInit
  <1>2. ShownTyped /\ JobTypes /\ TypeOK' /\ [JobsNext]_allVars => ShownTyped'
    <2> SUFFICES ASSUME ShownTyped, JobTypes, TypeOK', [JobsNext]_allVars PROVE ShownTyped'
      OBVIOUS
    <2>1. pointers'["current"] \in Generations \cup {None}
      BY DEF TypeOK, Roles
    <2>2. shown' = shown \/ shown' = shown \cup ({pointers'["current"]} \ {None})
      BY DEF JobsNext, JobStep, ClaimLease, LeaseHeld, Collect, StageExport, ValidateStaged,
             DiscardInvalid, PublishValidated, Recover, RecordRun, Release, Killed,
             LeaseTimesOut, allVars, jobVars
    <2>3. unanswered' = unanswered \/ \E j \in Jobs : unanswered' = unanswered \cup {gen(j)}
      BY DEF JobsNext, JobStep, ClaimLease, LeaseHeld, Collect, StageExport, ValidateStaged,
             DiscardInvalid, PublishValidated, Recover, RecordRun, Release, Killed,
             LeaseTimesOut, allVars, jobVars
    <2>4. \A j \in Jobs : gen(j) \in Generations
      BY JobsAssumption DEF JobTypes, gen
    <2> QED
      BY <2>1, <2>2, <2>3, <2>4
  <1>3. TypeOK /\ JobTypes /\ ShownTyped => JobsTypeOK
    BY DEF JobsTypeOK, JobTypes
  <1> QED
    BY <1>1, <1>2, <1>3, JobsUseTheStore, TypeCorrect, JobTypesInvariance, PTL DEF JobsSpec

-----------------------------------------------------------------------------
(* The course of a job *)

\* The generation ids a job makes up, and nobody else.
Id(j, n) == NewId[j, n]

\* Ids are generations, one per attempt of a job.
LEMMA Ids ==
    /\ \A j \in Jobs, n \in Attempts : Id(j, n) \in Generations
    /\ \A j, k \in Jobs, m, n \in Attempts : Id(j, m) = Id(k, n) => j = k /\ m = n
    /\ \A j \in Jobs : gen(j) = Id(j, attempt[j]) /\ CreatedBy(j) = {Id(j, n) : n \in Attempts}
  <1>1. \A j \in Jobs, n \in Attempts : Id(j, n) \in Generations
    BY JobsAssumption, Zenon DEF Id
  <1>2. ASSUME NEW j \in Jobs, NEW k \in Jobs, NEW m \in Attempts, NEW n \in Attempts,
               Id(j, m) = Id(k, n)
        PROVE  j = k /\ m = n
    <2>1. <<j, m>> \in Jobs \X Attempts /\ <<k, n>> \in Jobs \X Attempts
      OBVIOUS
    <2>2. NewId[<<j, m>>] = NewId[<<k, n>>]
      BY <1>2, Zenon DEF Id
    <2>3. <<j, m>> = <<k, n>>
      BY <2>1, <2>2, JobsAssumption, Zenon
    <2> QED
      BY <2>3
  <1>3. \A j \in Jobs : gen(j) = Id(j, attempt[j]) /\ CreatedBy(j) = {Id(j, n) : n \in Attempts}
    BY Zenon DEF Id, gen, CreatedBy
  <1> QED
    BY <1>1, <1>2, <1>3

\* The steps before an outcome is decided.
Working == {"claim", "collect", "stage", "validate", "discard_invalid", "publish", "recover"}

\* A job decides on its outcome once, and records no other.
OnCourse(j) ==
    /\ pc[j] \in Working => outcome[j] = None /\ runs[j] = None
    /\ pc[j] = "record" => runs[j] = None /\ outcome[j] \in {"published", "failed", "lease_held"}
    /\ pc[j] = "release" => outcome[j] # "lease_held"
    /\ pc[j] = "done" => outcome[j] # None

Courses == \A j \in Jobs : OnCourse(j)

\* A step of one job leaves the others where they are.
LEMMA OthersStay ==
    ASSUME JobTypes, NEW j \in Jobs, JobStep(j) \/ Killed(j), NEW k \in Jobs \ {j}
    PROVE  UNCHANGED <<pc[k], attempt[k], outcome[k], runs[k]>>
  BY JobStepMoves DEF JobMoves, JobTypes

\* Every step of a job keeps it on its course.
LEMMA CourseStep ==
    ASSUME JobTypes, NEW j \in Jobs, OnCourse(j), JobStep(j) \/ Killed(j)
    PROVE  OnCourse(j)'
  <1> USE DEF OnCourse, Working, Goto, JobTypes
  <1>1. ASSUME NEW force, ClaimLease(j, force) \/ LeaseHeld(j, force)
        PROVE  OnCourse(j)'
    <2>1. None \notin {"raised", "lease_held"}
      BY JobsAssumption DEF Outcomes
    <2> QED
      BY <1>1, <2>1 DEF ClaimLease, LeaseHeld
  <1>2. ASSUME NextAttempt(j) \/ (Propagate(j) /\ UNCHANGED attempt), UNCHANGED runs,
               pc[j] \in {"collect", "recover"}
        PROVE  OnCourse(j)'
    BY <1>2 DEF NextAttempt, Propagate
  <1>3. CASE Collect(j)
    BY <1>2, <1>3 DEF Collect
  <1>4. CASE Recover(j)
    BY <1>2, <1>4 DEF Recover
  <1>5. ASSUME pc[j] \in {"stage", "validate", "discard_invalid"},
               \E step \in Working \cup {"release"} : Goto(j, step), UNCHANGED <<outcome, runs>>
        PROVE  OnCourse(j)'
    <2>1. None # "lease_held"
      BY JobsAssumption DEF Outcomes
    <2> QED
      BY <1>5, <2>1
  <1>6. CASE StageExport(j)
    BY <1>5, <1>6 DEF StageExport, StoreCall, CallRaises, OnError
  <1>7. CASE ValidateStaged(j)
    BY <1>5, <1>7 DEF ValidateStaged, StoreCall, CallRaises
  <1>8. CASE DiscardInvalid(j)
    BY <1>5, <1>8 DEF DiscardInvalid, StoreCall, CallRaises, OnError
  <1>9. CASE PublishValidated(j)
    <2>1. None # "lease_held"
      BY JobsAssumption DEF Outcomes
    <2> QED
      BY <1>9, <2>1 DEF PublishValidated, OnError
  <1>10. CASE RecordRun(j)
    <2>1. None \notin {"raised", "lease_held"}
      BY JobsAssumption DEF Outcomes
    <2> QED
      BY <1>10, <2>1 DEF RecordRun
  <1>11. CASE Release(j)
    <2>1. None # "raised"
      BY JobsAssumption DEF Outcomes
    <2> QED
      BY <1>11, <2>1 DEF Release
  <1>12. CASE Killed(j)
    <2>1. None # "killed"
      BY JobsAssumption DEF Outcomes
    <2> QED
      BY <1>12, <2>1 DEF Killed
  <1> QED
    BY <1>1, <1>3, <1>4, <1>6, <1>7, <1>8, <1>9, <1>10, <1>11, <1>12 DEF JobStep

\* Every job is always on its course.
LEMMA CoursesInvariance == JobsSpec => []Courses
  <1>1. JobsInit => Courses
    BY DEF JobsInit, Courses, OnCourse, Working
  <1>2. JobTypes /\ Courses /\ [JobsNext]_allVars => Courses'
    <2> SUFFICES ASSUME JobTypes, Courses, [JobsNext]_allVars PROVE Courses'
      OBVIOUS
    <2>1. ASSUME NEW j \in Jobs, JobStep(j) \/ Killed(j) PROVE Courses'
      <3>1. OnCourse(j)'
        BY <2>1, CourseStep DEF Courses
      <3>2. \A k \in Jobs \ {j} : OnCourse(k)'
        BY <2>1, OthersStay DEF Courses, OnCourse
      <3> QED
        BY <3>1, <3>2 DEF Courses
    <2>2. CASE UNCHANGED jobVars
      BY <2>2 DEF jobVars, Courses, OnCourse
    <2> QED
      BY <2>1, <2>2 DEF JobsNext, LeaseTimesOut, allVars
  <1> QED
    BY <1>1, <1>2, JobTypesInvariance, PTL DEF JobsSpec

-----------------------------------------------------------------------------
(* Outcomes and publications *)

\* The generation of a publication is current, and part of the history.
LEMMA PublishMakesCurrent ==
    ASSUME NEW g, Publish(g)
    PROVE  pointers'["current"] = g
  BY DEF Publish, PointersAfter, PointersWithout, Roles

\* A job that is to record "published" has made its generation current.
ShownOutcome(j) == "published" \in {outcome[j], runs[j]} => gen(j) \in shown

\* The history only grows.
LEMMA ShownGrows == [JobsNext]_allVars => shown \subseteq shown'
  BY DEF JobsNext, JobStep, ClaimLease, LeaseHeld, Collect, StageExport, ValidateStaged,
         DiscardInvalid, PublishValidated, Recover, RecordRun, Release, Killed,
         LeaseTimesOut, allVars, jobVars

\* A step of a job decides on "published" only with its publication.
LEMMA ShownOutcomeStep ==
    ASSUME JobTypes, NEW j \in Jobs, OnCourse(j), ShownOutcome(j), JobStep(j) \/ Killed(j)
    PROVE  ShownOutcome(j)'
  <1>1. shown \subseteq shown'
    BY ShownGrows DEF JobsNext
  <1>2. \A end \in {"failed", "lease_held", "raised", "killed"} : end # "published"
    OBVIOUS
  <1>3. ASSUME UNCHANGED <<outcome, runs, attempt>> PROVE ShownOutcome(j)'
    BY <1>1, <1>3, Zenon DEF ShownOutcome, gen
  <1>4. None # "published"
    BY JobsAssumption DEF Outcomes
  <1>5. ASSUME NextAttempt(j) \/ (Propagate(j) /\ UNCHANGED attempt), UNCHANGED runs,
               pc[j] \in {"collect", "recover"}
        PROVE  ShownOutcome(j)'
    <2>1. outcome[j] = None /\ runs[j] = None
      BY <1>5 DEF OnCourse, Working
    <2>2. outcome'[j] # "published" /\ runs'[j] # "published"
      BY <1>4, <1>5, <2>1 DEF NextAttempt, Propagate, JobTypes
    <2> QED
      BY <2>2 DEF ShownOutcome
  <1>6. ASSUME UNCHANGED <<attempt, runs>>, outcome'[j] # "published" PROVE ShownOutcome(j)'
    <2>1. gen(j)' = gen(j)
      BY <1>6, Zenon DEF gen
    <2> QED
      BY <1>1, <1>6, <2>1 DEF ShownOutcome
  <1>7. ASSUME NEW force, ClaimLease(j, force) \/ LeaseHeld(j, force) PROVE ShownOutcome(j)'
    <2>1. outcome[j] = None
      BY <1>7 DEF ClaimLease, LeaseHeld, OnCourse, Working
    <2>2. outcome'[j] # "published" /\ UNCHANGED <<attempt, runs>>
      BY <1>4, <1>7, <2>1 DEF ClaimLease, LeaseHeld, JobTypes
    <2> QED
      BY <1>6, <2>2
  <1>8. CASE Collect(j)
    <2>1. UNCHANGED runs
      BY <1>8 DEF Collect
    <2> QED
      BY <1>3, <1>5, <1>8, <2>1 DEF Collect
  <1>9. CASE Recover(j)
    BY <1>5, <1>9 DEF Recover
  <1>10. CASE StageExport(j) \/ ValidateStaged(j) \/ DiscardInvalid(j)
    BY <1>3, <1>10 DEF StageExport, ValidateStaged, DiscardInvalid
  <1>11. CASE PublishValidated(j)
    <2>1. UNCHANGED <<attempt, runs>> /\ outcome[j] = None
      BY <1>11 DEF PublishValidated, OnCourse, Working
    <2>2. CASE Publish(gen(j))
      <3>1. pointers'["current"] = gen(j) /\ gen(j) # None
        BY <2>2, PublishMakesCurrent, Ids, StoreAssumption DEF JobTypes
      <3>2. gen(j) \in shown'
        BY <1>11, <3>1 DEF PublishValidated
      <3>3. gen(j)' = gen(j)
        BY <2>1, Zenon DEF gen
      <3> QED
        BY <3>2, <3>3 DEF ShownOutcome
    <2>3. CASE ~Publish(gen(j))
      BY <1>3, <1>11, <2>1, <2>3 DEF PublishValidated
    <2> QED
      BY <2>2, <2>3
  <1>12. CASE RecordRun(j)
    <2>1. UNCHANGED attempt /\ \/ outcome'[j] = outcome[j]
                               \/ outcome'[j] = "raised"
      BY <1>12 DEF RecordRun, JobTypes
    <2>2. runs'[j] \in {runs[j], outcome[j]}
      BY <1>12 DEF RecordRun, JobTypes
    <2>3. gen(j)' = gen(j)
      BY <2>1, Zenon DEF gen
    <2> QED
      BY <1>1, <2>1, <2>2, <2>3 DEF ShownOutcome
  <1>13. CASE Release(j)
    <2>1. UNCHANGED <<attempt, runs>> /\ outcome'[j] \in {outcome[j], "raised"}
      BY <1>13 DEF Release, JobTypes
    <2>2. gen(j)' = gen(j)
      BY <2>1, Zenon DEF gen
    <2> QED
      BY <1>1, <2>1, <2>2 DEF ShownOutcome
  <1>14. CASE Killed(j)
    BY <1>6, <1>14 DEF Killed, JobTypes
  <1> QED
    BY <1>7, <1>8, <1>9, <1>10, <1>11, <1>12, <1>13, <1>14 DEF JobStep

\* A run that recorded "published" did make its generation current
\* (PublishedRunsWereCurrent), also when another job took its lease over and
\* whatever was rolled back or lost on the way.
THEOREM RecordedPublicationsHappened == JobsSpec => []PublishedRunsWereCurrent
  <1> DEFINE AllShown == \A j \in Jobs : ShownOutcome(j)
  <1>1. JobsInit => AllShown
    <2>1. None # "published"
      BY JobsAssumption DEF Outcomes
    <2> QED
      BY <2>1 DEF JobsInit, ShownOutcome
  <1>2. JobTypes /\ Courses /\ AllShown /\ [JobsNext]_allVars => AllShown'
    <2> SUFFICES ASSUME JobTypes, Courses, AllShown, [JobsNext]_allVars PROVE AllShown'
      OBVIOUS
    <2>1. ASSUME NEW j \in Jobs, JobStep(j) \/ Killed(j) PROVE AllShown'
      <3>1. ShownOutcome(j)'
        BY <2>1, ShownOutcomeStep DEF Courses
      <3>2. ASSUME NEW k \in Jobs \ {j} PROVE ShownOutcome(k)'
        <4>1. UNCHANGED <<attempt[k], outcome[k], runs[k]>>
          BY <2>1, OthersStay
        <4>2. gen(k)' = gen(k)
          BY <4>1, Zenon DEF gen
        <4>3. shown \subseteq shown'
          BY ShownGrows
        <4> QED
          BY <4>1, <4>2, <4>3 DEF ShownOutcome
      <3> QED
        BY <3>1, <3>2
    <2>2. CASE UNCHANGED jobVars
      BY <2>2, Zenon DEF jobVars, ShownOutcome, gen
    <2> QED
      BY <2>1, <2>2 DEF JobsNext, LeaseTimesOut, allVars
  <1>3. AllShown => PublishedRunsWereCurrent
    BY DEF ShownOutcome, PublishedRunsWereCurrent
  <1> QED
    BY <1>1, <1>2, <1>3, JobTypesInvariance, CoursesInvariance, PTL DEF JobsSpec

-----------------------------------------------------------------------------
(* What a run publishes *)

\* Of a job's steps only the publication of its generation moves a pointer.
LEMMA OnlyPublishMovesPointers ==
    ASSUME JobTypes, TypeOK, StoreInv, NEW j \in Jobs, JobStep(j) \/ Killed(j)
    PROVE  pointers' = pointers \/ (PublishValidated(j) /\ Publish(gen(j)))
  <1>1. ASSUME NEW D, DeleteGenerations(D),
               \A g \in D : g \in Generations /\ status[g] \in {"staging", "validated"}
        PROVE  pointers' = pointers
    BY <1>1, DeletionMovesNoPointer DEF StoreInv
  <1>2. ASSUME NEW h, NEW force, ClaimScrapeLease(h, force) PROVE pointers' = pointers
    BY <1>1, <1>2 DEF ClaimScrapeLease, Orphans, dataVars
  <1>3. ASSUME DiscardStaging(gen(j)) PROVE pointers' = pointers
    BY <1>1, <1>3, Ids DEF DiscardStaging, CanDiscard, JobTypes
  <1>4. ASSUME NEW force, ClaimLease(j, force) \/ LeaseHeld(j, force) PROVE pointers' = pointers
    BY <1>2, <1>4 DEF ClaimLease, LeaseHeld, vars, dataVars
  <1>5. CASE StageExport(j) \/ ValidateStaged(j)
    BY <1>5 DEF StageExport, ValidateStaged, StoreCall, CallRaises, Stage, Validate, vars, dataVars
  <1>6. CASE DiscardInvalid(j) \/ Recover(j)
    BY <1>3, <1>6 DEF DiscardInvalid, Recover, StoreCall, CallRaises, vars, dataVars
  <1>7. CASE PublishValidated(j)
    BY <1>7 DEF PublishValidated, vars, dataVars
  <1>8. CASE Collect(j) \/ RecordRun(j) \/ Release(j) \/ Killed(j)
    BY <1>8 DEF Collect, RecordRun, Release, Killed, ReleaseScrapeLease, vars, dataVars
  <1> QED
    BY <1>4, <1>5, <1>6, <1>7, <1>8 DEF JobStep

\* The history holds whatever is current.
CurrentShown == pointers["current"] \in shown \cup {None}

\* A step of a job adds at most the generation it publishes to the history.
LEMMA ShownStep ==
    ASSUME JobTypes, TypeOK, StoreInv, CurrentShown, NEW j \in Jobs, JobStep(j) \/ Killed(j)
    PROVE  /\ CurrentShown'
           /\ \/ shown' = shown
              \/ /\ PublishValidated(j) /\ Publish(gen(j)) /\ pointers' # pointers
                 /\ shown' = shown \cup {gen(j)}
  <1>1. gen(j) \in Generations /\ gen(j) # None
    BY Ids, StoreAssumption DEF JobTypes
  <1>2. shown' = shown \/ (PublishValidated(j) /\ shown' = shown \cup ({pointers'["current"]} \ {None}))
    BY DEF JobStep, ClaimLease, LeaseHeld, Collect, StageExport, ValidateStaged, DiscardInvalid,
           PublishValidated, Recover, RecordRun, Release, Killed
  <1>3. CASE pointers' = pointers
    BY <1>2, <1>3 DEF CurrentShown
  <1>4. CASE pointers' # pointers
    <2>1. PublishValidated(j) /\ Publish(gen(j))
      BY <1>4, OnlyPublishMovesPointers
    <2>2. pointers'["current"] = gen(j)
      BY <2>1, PublishMakesCurrent
    <2>3. shown' = shown \cup ({pointers'["current"]} \ {None})
      BY <2>1 DEF PublishValidated
    <2>4. shown' = shown \cup {gen(j)}
      BY <1>1, <2>2, <2>3
    <2> QED
      BY <1>4, <2>1, <2>2, <2>4 DEF CurrentShown
  <1> QED
    BY <1>3, <1>4

\* Whatever is current is in the history.
LEMMA CurrentShownInvariance == JobsSpec => []CurrentShown
  <1>1. JobsInit => CurrentShown
    BY DEF JobsInit, Init, CurrentShown, Roles
  <1>2. JobTypes /\ TypeOK /\ StoreInv /\ CurrentShown /\ [JobsNext]_allVars => CurrentShown'
    BY ShownStep DEF JobsNext, LeaseTimesOut, LeaseExpires, allVars, jobVars, vars, dataVars, CurrentShown
  <1> QED
    BY <1>1, <1>2, JobTypesInvariance, JobsUseTheStore, TypeCorrect, Invariance, PTL DEF JobsSpec

\* Of what a job was told that it published there is nothing but its last attempt,
\* and then it neither tries again nor records anything but "published".
PublishesLast(j) ==
    \A n \in Attempts : Id(j, n) \in shown \ unanswered =>
        /\ n = attempt[j]
        /\ pc[j] \in {"record", "release", "done"}
        /\ pc[j] = "record" => outcome[j] = "published"
        /\ runs[j] \in {None, "published"}

\* Which publications were not answered does not change, and another one is only
\* that of the generation a job publishes while it goes to its handler.
LEMMA UnansweredStep ==
    ASSUME NEW j \in Jobs, JobStep(j) \/ Killed(j)
    PROVE  \/ unanswered' = unanswered
           \/ PublishValidated(j) /\ unanswered' = unanswered \cup {gen(j)}
  BY DEF JobStep, ClaimLease, LeaseHeld, Collect, StageExport, ValidateStaged, DiscardInvalid,
         PublishValidated, Recover, RecordRun, Release, Killed

\* It is so whatever fails.
LEMMA PublishesLastStep ==
    ASSUME JobTypes, TypeOK, StoreInv, CurrentShown, NEW j \in Jobs,
           OnCourse(j), PublishesLast(j), JobStep(j) \/ Killed(j)
    PROVE  PublishesLast(j)'
  <1>1. CASE shown' = shown
    <2> SUFFICES ASSUME NEW n \in Attempts, Id(j, n) \in shown \ unanswered
                 PROVE  /\ n = attempt'[j]
                        /\ pc'[j] \in {"record", "release", "done"}
                        /\ pc'[j] = "record" => outcome'[j] = "published"
                        /\ runs'[j] \in {None, "published"}
      <3>1. unanswered \subseteq unanswered'
        BY UnansweredStep
      <3>2. \A n \in Attempts : Id(j, n)' = Id(j, n)
        BY Zenon DEF Id
      <3> QED BY <1>1, <3>1, <3>2 DEF PublishesLast
    <2>1. /\ n = attempt[j]
          /\ pc[j] \in {"record", "release", "done"}
          /\ pc[j] = "record" => outcome[j] = "published"
          /\ runs[j] \in {None, "published"}
      BY DEF PublishesLast
    <2>2. CASE RecordRun(j)
      BY <2>1, <2>2 DEF RecordRun, Goto, JobTypes
    <2>3. CASE Release(j)
      BY <2>1, <2>3 DEF Release, Goto, JobTypes
    <2>4. CASE Killed(j)
      BY <2>1, <2>4 DEF Killed, Goto, JobTypes
    <2>5. RecordRun(j) \/ Release(j) \/ Killed(j)
      BY <2>1 DEF JobStep, ClaimLease, LeaseHeld, Collect, StageExport, ValidateStaged,
                  DiscardInvalid, PublishValidated, Recover
    <2> QED
      BY <2>2, <2>3, <2>4, <2>5
  <1>2. CASE /\ PublishValidated(j) /\ pointers' # pointers
             /\ shown' = shown \cup {gen(j)}
    <2>1. UNCHANGED <<attempt, runs>> /\ pc[j] = "publish"
      BY <1>2 DEF PublishValidated
    <2>2. runs[j] = None /\ \A n \in Attempts : Id(j, n) \notin shown \ unanswered
      BY <2>1 DEF OnCourse, Working, PublishesLast
    <2>3. \A n \in Attempts : Id(j, n)' = Id(j, n)
      BY Zenon DEF Id
    <2>4. CASE unanswered' = unanswered \cup {gen(j)}
      BY <1>2, <2>2, <2>3, <2>4 DEF PublishesLast
    <2>5. CASE pc'[j] \in {"record", "release"} /\ outcome'[j] = "published" /\ UNCHANGED unanswered
      <3>1. \A n \in Attempts : Id(j, n) \in shown' \ unanswered' => n = attempt[j]
        BY <1>2, <2>2, <2>5, Ids DEF JobTypes
      <3> QED
        BY <2>1, <2>2, <2>3, <2>5, <3>1 DEF PublishesLast
    <2> QED
      BY <1>2, <2>4, <2>5 DEF PublishValidated, Goto, JobTypes, vars, dataVars
  <1> QED
    BY <1>1, <1>2, ShownStep

\* No job ever goes on trying after a publication it was told of.
LEMMA PublishesLastInvariance == JobsSpec => [](\A j \in Jobs : PublishesLast(j))
  <1> DEFINE AllPublishLast == \A j \in Jobs : PublishesLast(j)
  <1>1. JobsInit => AllPublishLast
    BY DEF JobsInit, PublishesLast
  <1>2. JobTypes /\ TypeOK /\ StoreInv /\ CurrentShown /\ Courses /\ AllPublishLast
        /\ [JobsNext]_allVars => AllPublishLast'
    <2> SUFFICES ASSUME JobTypes, TypeOK, StoreInv, CurrentShown, Courses, AllPublishLast,
                        [JobsNext]_allVars
                 PROVE  AllPublishLast'
      OBVIOUS
    <2>1. ASSUME NEW j \in Jobs, JobStep(j) \/ Killed(j) PROVE AllPublishLast'
      <3>1. PublishesLast(j)'
        BY <2>1, PublishesLastStep DEF Courses
      <3>2. ASSUME NEW k \in Jobs \ {j} PROVE PublishesLast(k)'
        <4>1. UNCHANGED <<pc[k], attempt[k], outcome[k], runs[k]>>
          BY <2>1, OthersStay
        <4>2. \A n \in Attempts : Id(k, n) # gen(j)
          BY Ids DEF JobTypes
        <4>3. \A n \in Attempts : Id(k, n)' \in (shown \ unanswered)' => Id(k, n) \in shown \ unanswered
          <5>1. \A n \in Attempts : Id(k, n)' = Id(k, n)
            BY Zenon DEF Id
          <5> QED
            BY <2>1, <4>2, <5>1, ShownStep, UnansweredStep
        <4> QED
          BY <4>1, <4>3 DEF PublishesLast
      <3> QED
        BY <3>1, <3>2
    <2>2. CASE UNCHANGED jobVars
      BY <2>2, Zenon DEF jobVars, PublishesLast, Id
    <2> QED
      BY <2>1, <2>2 DEF JobsNext, LeaseTimesOut, allVars
  <1> QED
    BY <1>1, <1>2, JobTypesInvariance, JobsUseTheStore, TypeCorrect, Invariance, CoursesInvariance,
       CurrentShownInvariance, PTL DEF JobsSpec

\* Whatever fails, and whoever took the lease over, a generation that a failed or
\* turned away run made current is one whose COMMIT was not answered
\* (FailedRunsWereNotAnswered).
THEOREM OnlyUnansweredFailuresPublish == JobsSpec => []FailedRunsWereNotAnswered
  <1>1. (\A j \in Jobs : PublishesLast(j)) => FailedRunsWereNotAnswered
    <2>1. None \notin {"failed", "lease_held"}
      BY JobsAssumption DEF Outcomes
    <2> QED
      BY <2>1, Ids DEF FailedRunsWereNotAnswered, PublishesLast, Jobs
  <1> QED
    BY <1>1, PublishesLastInvariance, PTL

\* As long as no answer to a COMMIT is lost, a run that recorded a failure or was
\* turned away never made a generation current (FailedRunsPublishNothing).
THEOREM FailuresPublishNothing ==
    ASSUME "lost_ack" \notin Faults
    PROVE  JobsSpec => []FailedRunsPublishNothing
  <1> DEFINE AllAnswered == unanswered = {}
  <1>1. JobsInit => AllAnswered
    BY DEF JobsInit
  <1>2. AllAnswered /\ [JobsNext]_allVars => AllAnswered'
    BY DEF JobsNext, JobStep, ClaimLease, LeaseHeld, Collect, StageExport, ValidateStaged,
           DiscardInvalid, PublishValidated, Recover, RecordRun, Release, Killed,
           LeaseTimesOut, allVars, jobVars
  <1>3. AllAnswered /\ FailedRunsWereNotAnswered => FailedRunsPublishNothing
    BY DEF FailedRunsWereNotAnswered, FailedRunsPublishNothing
  <1> QED
    BY <1>1, <1>2, <1>3, OnlyUnansweredFailuresPublish, PTL DEF JobsSpec

\* A job has published none of the attempts it has yet to make.
PublishedSoFar(j) == \A n \in Attempts : Id(j, n) \in shown => n <= attempt[j]

\* Of a job's attempts, only the current one becomes part of the history.
LEMMA PublishedSoFarInvariance == JobsSpec => [](\A j \in Jobs : PublishedSoFar(j))
  <1> DEFINE AllSoFar == \A j \in Jobs : PublishedSoFar(j)
  <1>1. JobsInit => AllSoFar
    BY DEF JobsInit, PublishedSoFar
  <1>2. JobTypes /\ TypeOK /\ StoreInv /\ CurrentShown /\ AllSoFar /\ [JobsNext]_allVars => AllSoFar'
    <2> SUFFICES ASSUME JobTypes, TypeOK, StoreInv, CurrentShown, AllSoFar, [JobsNext]_allVars
                 PROVE  AllSoFar'
      OBVIOUS
    <2>1. ASSUME NEW j \in Jobs, JobStep(j) \/ Killed(j), NEW k \in Jobs
          PROVE  PublishedSoFar(k)'
      <3>1. attempt[k] \in Nat /\ attempt'[k] \in {attempt[k], attempt[k] + 1}
        BY <2>1, JobStepMoves, JobsAssumption DEF JobMoves, JobTypes, Attempts
      <3>2. \A n \in Attempts : n \in Nat /\ Id(k, n)' = Id(k, n)
        <4>1. \A n \in Attempts : Id(k, n)' = Id(k, n)
          BY Zenon DEF Id
        <4> QED BY <4>1, JobsAssumption DEF Attempts
      <3>3. \A n \in Attempts : Id(k, n) \in shown' => Id(k, n) \in shown \/ n = attempt[k]
        BY <2>1, ShownStep, Ids DEF JobTypes
      <3>4. \A n \in Attempts : Id(k, n) \in shown => n <= attempt[k]
        BY DEF PublishedSoFar
      <3> QED BY <3>1, <3>2, <3>3, <3>4 DEF PublishedSoFar
    <2>2. CASE UNCHANGED jobVars
      BY <2>2, Zenon DEF jobVars, PublishedSoFar, Id
    <2> QED
      BY <2>1, <2>2 DEF JobsNext, LeaseTimesOut, allVars
  <1> QED
    BY <1>1, <1>2, JobTypesInvariance, JobsUseTheStore, TypeCorrect, Invariance,
       CurrentShownInvariance, PTL DEF JobsSpec

\* However often a run tries again and whatever fails, it does so after none of its
\* publications but those whose COMMIT was not answered (RunsPublishOnce).
THEOREM OnePublicationPerRun == JobsSpec => []RunsPublishOnce
  <1>1. JobTypes /\ (\A j \in Jobs : PublishesLast(j)) /\ (\A j \in Jobs : PublishedSoFar(j))
           => RunsPublishOnce
    <2> SUFFICES ASSUME JobTypes, NEW j \in Jobs, PublishesLast(j), PublishedSoFar(j),
                        NEW m \in Attempts, NEW n \in Attempts, m < n,
                        Id(j, m) \in shown, Id(j, n) \in shown, Id(j, m) \notin unanswered
                 PROVE  FALSE
      BY Zenon DEF RunsPublishOnce, Id
    <2>1. m \in Nat /\ n \in Nat
      BY JobsAssumption DEF Attempts
    <2>2. m = attempt[j] /\ n <= attempt[j]
      BY DEF PublishesLast, PublishedSoFar
    <2> QED BY <2>1, <2>2
  <1> QED
    BY <1>1, JobTypesInvariance, PublishesLastInvariance, PublishedSoFarInvariance, PTL

-----------------------------------------------------------------------------
(* What a job leaves behind *)

Settled(g) == status[g] \in {"absent", "published"}

\* A job stages its attempts' generations one after the other, and settles each
\* before the next attempt and before it has an outcome other than raised.
Settles(j) ==
    \A n \in Attempts :
        /\ n > attempt[j] \/ (n = attempt[j] /\ pc[j] \in {"claim", "collect", "stage"}) =>
              status[Id(j, n)] = "absent"
        /\ n < attempt[j] \/ outcome[j] \in {"published", "failed", "lease_held"} =>
              Settled(Id(j, n))

\* A job's step may delete the generations of others, and does no more to them.
LEMMA OthersStatus ==
    ASSUME JobTypes, TypeOK, StoreInv, NEW j \in Jobs, JobStep(j) \/ Killed(j),
           NEW g \in Generations, g # gen(j) \/ pc[j] \in {"claim", "collect", "record", "release"}
    PROVE  status'[g] \in {status[g], "absent"}
  <1> USE DEF vars, dataVars
  <1>1. ASSUME NEW D, DeleteGenerations(D) PROVE status'[g] \in {status[g], "absent"}
    BY <1>1 DEF DeleteGenerations, StatusWithout
  <1>2. ASSUME NEW force, ClaimLease(j, force) \/ LeaseHeld(j, force)
        PROVE  status'[g] \in {status[g], "absent"}
    BY <1>1, <1>2 DEF ClaimLease, LeaseHeld, ClaimScrapeLease
  <1>3. CASE StageExport(j)
    BY <1>3 DEF StageExport, StoreCall, CallRaises, Stage, TypeOK
  <1>4. CASE ValidateStaged(j)
    BY <1>4 DEF ValidateStaged, StoreCall, CallRaises, Validate, TypeOK
  <1>5. CASE DiscardInvalid(j) \/ Recover(j)
    BY <1>1, <1>5 DEF DiscardInvalid, Recover, StoreCall, CallRaises, DiscardStaging
  <1>6. CASE PublishValidated(j)
    <2>1. ASSUME Publish(gen(j)) PROVE status'[g] \in {status[g], "absent"}
      <3>1. status'[g] = IF g \in {gen(j), pointers["current"]} THEN "published"
                         ELSE StatusWithout(Replaced(gen(j)))[g]
        BY <2>1 DEF Publish, StatusAfter
      <3>2. g = pointers["current"] => status[g] = "published"
        BY DEF StoreInv, PublishedIffPointed, Current
      <3> QED
        BY <1>6, <3>1, <3>2 DEF StatusWithout, PublishValidated
    <2> QED
      BY <1>6, <2>1 DEF PublishValidated
  <1>7. CASE Collect(j) \/ RecordRun(j) \/ Release(j) \/ Killed(j)
    BY <1>7 DEF Collect, RecordRun, Release, Killed, ReleaseScrapeLease
  <1> QED
    BY <1>2, <1>3, <1>4, <1>5, <1>6, <1>7 DEF JobStep

\* What a generation of the job's current attempt is when the job goes on to
\* another attempt, or has an outcome.
LEMMA OwnStatus ==
    ASSUME JobTypes, TypeOK, StoreInv, NEW j \in Jobs, OnCourse(j), Settles(j),
           JobStep(j) \/ Killed(j)
    PROVE  /\ attempt'[j] # attempt[j] \/ outcome'[j] \in {"published", "failed", "lease_held"} =>
                 status'[gen(j)] \in {"absent", "published"}
           /\ pc'[j] \in {"claim", "collect", "stage"} /\ attempt'[j] = attempt[j] =>
                 status'[gen(j)] = "absent"
  <1> DEFINE own == status'[gen(j)]
  <1> DEFINE Goal == /\ attempt'[j] # attempt[j] \/ outcome'[j] \in {"published", "failed", "lease_held"} =>
                           own \in {"absent", "published"}
                     /\ pc'[j] \in {"claim", "collect", "stage"} /\ attempt'[j] = attempt[j] =>
                           own = "absent"
  <1> USE DEF Goto, JobTypes
  <1>1. gen(j) \in Generations /\ gen(j) = Id(j, attempt[j]) /\ attempt[j] \in Attempts
    BY Ids
  <1>2. None \notin {"published", "failed", "lease_held"}
    BY JobsAssumption DEF Outcomes
  <1>3. pc[j] \in {"claim", "collect", "stage"} => status[gen(j)] = "absent"
    BY <1>1 DEF Settles
  <1>4. outcome[j] \in {"published", "failed", "lease_held"} => status[gen(j)] \in {"absent", "published"}
    BY <1>1 DEF Settles, Settled
  <1>5. ASSUME NEW force, ClaimLease(j, force) \/ LeaseHeld(j, force) PROVE Goal
    <2>1. pc[j] = "claim"
      BY <1>5 DEF ClaimLease, LeaseHeld
    <2>2. own = "absent"
      BY <1>1, <1>3, <2>1, OthersStatus
    <2> QED
      BY <2>2
  <1>6. CASE Collect(j)
    <2>1. own = "absent"
      BY <1>3, <1>6 DEF Collect, vars, dataVars
    <2> QED
      BY <2>1
  <1>7. CASE StageExport(j) \/ ValidateStaged(j) \/ DiscardInvalid(j)
    <2>1. pc[j] \in Working /\ UNCHANGED <<attempt, outcome>>
      BY <1>7 DEF StageExport, ValidateStaged, DiscardInvalid, Working
    <2>2. pc'[j] \notin {"claim", "collect", "stage"}
      BY <1>7 DEF StageExport, ValidateStaged, DiscardInvalid, StoreCall, CallRaises, OnError
    <2> QED
      BY <1>2, <2>1, <2>2 DEF OnCourse
  <1>8. CASE PublishValidated(j)
    <2>1. UNCHANGED attempt /\ outcome[j] = None /\ pc'[j] \notin {"claim", "collect", "stage"}
      BY <1>8 DEF PublishValidated, OnError, OnCourse, Working
    <2>2. CASE Publish(gen(j))
      <3>1. own = "published"
        BY <1>1, <2>2 DEF Publish, StatusAfter
      <3> QED
        BY <2>1, <3>1
    <2>3. CASE ~Publish(gen(j))
      BY <1>2, <1>8, <2>1, <2>3 DEF PublishValidated
    <2> QED
      BY <2>2, <2>3
  <1>9. CASE Recover(j)
    <2>1. outcome[j] = None
      BY <1>9 DEF Recover, OnCourse, Working
    <2>2. CASE DiscardStaging(gen(j))
      <3>1. own = "absent"
        BY <1>1, <2>2 DEF DiscardStaging, DeleteGenerations, StatusWithout
      <3> QED
        BY <3>1
    <2>3. CASE ~CanDiscard(gen(j)) /\ UNCHANGED vars /\ NextAttempt(j)
      <3>1. status[gen(j)] \in {"absent", "published"}
        BY <1>1, <2>3 DEF CanDiscard, StoreInv, PublishedIffPointed, TypeOK, Statuses, Roles,
                          Current, Previous
      <3>2. own \in {"absent", "published"}
        BY <2>3, <3>1 DEF vars, dataVars
      <3>3. pc'[j] = "collect" => attempt'[j] = attempt[j] + 1
        BY <2>3 DEF NextAttempt
      <3>4. pc'[j] \in {"collect", "record"}
        BY <2>3 DEF NextAttempt
      <3> QED
        BY <1>1, <3>2, <3>3, <3>4 DEF Attempts
    <2>4. CASE Propagate(j) /\ UNCHANGED attempt
      BY <2>4 DEF Propagate
    <2> QED
      BY <1>9, <2>2, <2>3, <2>4 DEF Recover
  <1>10. CASE RecordRun(j) \/ Release(j)
    <2>1. /\ UNCHANGED <<attempt, status>> /\ outcome'[j] \in {outcome[j], "raised"}
          /\ pc'[j] \in {"done", "release"}
      BY <1>10 DEF RecordRun, Release, ReleaseScrapeLease, vars, dataVars
    <2> QED
      BY <1>4, <2>1
  <1>11. CASE Killed(j)
    BY <1>11 DEF Killed
  <1> QED
    BY <1>5, <1>6, <1>7, <1>8, <1>9, <1>10, <1>11 DEF JobStep

\* A step of a job keeps its attempts in order.
LEMMA SettlesStep ==
    ASSUME JobTypes, TypeOK, StoreInv, NEW j \in Jobs, OnCourse(j), Settles(j),
           JobStep(j) \/ Killed(j)
    PROVE  Settles(j)'
  <1>1. attempt[j] \in Attempts /\ attempt[j] \in Nat /\ gen(j) = Id(j, attempt[j])
    BY Ids, JobsAssumption DEF JobTypes, Attempts
  <1>2. attempt'[j] = attempt[j] \/ attempt'[j] = attempt[j] + 1
    BY JobStepMoves DEF JobMoves, JobTypes
  <1> SUFFICES ASSUME NEW n \in Attempts
               PROVE  /\ n > attempt'[j] \/ (n = attempt'[j] /\ pc'[j] \in {"claim", "collect", "stage"}) =>
                            status'[Id(j, n)] = "absent"
                      /\ n < attempt'[j] \/ outcome'[j] \in {"published", "failed", "lease_held"} =>
                            status'[Id(j, n)] \in {"absent", "published"}
    BY Zenon DEF Settles, Settled, Id
  <1>3. n \in Nat /\ Id(j, n) \in Generations
    BY Ids, JobsAssumption DEF Attempts
  <1>4. CASE n = attempt[j]
    BY <1>1, <1>2, <1>4, OwnStatus
  <1>5. CASE n # attempt[j]
    <2>1. status'[Id(j, n)] \in {status[Id(j, n)], "absent"}
      BY <1>1, <1>3, <1>5, Ids, OthersStatus
    <2>2. n > attempt[j] => status[Id(j, n)] = "absent"
      BY DEF Settles
    <2>3. n < attempt[j] => status[Id(j, n)] \in {"absent", "published"}
      BY DEF Settles, Settled
    <2> QED
      BY <1>1, <1>2, <1>3, <1>5, <2>1, <2>2, <2>3
  <1> QED
    BY <1>4, <1>5

\* Every job always has its attempts in order.
LEMMA SettlesInvariance == JobsSpec => [](\A j \in Jobs : Settles(j))
  <1> DEFINE AllSettle == \A j \in Jobs : Settles(j)
  <1>1. JobsInit => AllSettle
    <2> SUFFICES ASSUME JobsInit, NEW j \in Jobs, NEW n \in Attempts
                 PROVE  status[Id(j, n)] = "absent"
      BY DEF Settles, Settled
    <2> QED
      BY Ids DEF JobsInit, Init
  <1>2. JobTypes /\ TypeOK /\ StoreInv /\ Courses /\ AllSettle /\ [JobsNext]_allVars => AllSettle'
    <2> SUFFICES ASSUME JobTypes, TypeOK, StoreInv, Courses, AllSettle, [JobsNext]_allVars
                 PROVE  AllSettle'
      OBVIOUS
    <2>1. ASSUME NEW j \in Jobs, JobStep(j) \/ Killed(j) PROVE AllSettle'
      <3>1. Settles(j)'
        BY <2>1, SettlesStep DEF Courses
      <3>2. ASSUME NEW k \in Jobs \ {j} PROVE Settles(k)'
        <4>1. UNCHANGED <<pc[k], attempt[k], outcome[k], runs[k]>>
          BY <2>1, OthersStay
        <4>2. \A n \in Attempts : status'[Id(k, n)] \in {status[Id(k, n)], "absent"}
          BY <2>1, Ids, OthersStatus DEF JobTypes
        <4> SUFFICES ASSUME NEW n \in Attempts
               PROVE  /\ n > attempt'[k] \/ (n = attempt'[k] /\ pc'[k] \in {"claim", "collect", "stage"}) =>
                            status'[Id(k, n)] = "absent"
                      /\ n < attempt'[k] \/ outcome'[k] \in {"published", "failed", "lease_held"} =>
                            status'[Id(k, n)] \in {"absent", "published"}
          BY Zenon DEF Settles, Settled, Id
        <4> QED
          BY <4>1, <4>2 DEF Settles, Settled
      <3> QED
        BY <3>1, <3>2
    <2>2. CASE UNCHANGED <<jobVars, status>>
      BY <2>2, Zenon DEF jobVars, Settles, Settled, Id
    <2> QED
      BY <2>1, <2>2 DEF JobsNext, LeaseTimesOut, LeaseExpires, allVars, vars, dataVars
  <1> QED
    BY <1>1, <1>2, JobTypesInvariance, JobsUseTheStore, TypeCorrect, Invariance, CoursesInvariance,
       PTL DEF JobsSpec

\* What is neither published nor deleted belongs to a job in the lease, or to one
\* that raised or was killed (StagedByItsJob), whoever took its lease over.
THEOREM LeftoversAreOfFailures == JobsSpec => []StagedByItsJob
  <1>1. JobTypes /\ Courses /\ (\A j \in Jobs : Settles(j)) => StagedByItsJob
    <2> SUFFICES ASSUME JobTypes, Courses, NEW j \in Jobs, Settles(j), NEW n \in Attempts,
                        status[Id(j, n)] \in {"staging", "validated"}
                 PROVE  j \in InLease \/ (pc[j] = "done" /\ outcome[j] \in {"raised", "killed"})
      BY Ids DEF StagedByItsJob
    <2>1. n = attempt[j]
      <3>1. ~(n > attempt[j]) /\ ~(n < attempt[j])
        BY DEF Settles, Settled
      <3>2. n \in Nat /\ attempt[j] \in Nat
        BY JobsAssumption DEF JobTypes, Attempts
      <3> QED BY <3>1, <3>2
    <2>2. outcome[j] \notin {"published", "failed", "lease_held"} /\ pc[j] # "claim"
      BY <2>1 DEF Settles, Settled
    <2> QED
      BY <2>2 DEF InLease, Courses, OnCourse, JobTypes, Outcomes
  <1> QED
    BY <1>1, JobTypesInvariance, CoursesInvariance, SettlesInvariance, PTL

\* A scrape that has returned an outcome does not hold the lease.
Released(j) ==
    pc[j] = "done" /\ outcome[j] \in {"published", "failed"} => leaseHolder # HolderOf(j)

\* What a step of a job makes of the lease.
LEMMA LeaseStep ==
    ASSUME JobTypes, NEW j \in Jobs, JobStep(j) \/ Killed(j)
    PROVE  leaseHolder' \in {leaseHolder, None, HolderOf(j)}
  BY DEF JobStep, ClaimLease, ClaimScrapeLease, LeaseHeld, Collect, StageExport, ValidateStaged,
         DiscardInvalid, PublishValidated, Recover, RecordRun, Release, ReleaseScrapeLease, Killed,
         StoreCall, CallRaises, Stage, Validate, DiscardStaging, Publish, vars, leaseVars

\* Nobody but the scrape itself can make it hold the lease.
LEMMA ReleasedStep ==
    ASSUME JobTypes, NEW j \in Scrapers, Courses, \A k \in Scrapers : Released(k),
           NEW k \in Jobs, JobStep(k) \/ Killed(k)
    PROVE  Released(j)'
  <1>1. j \in Jobs /\ None # HolderOf(j)
    BY JobsAssumption, StoreAssumption DEF Jobs, HolderOf
  <1>2. CASE k # j
    <2>1. UNCHANGED <<pc[j], outcome[j]>>
      BY <1>1, <1>2, OthersStay
    <2>2. HolderOf(k) # HolderOf(j)
      BY <1>2, JobsAssumption DEF HolderOf
    <2> QED
      BY <1>1, <2>1, <2>2, LeaseStep DEF Released, HolderOf
  <1>3. CASE k = j
    <2> SUFFICES ASSUME pc'[j] = "done", outcome'[j] \in {"published", "failed"}
                 PROVE  leaseHolder' # HolderOf(j)
      BY DEF Released, HolderOf
    <2> USE DEF Goto, JobTypes
    <2>1. CASE Release(j)
      BY <1>1, <2>1 DEF Release, ReleaseScrapeLease, vars, leaseVars
    <2>2. ~RecordRun(j) /\ ~Killed(j)
      BY <1>1 DEF RecordRun, Killed
    <2>3. \A force : ~ClaimLease(j, force) /\ ~LeaseHeld(j, force)
      BY <1>1 DEF ClaimLease, LeaseHeld
    <2>4. ~Collect(j) /\ ~Recover(j)
      BY <1>1 DEF Collect, Recover, NextAttempt, Propagate
    <2>5. ~StageExport(j) /\ ~ValidateStaged(j) /\ ~DiscardInvalid(j) /\ ~PublishValidated(j)
      BY <1>1 DEF StageExport, ValidateStaged, DiscardInvalid, PublishValidated, StoreCall,
                  CallRaises, OnError
    <2> QED
      BY <1>3, <2>1, <2>2, <2>3, <2>4, <2>5 DEF JobStep
  <1> QED
    BY <1>2, <1>3

\* A scrape that returns an outcome leaves neither its lease nor a generation
\* that is not published behind (ReturnedScrapesCleanUp), overtaken or not and
\* whatever failed or was lost.
THEOREM ReturnedScrapesLeaveNothing == JobsSpec => []ReturnedScrapesCleanUp
  <1> DEFINE AllReleased == \A j \in Scrapers : Released(j)
  <1>1. JobsInit => AllReleased
    BY DEF JobsInit, Released, Jobs
  <1>2. JobTypes /\ Courses /\ AllReleased /\ [JobsNext]_allVars => AllReleased'
    <2> SUFFICES ASSUME JobTypes, Courses, AllReleased, [JobsNext]_allVars PROVE AllReleased'
      OBVIOUS
    <2>1. ASSUME NEW j \in Jobs, JobStep(j) \/ Killed(j) PROVE AllReleased'
      BY <2>1, ReleasedStep
    <2>2. CASE UNCHANGED <<jobVars, leaseHolder>>
      BY <2>2 DEF jobVars, Released, HolderOf
    <2> QED
      BY <2>1, <2>2 DEF JobsNext, LeaseTimesOut, LeaseExpires, allVars, vars, leaseVars
  <1>3. AllReleased /\ (\A j \in Jobs : Settles(j)) => ReturnedScrapesCleanUp
    BY Ids DEF Released, Settles, Settled, ReturnedScrapesCleanUp, Jobs
  <1> QED
    BY <1>1, <1>2, <1>3, JobTypesInvariance, CoursesInvariance, SettlesInvariance, PTL DEF JobsSpec

-----------------------------------------------------------------------------
(* The lease *)

\* With one run of publish-fixture at most, no two jobs claim under one holder.
LEMMA HoldersDiffer ==
    ASSUME \A p, q \in Publishers : p = q
    PROVE  /\ \A i, j \in Jobs : HolderOf(i) = HolderOf(j) => i = j
           /\ \A j \in Jobs : HolderOf(j) # None
  BY JobsAssumption, StoreAssumption DEF HolderOf, Jobs

\* A job that nobody overtook holds the lease, from its claim to its release.
HoldsUnlessOvertaken == \A j \in InLease \ overtaken : leaseHolder = HolderOf(j)

\* The steps of a job other than its claim.
OtherStep(j) ==
    \/ \E force \in BOOLEAN : LeaseHeld(j, force)
    \/ Collect(j) \/ StageExport(j) \/ ValidateStaged(j) \/ DiscardInvalid(j)
    \/ PublishValidated(j) \/ Recover(j) \/ RecordRun(j) \/ Release(j) \/ Killed(j)

\* A step of a job is a claim or another step.
LEMMA ClaimOrOther ==
    ASSUME NEW j \in Jobs, JobStep(j) \/ Killed(j)
    PROVE  OtherStep(j) \/ \E force \in Forces \cup {FALSE} : ClaimLease(j, force)
  BY JobsAssumption DEF JobStep, OtherStep

\* By no other step does anybody enter the lease, and only the release gives it up.
LEMMA NobodyEnters ==
    ASSUME JobTypes, Courses, NEW j \in Jobs, OtherStep(j)
    PROVE  /\ InLease' \subseteq InLease
           /\ overtaken' = overtaken
           /\ Release(j) \/ UNCHANGED leaseVars
           /\ Release(j) => j \in InLease /\ j \notin InLease'
  <1> USE DEF Goto, JobTypes
  <1>1. None # "lease_held"
    BY JobsAssumption DEF Outcomes
  <1>2. overtaken' = overtaken
    BY DEF OtherStep, LeaseHeld, Collect, StageExport, ValidateStaged, DiscardInvalid,
           PublishValidated, Recover, RecordRun, Release, Killed
  <1>3. Release(j) \/ UNCHANGED leaseVars
    <2>1. ASSUME StageExport(j) \/ ValidateStaged(j) \/ DiscardInvalid(j) PROVE UNCHANGED leaseVars
      BY <2>1 DEF StageExport, ValidateStaged, DiscardInvalid, StoreCall, CallRaises, Stage,
                  Validate, DiscardStaging, vars
    <2>2. ASSUME PublishValidated(j) \/ Recover(j) PROVE UNCHANGED leaseVars
      BY <2>2 DEF PublishValidated, Recover, Publish, DiscardStaging, vars
    <2>3. ASSUME Collect(j) \/ RecordRun(j) \/ Killed(j) \/ (\E force \in BOOLEAN : LeaseHeld(j, force))
          PROVE  UNCHANGED leaseVars
      BY <2>3 DEF Collect, RecordRun, Killed, LeaseHeld, vars
    <2> QED
      BY <2>1, <2>2, <2>3 DEF OtherStep
  <1>4. Release(j) => j \in InLease /\ j \notin InLease'
    BY DEF Release, InLease, Courses, OnCourse
  <1>5. \A k \in Jobs \ {j} : pc'[k] = pc[k] /\ outcome'[k] = outcome[k]
    BY DEF OtherStep, LeaseHeld, Collect, StageExport, ValidateStaged, DiscardInvalid,
           PublishValidated, Recover, RecordRun, Release, Killed, StoreCall, CallRaises,
           NextAttempt, Propagate
  <1>6. j \in InLease' => j \in InLease
    <2> SUFFICES ASSUME j \in InLease', j \notin InLease PROVE FALSE
      OBVIOUS
    <2>1. pc[j] \in {"claim", "done"} \/ (pc[j] = "record" /\ outcome[j] = "lease_held")
      BY <1>1 DEF InLease, Courses, OnCourse, Working, Steps
    <2>2. CASE pc[j] = "claim"
      <3>1. Killed(j) \/ \E force \in BOOLEAN : LeaseHeld(j, force)
        BY <2>2 DEF OtherStep, Collect, StageExport, ValidateStaged, DiscardInvalid,
                    PublishValidated, Recover, RecordRun, Release
      <3> QED
        BY <3>1 DEF Killed, LeaseHeld, InLease
    <2>3. pc[j] # "done"
      BY DEF OtherStep, LeaseHeld, Collect, StageExport, ValidateStaged, DiscardInvalid,
             PublishValidated, Recover, RecordRun, Release, Killed
    <2>4. CASE pc[j] = "record" /\ outcome[j] = "lease_held"
      <3>1. RecordRun(j) \/ Killed(j)
        BY <2>4 DEF OtherStep, LeaseHeld, Collect, StageExport, ValidateStaged, DiscardInvalid,
                    PublishValidated, Recover, Release
      <3> QED
        BY <2>4, <3>1 DEF RecordRun, Killed, InLease
    <2> QED
      BY <2>1, <2>2, <2>3, <2>4
  <1>7. InLease' \subseteq InLease
    BY <1>5, <1>6 DEF InLease
  <1> QED
    BY <1>2, <1>3, <1>4, <1>7

\* A claim overtakes whoever holds the lease, and a release gives up one's own.
LEMMA HoldsStep ==
    ASSUME \A p, q \in Publishers : p = q, JobTypes, Courses, HoldsUnlessOvertaken,
           NEW j \in Jobs, JobStep(j) \/ Killed(j)
    PROVE  HoldsUnlessOvertaken'
  <1>1. \A k : HolderOf(k)' = HolderOf(k)
    BY DEF HolderOf
  <1>2. ASSUME NEW force, ClaimLease(j, force) PROVE HoldsUnlessOvertaken'
    <2>1. pc[j] = "claim" /\ \A k \in Jobs \ {j} : UNCHANGED <<pc[k], outcome[k]>>
      BY <1>2, OthersStay DEF ClaimLease
    <2>2. \A k \in InLease' : k = j \/ (k \in InLease /\ k # j)
      BY <2>1 DEF InLease
    <2>3. CASE ClaimScrapeLease(HolderOf(j), force) /\ overtaken' = overtaken \cup TakenOver(force)
      <3> SUFFICES ASSUME NEW k \in InLease' \ overtaken', k # j
                   PROVE  FALSE
        BY <2>3 DEF HoldsUnlessOvertaken, ClaimScrapeLease, HolderOf
      <3>1. k \in Jobs /\ k \in InLease \ overtaken /\ leaseHolder = HolderOf(k)
        BY <2>2, <2>3 DEF HoldsUnlessOvertaken, InLease
      <3>2. leaseExpired \/ force
        BY <2>3, <3>1, HoldersDiffer DEF ClaimScrapeLease
      <3>3. k \in TakenOver(force)
        BY <3>1, <3>2 DEF TakenOver
      <3> QED
        BY <2>3, <3>3
    <2>4. CASE UNCHANGED <<vars, overtaken>> /\ Goto(j, "done")
      BY <1>1, <2>1, <2>2, <2>4 DEF HoldsUnlessOvertaken, InLease, Goto, JobTypes, vars, leaseVars
    <2> QED
      BY <1>2, <2>3, <2>4 DEF ClaimLease
  <1>3. CASE OtherStep(j)
    <2>1. /\ InLease' \subseteq InLease /\ overtaken' = overtaken
          /\ Release(j) \/ UNCHANGED leaseVars
          /\ Release(j) => j \in InLease /\ j \notin InLease'
      BY <1>3, NobodyEnters
    <2>2. CASE UNCHANGED leaseVars
      BY <1>1, <2>1, <2>2 DEF HoldsUnlessOvertaken, leaseVars
    <2>3. CASE Release(j)
      <3> SUFFICES ASSUME NEW k \in InLease \ overtaken, k # j, leaseHolder = HolderOf(k)
                   PROVE  leaseHolder' = HolderOf(k)
        BY <1>1, <2>1, <2>3 DEF HoldsUnlessOvertaken
      <3>1. leaseHolder # HolderOf(j)
        BY HoldersDiffer DEF InLease
      <3> QED
        BY <2>3, <3>1 DEF Release, ReleaseScrapeLease, vars, leaseVars
    <2> QED
      BY <2>1, <2>2, <2>3
  <1> QED
    BY <1>2, <1>3, ClaimOrOther

\* Two jobs are never both between their claim and their release unless one was
\* overtaken (NoOverlap), as long as publish-fixture runs once at a time: all its
\* runs claim under the same holder.
THEOREM JobsDoNotOverlap ==
    ASSUME \A p, q \in Publishers : p = q
    PROVE  JobsSpec => []NoOverlap
  <1>1. JobsInit => HoldsUnlessOvertaken
    BY DEF JobsInit, HoldsUnlessOvertaken, InLease
  <1>2. JobTypes /\ Courses /\ HoldsUnlessOvertaken /\ [JobsNext]_allVars => HoldsUnlessOvertaken'
    <2> SUFFICES ASSUME JobTypes, Courses, HoldsUnlessOvertaken, [JobsNext]_allVars
                 PROVE  HoldsUnlessOvertaken'
      OBVIOUS
    <2>1. CASE UNCHANGED <<jobVars, leaseHolder>>
      BY <2>1 DEF HoldsUnlessOvertaken, InLease, HolderOf, jobVars
    <2> QED
      BY <2>1, HoldsStep DEF JobsNext, LeaseTimesOut, LeaseExpires, allVars, vars, leaseVars
  <1>3. HoldsUnlessOvertaken => NoOverlap
    BY HoldersDiffer DEF HoldsUnlessOvertaken, NoOverlap, InLease
  <1> QED
    BY <1>1, <1>2, <1>3, JobTypesInvariance, CoursesInvariance, PTL DEF JobsSpec

\* As the jobs are deployed, every job between claim and release holds a live lease.
HoldsLive == \A j \in InLease : leaseHolder = HolderOf(j) /\ ~leaseExpired

\* The job that moves the pointers holds a live lease (PublishersHoldLease),
\* although publish does not look at the lease, as long as publish-fixture runs
\* once at a time, every job ends before its lease expires and nobody forces a
\* claim.
THEOREM OnlyLeaseHoldersPublish ==
    ASSUME \A p, q \in Publishers : p = q, Overrun = FALSE, Forces \subseteq {FALSE}
    PROVE  JobsSpec => PublishersHoldLease
  <1>1. JobsInit => HoldsLive
    BY DEF JobsInit, HoldsLive, InLease
  <1>2. JobTypes /\ Courses /\ HoldsLive /\ [JobsNext]_allVars => HoldsLive'
    <2> SUFFICES ASSUME JobTypes, Courses, HoldsLive, [JobsNext]_allVars PROVE HoldsLive'
      OBVIOUS
    <2>1. \A k : HolderOf(k)' = HolderOf(k)
      BY DEF HolderOf
    <2>2. ASSUME NEW j \in Jobs, ClaimLease(j, FALSE) PROVE HoldsLive'
      <3>1. pc[j] = "claim" /\ \A k \in Jobs \ {j} : pc'[k] = pc[k] /\ outcome'[k] = outcome[k]
        BY <2>2 DEF ClaimLease, Goto, JobTypes
      <3>2. \A k \in InLease' : k = j \/ (k \in InLease /\ k # j)
        BY <3>1 DEF InLease
      <3>3. CASE ClaimScrapeLease(HolderOf(j), FALSE)
        <4>1. ~leaseExpired' /\ leaseHolder' = HolderOf(j)
          BY <3>3 DEF ClaimScrapeLease
        <4>2. \A k \in InLease : k # j => FALSE
          BY <3>3, HoldersDiffer DEF ClaimScrapeLease, HoldsLive, InLease
        <4> QED
          BY <2>1, <3>2, <4>1, <4>2 DEF HoldsLive
      <3>4. CASE UNCHANGED <<vars, overtaken>> /\ Goto(j, "done")
        BY <2>1, <3>1, <3>2, <3>4 DEF HoldsLive, InLease, Goto, JobTypes, vars, leaseVars
      <3> QED
        BY <2>2, <3>3, <3>4 DEF ClaimLease
    <2>3. ASSUME NEW j \in Jobs, OtherStep(j)
          PROVE  HoldsLive'
      <3>1. /\ InLease' \subseteq InLease
            /\ Release(j) \/ UNCHANGED leaseVars
            /\ Release(j) => j \in InLease /\ j \notin InLease'
        BY <2>3, NobodyEnters
      <3>2. CASE UNCHANGED leaseVars
        BY <2>1, <3>1, <3>2 DEF HoldsLive, leaseVars
      <3>3. CASE Release(j)
        <4>1. \A k \in InLease : k = j
          BY <3>1, <3>3, HoldersDiffer DEF HoldsLive, InLease
        <4> QED
          BY <3>1, <3>3, <4>1 DEF HoldsLive
      <3> QED
        BY <3>1, <3>2, <3>3
    <2>4. CASE LeaseTimesOut
      <3>1. InLease = {} /\ InLease' = InLease
        BY <2>4 DEF LeaseTimesOut, HoldsLive, InLease, jobVars
      <3> QED
        BY <3>1 DEF HoldsLive
    <2>5. CASE UNCHANGED allVars
      BY <2>5 DEF HoldsLive, InLease, HolderOf, allVars, jobVars, vars, leaseVars
    <2> QED
      BY <2>2, <2>3, <2>4, <2>5, ClaimOrOther DEF JobsNext
  <1> DEFINE PublishersLive ==
        pointers' # pointers =>
            \E j \in Jobs : /\ pc[j] = "publish" /\ pc'[j] # "publish"
                            /\ leaseHolder = HolderOf(j) /\ ~leaseExpired
  <1>3. JobTypes /\ TypeOK /\ StoreInv /\ Courses /\ HoldsLive /\ [JobsNext]_allVars =>
          [PublishersLive]_allVars
    <2> SUFFICES ASSUME JobTypes, TypeOK, StoreInv, Courses, HoldsLive, JobsNext,
                        pointers' # pointers
                 PROVE  PublishersLive
      BY DEF allVars, vars, dataVars
    <2>1. ~LeaseTimesOut
      BY DEF LeaseTimesOut, LeaseExpires, dataVars
    <2>2. PICK j \in Jobs : JobStep(j) \/ Killed(j)
      BY <2>1 DEF JobsNext
    <2>3. PublishValidated(j)
      BY <2>2, OnlyPublishMovesPointers
    <2>4. pc[j] = "publish" /\ pc'[j] # "publish"
      BY <2>3 DEF PublishValidated, Goto, OnError, JobTypes
    <2>5. j \in InLease
      <3>1. outcome[j] = None /\ None # "lease_held"
        BY <2>4, JobsAssumption DEF Courses, OnCourse, Working, Outcomes
      <3> QED
        BY <2>4, <3>1 DEF InLease
    <2> QED
      BY <2>4, <2>5 DEF HoldsLive
  <1> QED
    BY <1>1, <1>2, <1>3, JobTypesInvariance, CoursesInvariance, JobsUseTheStore, TypeCorrect,
       Invariance, PTL DEF JobsSpec, PublishersHoldLease
=============================================================================
