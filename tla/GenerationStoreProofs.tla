------------------------ MODULE GenerationStoreProofs ------------------------
(***************************************************************************)
(* What holds of the Generation Store for any number of generations,       *)
(* routes, versions and lease holders and any set of exports.              *)
(***************************************************************************)
EXTENDS GenerationStore, TLAPS

(* The inductive invariant: what each part of the store's state says of    *)
(* the others between two transactions.                                    *)

\* A generation that is not stored has no membership rows.
AbsentIsEmpty == \A g \in Generations : status[g] = "absent" => members[g] = {}

\* Only validate makes a generation publishable, and only when it has versions.
ValidatedHasMembers ==
    \A g \in Generations : status[g] \in {"validated", "published"} => members[g] # {}

\* The foreign key of route_versions.
RoutesBehindVersions ==
    \A v \in Versions : versionRoute[v] # None => routes[versionRoute[v]] # None

StoreInv ==
    /\ AbsentIsEmpty
    /\ ValidatedHasMembers
    /\ RoutesBehindVersions
    /\ VersionsOwned
    /\ PublishedIffPointed
    /\ RoutesShowCurrent

-----------------------------------------------------------------------------
(* Type correctness *)

\* The tables left by a deletion have the tables' types.
LEMMA DeletionTypes ==
    ASSUME TypeOK, NEW D
    PROVE  /\ StatusWithout(D) \in [Generations -> Statuses]
           /\ PointersWithout(D) \in [Roles -> Generations \cup {None}]
           /\ MembersWithout(D) \in [Generations -> SUBSET Versions]
           /\ SnapshotsWithout(D) \in [Generations -> [Routes -> Attributes \cup {None}]]
           /\ VersionsWithout(D) \in [Versions -> Routes \cup {None}]
           /\ RoutesWithout(D) \in [Routes -> Attributes \cup {None}]
  BY DEF TypeOK, StatusWithout, PointersWithout, MembersWithout, SnapshotsWithout,
         VersionsWithout, RoutesWithout, NoSnapshot, Statuses

\* Deleting generations keeps the tables' types.
LEMMA DeleteTypeOK ==
    ASSUME TypeOK, NEW D, DeleteGenerations(D),
           leaseHolder' \in Holders \cup {None}, leaseExpired' \in BOOLEAN
    PROVE  TypeOK'
  BY DeletionTypes DEF DeleteGenerations, TypeOK

\* Every step of the store keeps the tables' types.
LEMMA TypeStep == TypeOK /\ [Next]_vars => TypeOK'
  <1> SUFFICES ASSUME TypeOK, [Next]_vars PROVE TypeOK'
    OBVIOUS
  <1>1. ASSUME NEW h \in Holders, NEW force \in BOOLEAN, ClaimScrapeLease(h, force)
        PROVE  TypeOK'
    <2>1. leaseHolder' \in Holders \cup {None} /\ leaseExpired' \in BOOLEAN
      BY <1>1 DEF ClaimScrapeLease
    <2>2. CASE DeleteGenerations(Orphans(pointers, None))
      BY <2>1, <2>2, DeleteTypeOK
    <2>3. CASE UNCHANGED dataVars
      BY <2>1, <2>3 DEF TypeOK, dataVars
    <2> QED
      BY <1>1, <2>2, <2>3 DEF ClaimScrapeLease
  <1>2. ASSUME NEW h \in Holders, ReleaseScrapeLease(h)
        PROVE  TypeOK'
    BY <1>2 DEF ReleaseScrapeLease, TypeOK, dataVars
  <1>3. ASSUME LeaseExpires
        PROVE  TypeOK'
    BY <1>3 DEF LeaseExpires, TypeOK, dataVars
  <1>4. ASSUME NEW g \in Generations, NEW export \in Exports, Stage(g, export)
        PROVE  TypeOK'
    <2>1. export \in ExportType
      BY StoreAssumption
    <2>2. /\ status' \in [Generations -> Statuses]
          /\ members' \in [Generations -> SUBSET Versions]
          /\ snapshots' \in [Generations -> [Routes -> Attributes \cup {None}]]
      BY <1>4, <2>1 DEF Stage, TypeOK, Statuses, VersionsOf, ExportType
    <2>3. /\ versionRoute' \in [Versions -> Routes \cup {None}]
          /\ routes' \in [Routes -> Attributes \cup {None}]
      BY <1>4, <2>1 DEF Stage, RoutesStaged, TypeOK, ExportType
    <2> QED
      BY <1>4, <2>2, <2>3 DEF Stage, TypeOK, leaseVars
  <1>5. ASSUME NEW g \in Generations, Validate(g)
        PROVE  TypeOK'
    BY <1>5 DEF Validate, TypeOK, Statuses, leaseVars
  <1>6. ASSUME NEW g \in Generations, DiscardStaging(g)
        PROVE  TypeOK'
    BY <1>6, DeleteTypeOK DEF DiscardStaging, TypeOK, leaseVars
  <1>7. ASSUME NEW g \in Generations, Publish(g)
        PROVE  TypeOK'
    <2>1. PointersAfter(g) \in [Roles -> Generations \cup {None}]
      BY DeletionTypes DEF PointersAfter, TypeOK, Roles
    <2>2. StatusAfter(g) \in [Generations -> Statuses]
      BY DeletionTypes DEF StatusAfter, Statuses
    <2>3. RoutesAfter(g) \in [Routes -> Attributes \cup {None}]
      BY DeletionTypes DEF RoutesAfter, TypeOK
    <2> QED
      BY <1>7, <2>1, <2>2, <2>3, DeletionTypes DEF Publish, TypeOK, leaseVars
  <1>8. CASE UNCHANGED vars
    BY <1>8 DEF TypeOK, vars, dataVars, leaseVars
  <1> QED
    BY <1>1, <1>2, <1>3, <1>4, <1>5, <1>6, <1>7, <1>8 DEF Next

\* The type invariant of the store (TypeOK), of every transaction sequence.
THEOREM TypeCorrect == Spec => []TypeOK
  <1>1. Init => TypeOK
    BY DEF Init, TypeOK, NoSnapshot, Statuses
  <1> QED
    BY <1>1, TypeStep, PTL DEF Spec

-----------------------------------------------------------------------------
(* The inductive invariant *)

\* A deletion leaves the versions of the generations it keeps, and the routes
\* of those versions.
LEMMA DeletionKeeps ==
    ASSUME TypeOK, VersionsOwned, NEW D, NEW h \in Generations, h \notin D,
           NEW v \in members[h]
    PROVE  /\ v \in Versions
           /\ versionRoute[v] \in Routes
           /\ VersionsWithout(D)[v] = versionRoute[v]
           /\ RoutesWithout(D)[versionRoute[v]] = routes[versionRoute[v]]
  <1>1. v \in Versions /\ versionRoute[v] \in Routes
    BY DEF TypeOK, VersionsOwned
  <1>2. v \notin DroppedVersions(D)
    BY DEF DroppedVersions
  <1>3. versionRoute[v] \notin DroppedRoutes(D)
    BY <1>1, <1>2 DEF DroppedRoutes
  <1> QED
    BY <1>1, <1>2, <1>3 DEF VersionsWithout, RoutesWithout

\* A deletion takes the versions of the generations it deletes.
LEMMA DeletionTakes ==
    ASSUME TypeOK, VersionsOwned, NEW D, NEW v \in Versions
    PROVE  VersionsWithout(D)[v] # None <=>
             \E h \in Generations : h \notin D /\ v \in members[h]
  BY DEF DroppedVersions, VersionsWithout, TypeOK, VersionsOwned

\* The part of the invariant about rows, over the tables a deletion leaves.
LEMMA DeletionRows ==
    ASSUME TypeOK, VersionsOwned, RoutesBehindVersions, NEW D
    PROVE  \A v \in Versions :
              /\ VersionsWithout(D)[v] # None <=>
                    \E h \in Generations : v \in MembersWithout(D)[h]
              /\ \A h, k \in Generations :
                    v \in MembersWithout(D)[h] \cap MembersWithout(D)[k] => h = k
              /\ VersionsWithout(D)[v] # None =>
                    RoutesWithout(D)[VersionsWithout(D)[v]] # None
  <1> TAKE v \in Versions
  <1>1. VersionsWithout(D)[v] # None <=> \E h \in Generations : v \in MembersWithout(D)[h]
    BY DeletionTakes DEF MembersWithout
  <1>2. \A h, k \in Generations :
          v \in MembersWithout(D)[h] \cap MembersWithout(D)[k] => h = k
    BY DEF MembersWithout, VersionsOwned
  <1>3. VersionsWithout(D)[v] # None => RoutesWithout(D)[VersionsWithout(D)[v]] # None
    <2> SUFFICES ASSUME VersionsWithout(D)[v] # None
                 PROVE  RoutesWithout(D)[VersionsWithout(D)[v]] # None
      OBVIOUS
    <2>1. PICK h \in Generations : h \notin D /\ v \in members[h]
      BY DeletionTakes
    <2> QED
      BY <2>1, DeletionKeeps DEF RoutesBehindVersions, TypeOK
  <1> QED
    BY <1>1, <1>2, <1>3

\* Discarding unpublished generations preserves the invariant.
LEMMA DeleteInv ==
    ASSUME TypeOK, StoreInv, NEW D, DeleteGenerations(D),
           \A g \in D : g \in Generations /\ status[g] \in {"staging", "validated"}
    PROVE  StoreInv'
  <1> USE DEF StoreInv
  <1>1. \A g \in D : g \notin {Current, Previous}
    BY StoreAssumption DEF PublishedIffPointed
  <1>2. UNCHANGED pointers
    BY <1>1 DEF DeleteGenerations, PointersWithout, TypeOK, Current, Previous, Roles
  <1>3. AbsentIsEmpty' /\ ValidatedHasMembers'
    BY DEF DeleteGenerations, AbsentIsEmpty, ValidatedHasMembers, StatusWithout, MembersWithout
  <1>4. RoutesBehindVersions' /\ VersionsOwned'
    BY DeletionRows DEF DeleteGenerations, RoutesBehindVersions, VersionsOwned
  <1>5. PublishedIffPointed'
    BY <1>1, <1>2 DEF DeleteGenerations, PublishedIffPointed, StatusWithout, Current, Previous
  <1>6. RoutesShowCurrent'
    <2> SUFFICES ASSUME Current # None, NEW v \in members'[Current],
                        snapshots'[Current][versionRoute'[v]] # None
                 PROVE  routes'[versionRoute'[v]] = snapshots'[Current][versionRoute'[v]]
      BY <1>2 DEF RoutesShowCurrent, Visible, Current
    <2>1. Current \in Generations /\ Current \notin D
      BY <1>1 DEF TypeOK, Roles, Current
    <2>2. members'[Current] = members[Current] /\ snapshots'[Current] = snapshots[Current]
      BY <2>1 DEF DeleteGenerations, MembersWithout, SnapshotsWithout
    <2>3. versionRoute'[v] = versionRoute[v]
          /\ routes'[versionRoute[v]] = routes[versionRoute[v]]
      BY <2>1, <2>2, DeletionKeeps DEF DeleteGenerations
    <2> QED
      BY <2>2, <2>3 DEF RoutesShowCurrent, Visible
  <1> QED
    BY <1>3, <1>4, <1>5, <1>6

\* Staging an export preserves the invariant.
LEMMA StageInv ==
    ASSUME TypeOK, StoreInv, NEW g \in Generations, NEW export \in Exports, Stage(g, export)
    PROVE  StoreInv'
  <1> USE DEF StoreInv
  <1> DEFINE new == VersionsOf(export)
  <1>1. export \in ExportType
    BY StoreAssumption
  <1>2. status[g] = "absent" /\ members[g] = {} /\ g \notin {Current, Previous}
    BY DEF Stage, CanStage, AbsentIsEmpty, PublishedIffPointed
  <1>3. /\ status' = [status EXCEPT ![g] = "staging"]
        /\ members' = [members EXCEPT ![g] = new]
        /\ snapshots' = [snapshots EXCEPT ![g] = export.attributes]
        /\ UNCHANGED pointers
    BY DEF Stage
  <1>4. \A v \in Versions :
          /\ v \in new => versionRoute[v] = None /\ versionRoute'[v] = export.versions[v]
                          /\ export.versions[v] \in Routes
          /\ v \notin new => versionRoute'[v] = versionRoute[v]
    BY <1>1 DEF Stage, CanStage, VersionsOf, ExportType
  <1>5. \A r \in Routes : routes[r] # None => routes'[r] = routes[r]
    BY DEF Stage, RoutesStaged
  <1>6. AbsentIsEmpty' /\ ValidatedHasMembers'
    BY <1>3 DEF AbsentIsEmpty, ValidatedHasMembers, TypeOK
  <1>7. RoutesBehindVersions'
    <2> SUFFICES ASSUME NEW v \in Versions, versionRoute'[v] # None
                 PROVE  routes'[versionRoute'[v]] # None
      BY DEF RoutesBehindVersions
    <2>1. CASE v \in new
      BY <2>1, <1>4 DEF Stage, RoutesStaged, CanStage
    <2>2. CASE v \notin new
      BY <2>2, <1>4, <1>5 DEF RoutesBehindVersions, TypeOK
    <2> QED
      BY <2>1, <2>2
  <1>8. VersionsOwned'
    <2> SUFFICES ASSUME NEW v \in Versions
                 PROVE  /\ versionRoute'[v] # None <=> \E h \in Generations : v \in members'[h]
                        /\ \A h, k \in Generations : v \in members'[h] \cap members'[k] => h = k
      BY DEF VersionsOwned
    <2>1. \A h \in Generations : v \in members'[h] <=> (h = g /\ v \in new) \/ (h # g /\ v \in members[h])
      BY <1>3 DEF TypeOK
    <2>2. CASE v \in new
      <3>1. \A h \in Generations : v \notin members[h]
        BY <2>2, <1>4 DEF VersionsOwned
      <3>2. versionRoute'[v] # None
        BY <2>2, <1>4, StoreAssumption
      <3> QED
        BY <2>1, <2>2, <3>1, <3>2
    <2>3. CASE v \notin new
      BY <2>1, <2>3, <1>2, <1>4 DEF VersionsOwned
    <2> QED
      BY <2>2, <2>3
  <1>9. PublishedIffPointed'
    BY <1>2, <1>3 DEF PublishedIffPointed, TypeOK, Current, Previous
  <1>10. RoutesShowCurrent'
    <2> SUFFICES ASSUME Current # None, NEW v \in members'[Current],
                        snapshots'[Current][versionRoute'[v]] # None
                 PROVE  routes'[versionRoute'[v]] = snapshots'[Current][versionRoute'[v]]
      BY <1>3 DEF RoutesShowCurrent, Visible, Current
    <2>1. Current \in Generations /\ Current # g
      BY <1>2 DEF TypeOK, Roles, Current
    <2>2. members'[Current] = members[Current] /\ snapshots'[Current] = snapshots[Current]
      BY <2>1, <1>3 DEF TypeOK
    <2>3. v \in Versions /\ versionRoute[v] \in Routes
      BY <2>1, <2>2 DEF TypeOK, VersionsOwned
    <2>4. versionRoute'[v] = versionRoute[v]
      BY <2>3, <1>4, StoreAssumption
    <2>5. routes'[versionRoute[v]] = routes[versionRoute[v]]
      BY <2>3, <1>5, StoreAssumption DEF RoutesBehindVersions
    <2> QED
      BY <2>2, <2>4, <2>5 DEF RoutesShowCurrent, Visible
  <1> QED
    BY <1>6, <1>7, <1>8, <1>9, <1>10
\* What a publication of g does to the pointers and to the generations: the
\* ones it deletes, the old and the new current, and absent ones are all.
LEMMA PublishFacts ==
    ASSUME TypeOK, StoreInv, NEW g \in Generations, Publish(g)
    PROVE  /\ Replaced(g) \subseteq Generations
           /\ Current \notin Replaced(g) /\ g \notin Replaced(g)
           /\ g \notin {Current, Previous}
           /\ pointers'["current"] = g /\ pointers'["previous"] = Current
           /\ \A h \in Generations :
                 h \in Replaced(g) \/ h = Current \/ h = g \/ status[h] = "absent"
  <1> USE DEF StoreInv, Current, Previous
  <1>1. status[g] = "validated" /\ g \notin {Current, Previous}
    BY DEF Publish, CanPublish, PublishedIffPointed
  <1>2. Superseded \subseteq Generations /\ Current \notin Superseded /\ g \notin Superseded
    BY <1>1, StoreAssumption DEF Superseded, TypeOK, Roles, PublishedIffPointed
  <1>3. Superseded = {Previous} \ {None}
    BY DEF Superseded, PublishedIffPointed
  <1>4. /\ PointersWithout(Superseded)["current"] = Current
        /\ PointersWithout(Superseded)["previous"] = None
    BY <1>2, <1>3 DEF PointersWithout, Roles
  <1>5. \A h \in Generations :
          h \in Orphans(PointersWithout(Superseded), g) <=>
             status[h] \in {"staging", "validated"} /\ h # Current /\ h # g
    BY <1>4, StoreAssumption DEF Orphans, Roles
  <1>6. Replaced(g) \subseteq Generations /\ Current \notin Replaced(g) /\ g \notin Replaced(g)
    BY <1>2, <1>5 DEF Replaced, Orphans
  <1>7. \A h \in Generations :
          h \in Replaced(g) \/ h = Current \/ h = g \/ status[h] = "absent"
    <2> TAKE h \in Generations
    <2>1. CASE status[h] \in {"staging", "validated"}
      BY <2>1, <1>5 DEF Replaced
    <2>2. CASE status[h] = "published"
      BY <2>2, <1>3, StoreAssumption DEF Replaced, PublishedIffPointed
    <2> QED
      BY <2>1, <2>2 DEF TypeOK, Statuses
  <1>8. pointers'["current"] = g /\ pointers'["previous"] = Current
    <2>1. pointers' = PointersAfter(g)
      BY DEF Publish
    <2>2. PointersWithout(Replaced(g))["previous"] = None
      BY <1>3 DEF PointersWithout, Replaced, Roles
    <2> QED
      BY <2>1, <2>2, <1>1 DEF PointersAfter, PointersWithout, Roles
  <1> QED
    BY <1>1, <1>6, <1>7, <1>8

\* Where a route row is still there after a publication's deletions, only
\* the published generation's attributes may replace its own.
LEMMA RoutesAfterPresent ==
    ASSUME TypeOK, NEW g \in Generations, NEW r \in Routes
    PROVE  RoutesWithout(Replaced(g))[r] # None => RoutesAfter(g)[r] # None
  BY DEF RoutesAfter

\* A publication preserves the invariant.
LEMMA PublishInv ==
    ASSUME TypeOK, StoreInv, NEW g \in Generations, Publish(g)
    PROVE  StoreInv'
  <1> USE DEF StoreInv
  <1> DEFINE D == Replaced(g)
  <1> HIDE DEF D
  <1>1. /\ D \subseteq Generations /\ Current \notin D /\ g \notin D
        /\ g \notin {Current, Previous}
        /\ pointers'["current"] = g /\ pointers'["previous"] = Current
        /\ \A h \in Generations : h \in D \/ h = Current \/ h = g \/ status[h] = "absent"
    BY PublishFacts DEF D
  <1>2. /\ status' = StatusAfter(g)
        /\ members' = MembersWithout(D)
        /\ snapshots' = SnapshotsWithout(D)
        /\ versionRoute' = VersionsWithout(D)
        /\ routes' = RoutesAfter(g)
    BY DEF Publish, D
  <1>3. \A h \in Generations : status'[h] = IF h \in {g, Current} THEN "published" ELSE "absent"
    BY <1>1, <1>2 DEF StatusAfter, StatusWithout, D, Current
  <1>4. \A h \in Generations : members'[h] = IF h \in D THEN {} ELSE members[h]
    BY <1>2 DEF MembersWithout
  <1>5. members[g] # {} /\ (Current # None => members[Current] # {})
    BY DEF Publish, CanPublish, ValidatedHasMembers, PublishedIffPointed, TypeOK, Current, Roles
  <1>6. AbsentIsEmpty'
    BY <1>1, <1>3, <1>4 DEF AbsentIsEmpty
  <1>7. ValidatedHasMembers'
    BY <1>1, <1>3, <1>4, <1>5, StoreAssumption DEF ValidatedHasMembers
  <1>8. RoutesBehindVersions'
    <2> SUFFICES ASSUME NEW v \in Versions, versionRoute'[v] # None
                 PROVE  routes'[versionRoute'[v]] # None
      BY DEF RoutesBehindVersions
    <2>1. RoutesWithout(D)[versionRoute'[v]] # None
      BY <1>2, DeletionRows
    <2>2. versionRoute'[v] \in Routes
      BY <1>2, DeletionTypes
    <2> QED
      BY <2>1, <2>2, <1>2, RoutesAfterPresent DEF D
  <1>9. VersionsOwned'
    BY <1>2, DeletionRows DEF VersionsOwned
  <1>10. PublishedIffPointed'
    BY <1>1, <1>3, StoreAssumption DEF PublishedIffPointed, Current, Previous
  <1>11. RoutesShowCurrent'
    <2> SUFFICES ASSUME NEW v \in members'[g], snapshots'[g][versionRoute'[v]] # None
                 PROVE  routes'[versionRoute'[v]] = snapshots'[g][versionRoute'[v]]
      BY <1>1, StoreAssumption DEF RoutesShowCurrent, Visible, Current
    <2>1. v \in members[g] /\ snapshots'[g] = snapshots[g]
      BY <1>1, <1>2, <1>4 DEF SnapshotsWithout
    <2>2. /\ v \in Versions /\ versionRoute[v] \in Routes
          /\ versionRoute'[v] = versionRoute[v]
          /\ RoutesWithout(D)[versionRoute[v]] = routes[versionRoute[v]]
      BY <2>1, <1>1, <1>2, DeletionKeeps
    <2>3. RoutesWithout(D)[versionRoute[v]] # None
      BY <2>2, StoreAssumption DEF RoutesBehindVersions
    <2> QED
      BY <2>1, <2>2, <2>3, <1>2 DEF RoutesAfter, D
  <1> QED
    BY <1>6, <1>7, <1>8, <1>9, <1>10, <1>11

\* Every step of the store preserves the invariant.
LEMMA StoreInvStep == TypeOK /\ StoreInv /\ [Next]_vars => StoreInv'
  <1> SUFFICES ASSUME TypeOK, StoreInv, [Next]_vars PROVE StoreInv'
    OBVIOUS
  <1>1. ASSUME UNCHANGED dataVars PROVE StoreInv'
    BY <1>1 DEF dataVars, StoreInv, AbsentIsEmpty, ValidatedHasMembers, RoutesBehindVersions,
                VersionsOwned, PublishedIffPointed, RoutesShowCurrent, Visible, Current, Previous
  <1>2. ASSUME NEW h \in Holders, NEW force \in BOOLEAN, ClaimScrapeLease(h, force)
        PROVE  StoreInv'
    <2>1. CASE DeleteGenerations(Orphans(pointers, None))
      BY <2>1, DeleteInv DEF Orphans
    <2> QED
      BY <1>1, <1>2, <2>1 DEF ClaimScrapeLease
  <1>3. ASSUME NEW g \in Generations, NEW export \in Exports, Stage(g, export)
        PROVE  StoreInv'
    BY <1>3, StageInv
  <1>4. ASSUME NEW g \in Generations, Validate(g)
        PROVE  StoreInv'
    <2>1. /\ status[g] = "staging" /\ members[g] # {}
          /\ status' = [status EXCEPT ![g] = "validated"]
          /\ UNCHANGED <<pointers, members, snapshots, versionRoute, routes>>
      BY <1>4 DEF Validate, Complete
    <2>2. AbsentIsEmpty' /\ ValidatedHasMembers'
      BY <2>1 DEF StoreInv, AbsentIsEmpty, ValidatedHasMembers, TypeOK
    <2>3. RoutesBehindVersions' /\ VersionsOwned' /\ RoutesShowCurrent'
      BY <2>1 DEF StoreInv, RoutesBehindVersions, VersionsOwned, RoutesShowCurrent, Visible, Current
    <2>4. PublishedIffPointed'
      BY <2>1 DEF StoreInv, PublishedIffPointed, TypeOK, Current, Previous
    <2> QED
      BY <2>2, <2>3, <2>4 DEF StoreInv
  <1>5. ASSUME NEW g \in Generations, DiscardStaging(g)
        PROVE  StoreInv'
    BY <1>5, DeleteInv DEF DiscardStaging, CanDiscard
  <1>6. ASSUME NEW g \in Generations, Publish(g)
        PROVE  StoreInv'
    BY <1>6, PublishInv
  <1> QED
    BY <1>1, <1>2, <1>3, <1>4, <1>5, <1>6 DEF Next, ReleaseScrapeLease, LeaseExpires, vars

\* StoreInv holds of every state the store can reach.
THEOREM Invariance == Spec => []StoreInv
  <1>1. Init => StoreInv
    <2> SUFFICES ASSUME Init PROVE StoreInv
      OBVIOUS
    <2>1. Current = None /\ Previous = None
      BY DEF Init, Current, Previous, Roles
    <2>2. AbsentIsEmpty /\ ValidatedHasMembers
      BY DEF Init, AbsentIsEmpty, ValidatedHasMembers
    <2>3. RoutesBehindVersions /\ VersionsOwned
      BY DEF Init, RoutesBehindVersions, VersionsOwned
    <2>4. PublishedIffPointed /\ RoutesShowCurrent
      BY <2>1, StoreAssumption DEF Init, PublishedIffPointed, RoutesShowCurrent, Visible
    <2> QED
      BY <2>2, <2>3, <2>4 DEF StoreInv
  <1> QED
    BY <1>1, StoreInvStep, TypeCorrect, PTL DEF Spec

-----------------------------------------------------------------------------
(* The store's guarantees *)

\* ADR 0007's recovery invariant: whatever claims, stages, discards and
\* publications are interleaved, a generation is published exactly while a
\* pointer keeps it (PublishedIffPointed).
THEOREM NoThirdGeneration == Spec => []PublishedIffPointed
  <1>1. StoreInv => PublishedIffPointed
    BY DEF StoreInv
  <1> QED
    BY <1>1, Invariance, PTL

\* Shared route rows always carry the attributes of the current generation
\* (RoutesShowCurrent), although newer exports are staged over the same rows.
THEOREM AttributesShowCurrent == Spec => []RoutesShowCurrent
  <1>1. StoreInv => RoutesShowCurrent
    BY DEF StoreInv
  <1> QED
    BY <1>1, Invariance, PTL

\* Every version row belongs to exactly one generation (VersionsOwned): the
\* rows a deletion may take are never another generation's.
THEOREM VersionsHaveOneOwner == Spec => []VersionsOwned
  <1>1. StoreInv => VersionsOwned
    BY DEF StoreInv
  <1> QED
    BY <1>1, Invariance, PTL

\* The rows behind current and previous are never deleted (PointedStayWhole).
THEOREM PointedGenerationsStayWhole == Spec => []PointedStayWhole
  <1>1. TypeOK /\ StoreInv => PointedStayWhole
    <2> SUFFICES ASSUME TypeOK, StoreInv, NEW g \in {Current, Previous} \ {None}
                 PROVE  Complete(g) /\ \A v \in members[g] : routes[versionRoute[v]] # None
      BY DEF PointedStayWhole
    <2>1. g \in Generations /\ members[g] # {}
      BY DEF StoreInv, TypeOK, Roles, Current, Previous, PublishedIffPointed, ValidatedHasMembers
    <2>2. \A v \in members[g] : v \in Versions /\ versionRoute[v] # None
      BY <2>1 DEF StoreInv, TypeOK, VersionsOwned
    <2> QED
      BY <2>1, <2>2 DEF StoreInv, RoutesBehindVersions, Complete
  <1> QED
    BY <1>1, Invariance, TypeCorrect, PTL

\* Deleting generations that are not published moves no pointer.
LEMMA DeletionMovesNoPointer ==
    ASSUME TypeOK, PublishedIffPointed, NEW D, DeleteGenerations(D),
           \A g \in D : g \in Generations /\ status[g] \in {"staging", "validated"}
    PROVE  pointers' = pointers
  <1>1. \A g \in D : g \notin {Current, Previous}
    BY DEF PublishedIffPointed
  <1> QED
    BY <1>1 DEF DeleteGenerations, PointersWithout, TypeOK, Current, Previous, Roles

\* Only a publication moves a pointer, it demotes exactly the current it found
\* and leaves no third generation (PublicationLeavesTwo).
THEOREM PublicationsLeaveTwo == Spec => PublicationLeavesTwo
  <1> DEFINE TwoLeft ==
        pointers' # pointers =>
          /\ pointers'["previous"] = Current
          /\ \A g \in Generations :
                g \notin {Current, pointers'["current"]} => status'[g] = "absent"
  <1>1. TypeOK /\ StoreInv /\ [Next]_vars => [TwoLeft]_vars
    <2> SUFFICES ASSUME TypeOK, StoreInv, [Next]_vars, pointers' # pointers PROVE TwoLeft
      OBVIOUS
    <2>1. ASSUME NEW D, DeleteGenerations(D),
                 \A g \in D : g \in Generations /\ status[g] \in {"staging", "validated"}
          PROVE  FALSE
      BY <2>1, DeletionMovesNoPointer DEF StoreInv
    <2>2. ASSUME NEW g \in Generations, Publish(g)
          PROVE  TwoLeft
      <3>1. /\ pointers'["current"] = g /\ pointers'["previous"] = Current
            /\ \A h \in Generations :
                  h \in Replaced(g) \/ h = Current \/ h = g \/ status[h] = "absent"
        BY <2>2, PublishFacts
      <3>2. status' = StatusAfter(g)
        BY <2>2 DEF Publish
      <3> QED
        BY <3>1, <3>2 DEF StatusAfter, StatusWithout, Current
    <2>3. \A h \in Holders, force \in BOOLEAN : ~ClaimScrapeLease(h, force)
      BY <2>1 DEF ClaimScrapeLease, Orphans, dataVars
    <2>4. \A g \in Generations : ~DiscardStaging(g)
      BY <2>1 DEF DiscardStaging, CanDiscard
    <2> QED
      BY <2>2, <2>3, <2>4 DEF Next, ReleaseScrapeLease, LeaseExpires, Stage, Validate, vars, dataVars
  <1> QED
    BY <1>1, Invariance, TypeCorrect, PTL DEF Spec, PublicationLeavesTwo

-----------------------------------------------------------------------------
(* The store implements atomic publication *)

\* The view depends only on the rows of the current generation's versions.
LEMMA ViewUnchanged ==
    ASSUME TypeOK, StoreInv, UNCHANGED pointers, Visible' = Visible,
           \A v \in Visible : versionRoute'[v] = versionRoute[v]
                              /\ routes'[versionRoute[v]] = routes[versionRoute[v]]
    PROVE  UNCHANGED <<Current, Previous, PassengerView>>
  <1>1. UNCHANGED <<Current, Previous>>
    BY DEF Current, Previous
  <1>2. PassengerView' = PassengerView
    BY DEF PassengerView
  <1> QED
    BY <1>1, <1>2

\* What a visible version is, whenever the invariant holds.
LEMMA VisibleRows ==
    ASSUME TypeOK, StoreInv, NEW v \in Visible
    PROVE  /\ Current \in Generations /\ v \in members[Current]
           /\ v \in Versions /\ versionRoute[v] \in Routes
           /\ routes[versionRoute[v]] \in Attributes
  <1>1. Current \in Generations /\ v \in members[Current]
    BY DEF Visible, TypeOK, Roles, Current
  <1>2. v \in Versions /\ versionRoute[v] # None
    BY <1>1 DEF TypeOK, StoreInv, VersionsOwned
  <1> QED
    BY <1>1, <1>2 DEF TypeOK, StoreInv, RoutesBehindVersions

\* Deleting unpublished generations is invisible.
LEMMA DeleteInvisible ==
    ASSUME TypeOK, StoreInv, NEW D, DeleteGenerations(D),
           \A g \in D : g \in Generations /\ status[g] \in {"staging", "validated"}
    PROVE  UNCHANGED <<Current, Previous, PassengerView>>
  <1>1. \A g \in D : g \notin {Current, Previous}
    BY DEF StoreInv, PublishedIffPointed
  <1>2. UNCHANGED pointers
    BY <1>1 DEF DeleteGenerations, PointersWithout, TypeOK, Current, Previous, Roles
  <1>3. Visible' = Visible
    BY <1>1, <1>2 DEF DeleteGenerations, MembersWithout, Visible, Current, TypeOK, Roles
  <1>4. \A v \in Visible : versionRoute'[v] = versionRoute[v]
                           /\ routes'[versionRoute[v]] = routes[versionRoute[v]]
    BY <1>1, VisibleRows, DeletionKeeps DEF DeleteGenerations, StoreInv
  <1> QED
    BY <1>2, <1>3, <1>4, ViewUnchanged

\* Staging is invisible.
LEMMA StageInvisible ==
    ASSUME TypeOK, StoreInv, NEW g \in Generations, NEW export \in Exports, Stage(g, export)
    PROVE  UNCHANGED <<Current, Previous, PassengerView>>
  <1>1. g # Current /\ UNCHANGED pointers
    BY DEF Stage, CanStage, StoreInv, PublishedIffPointed
  <1>2. Visible' = Visible
    BY <1>1 DEF Stage, Visible, Current, TypeOK, Roles
  <1>3. \A v \in Visible : versionRoute'[v] = versionRoute[v]
                           /\ routes'[versionRoute[v]] = routes[versionRoute[v]]
    <2> TAKE v \in Visible
    <2>1. v \in Versions /\ versionRoute[v] \in Routes /\ routes[versionRoute[v]] \in Attributes
      BY VisibleRows
    <2> QED
      BY <2>1, StoreAssumption DEF Stage, RoutesStaged, CanStage
  <1> QED
    BY <1>1, <1>2, <1>3, ViewUnchanged

\* A publication replaces the view in one step.
LEMMA PublishFlips ==
    ASSUME TypeOK, TypeOK', StoreInv, StoreInv', NEW g \in Generations, Publish(g)
    PROVE  Passengers!Publish(g)
  <1>1. /\ Current \notin Replaced(g) /\ g \notin Replaced(g) /\ g \notin {Current, Previous}
        /\ Current' = g /\ Previous' = Current
    BY PublishFacts DEF Current, Previous
  <1>2. g # None /\ Visible' = members'[g]
    BY <1>1, StoreAssumption DEF Visible
  <1>3. members'[g] = members[g] /\ members[g] # {}
    BY <1>1 DEF Publish, CanPublish, MembersWithout, StoreInv, ValidatedHasMembers
  <1>4. PassengerView' \subseteq Routes \X Versions \X Attributes
    <2>1. ASSUME NEW v \in Visible'
          PROVE  /\ v \in Versions /\ versionRoute'[v] \in Routes
                 /\ routes'[versionRoute'[v]] \in Attributes
      <3>1. v \in Versions /\ versionRoute'[v] # None
        BY <1>2, <2>1 DEF TypeOK, StoreInv, VersionsOwned
      <3> QED
        BY <3>1 DEF TypeOK, StoreInv, RoutesBehindVersions
    <2> QED
      BY <2>1 DEF PassengerView
  <1>5. PassengerView' # {}
    BY <1>2, <1>3 DEF PassengerView
  <1>6. Passengers!VersionsIn(PassengerView') = members[g]
    <2>1. PassengerView' = {<<versionRoute'[v], v, routes'[versionRoute'[v]]>> : v \in members[g]}
      BY <1>2, <1>3 DEF PassengerView
    <2>2. \A entry \in PassengerView' : entry[2] \in members[g]
      BY <2>1
    <2>3. ASSUME NEW v \in members[g]
          PROVE  \E entry \in PassengerView' : entry[2] = v
      <3> DEFINE row == <<versionRoute'[v], v, routes'[versionRoute'[v]]>>
      <3>1. row \in PassengerView'
        BY <2>1
      <3>2. row[2] = v
        OBVIOUS
      <3> QED
        BY <3>1, <3>2
    <2> QED
      BY <2>2, <2>3 DEF Passengers!VersionsIn
  <1>7. Passengers!VersionsIn(PassengerView) = Visible
    <2>1. \A entry \in PassengerView : entry[2] \in Visible
      BY DEF PassengerView
    <2>2. ASSUME NEW v \in Visible
          PROVE  \E entry \in PassengerView : entry[2] = v
      <3> DEFINE row == <<versionRoute[v], v, routes[versionRoute[v]]>>
      <3>1. row \in PassengerView
        BY DEF PassengerView
      <3>2. row[2] = v
        OBVIOUS
      <3> QED
        BY <3>1, <3>2
    <2> QED
      BY <2>1, <2>2 DEF Passengers!VersionsIn
  <1>8. members[g] \cap Visible = {}
    <2> SUFFICES ASSUME NEW v \in members[g], v \in Visible PROVE FALSE
      OBVIOUS
    <2>1. v \in Versions /\ Current \in Generations /\ v \in members[Current]
      BY VisibleRows
    <2> QED
      BY <2>1, <1>1 DEF StoreInv, VersionsOwned
  <1> QED
    BY <1>1, <1>4, <1>5, <1>6, <1>7, <1>8 DEF Passengers!Publish, Passengers!Views

\* The store implements Publication: every transaction is either one atomic
\* publication or invisible to passengers (ImplementsPublication).
THEOREM Refinement == Spec => ImplementsPublication
  <1>1. Init => Passengers!Init
    BY DEF Init, Passengers!Init, PassengerView, Visible, Current, Previous, Roles
  <1>2. TypeOK /\ TypeOK' /\ StoreInv /\ StoreInv' /\ [Next]_vars
          => [Passengers!Next]_<<Current, Previous, PassengerView>>
    <2> SUFFICES ASSUME TypeOK, TypeOK', StoreInv, StoreInv', [Next]_vars
                 PROVE  \/ \E g \in Generations : Passengers!Publish(g)
                        \/ UNCHANGED <<Current, Previous, PassengerView>>
      BY DEF Passengers!Next
    <2>1. ASSUME UNCHANGED dataVars
          PROVE  UNCHANGED <<Current, Previous, PassengerView>>
      BY <2>1 DEF dataVars, Current, Previous, PassengerView, Visible
    <2>2. ASSUME NEW h \in Holders, NEW force \in BOOLEAN, ClaimScrapeLease(h, force)
          PROVE  UNCHANGED <<Current, Previous, PassengerView>>
      BY <2>1, <2>2, DeleteInvisible DEF ClaimScrapeLease, Orphans
    <2>3. ASSUME NEW g \in Generations, NEW export \in Exports, Stage(g, export)
          PROVE  UNCHANGED <<Current, Previous, PassengerView>>
      BY <2>3, StageInvisible
    <2>4. ASSUME NEW g \in Generations, Validate(g)
          PROVE  UNCHANGED <<Current, Previous, PassengerView>>
      BY <2>4 DEF Validate, Current, Previous, PassengerView, Visible
    <2>5. ASSUME NEW g \in Generations, DiscardStaging(g)
          PROVE  UNCHANGED <<Current, Previous, PassengerView>>
      BY <2>5, DeleteInvisible DEF DiscardStaging, CanDiscard
    <2>6. ASSUME NEW g \in Generations, Publish(g)
          PROVE  Passengers!Publish(g)
      BY <2>6, PublishFlips
    <2> QED
      BY <2>1, <2>2, <2>3, <2>4, <2>5, <2>6 DEF Next, ReleaseScrapeLease, LeaseExpires, vars
  <1> QED
    BY <1>1, <1>2, Invariance, TypeCorrect, PTL
    DEF Spec, ImplementsPublication, Passengers!Spec, Passengers!publicationVars
=============================================================================
