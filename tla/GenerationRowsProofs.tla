------------------------ MODULE GenerationRowsProofs ------------------------
(***************************************************************************)
(* What holds of the Generation Store when every staged export is one that *)
(* canonical.py builds from a scrape: no transaction is refused by the     *)
(* foreign key of generation_routes, and no shared route row is left       *)
(* behind. A fixture's JSON may hold other exports, and then neither holds *)
(* (the run fixture_wedge).                                                *)
(***************************************************************************)
EXTENDS GenerationStoreProofs, FiniteSetTheorems, FunctionTheorems

\* snapshots_to_canonical_rows gives an export one row and one version for each
\* route that was scraped.
ScrapedOnly ==
    \A export \in Exports, r \in Routes :
        export.attributes[r] # None <=> \E v \in Versions : export.versions[v] = r

\* A generation holds the attributes of exactly the routes it has versions of.
RowsPaired == \A g \in Generations, r \in Routes : snapshots[g][r] # None <=> HasVersion(g, r)

Stored == {g \in Generations : status[g] # "absent"}

RowsInv == RowsPaired /\ NoStrayRoutes /\ IsFiniteSet(Stored)

-----------------------------------------------------------------------------
(* Deletions *)

\* Finitely many generations can be deleted one at a time, any of them first.
LEMMA OrderExists ==
    ASSUME NEW D, IsFiniteSet(D), NEW first
    PROVE  DeletionOrders(D, first) # {}
  <1> DEFINE n == Cardinality(D)
  <1>1. n \in Nat /\ ExistsBijection(1..n, D)
    BY FS_CardinalityType
  <1>2. PICK f : f \in Bijection(1..n, D)
    BY <1>1 DEF ExistsBijection
  <1> DEFINE nth == Inverse(f, 1..n, D)
  <1>3. nth \in Bijection(D, 1..n)
    BY <1>2, Fun_BijInverse
  <1> HIDE DEF nth, n
  <1>4. nth \in [D -> 1..n] /\ \A g, h \in D : nth[g] = nth[h] => g = h
    BY <1>3, Fun_BijectionProperties
  <1> DEFINE rank == [g \in D |-> IF nth[g] = 1 THEN nth[first]
                                  ELSE IF g = first THEN 1 ELSE nth[g]]
  <1>5. CASE first \in D
    <2>1. nth[first] \in 1..n /\ 1 \in 1..n
      BY <1>1, <1>4, <1>5 DEF n
    <2>2. rank \in [D -> 1..n] /\ rank[first] = 1
      BY <1>4, <1>5, <2>1
    <2>3. ASSUME NEW g \in D, NEW h \in D, rank[g] = rank[h] PROVE g = h
      BY <1>4, <1>5, <2>1, <2>3
    <2> HIDE DEF rank
    <2> QED
      BY <2>2, <2>3 DEF DeletionOrders, n
  <1>6. CASE first \notin D
    BY <1>4, <1>6 DEF DeletionOrders, n
  <1> QED
    BY <1>5, <1>6

\* The foreign key blocks nothing while rows are paired.
LEMMA NothingBlocks ==
    ASSUME RowsPaired, NEW D, IsFiniteSet(D), NEW first
    PROVE  CanDelete(D, first)
  <1>1. PICK rank : rank \in DeletionOrders(D, first)
    BY OrderExists
  <1>2. ~ForeignKeyBlocks(D, rank)
    BY Zenon DEF ForeignKeyBlocks, RowsPaired
  <1> QED
    BY <1>1, <1>2 DEF CanDelete

\* The rows a deletion leaves are still paired.
LEMMA DeletionPairs ==
    ASSUME TypeOK, VersionsOwned, RowsPaired, NEW D, NEW g \in Generations, NEW r \in Routes
    PROVE  SnapshotsWithout(D)[g][r] # None <=>
             \E v \in MembersWithout(D)[g] : VersionsWithout(D)[v] = r
  <1>1. CASE g \in D
    BY <1>1 DEF SnapshotsWithout, MembersWithout, NoSnapshot
  <1>2. CASE g \notin D
    <2>1. SnapshotsWithout(D)[g] = snapshots[g] /\ MembersWithout(D)[g] = members[g]
      BY <1>2 DEF SnapshotsWithout, MembersWithout
    <2>2. \A v \in members[g] : VersionsWithout(D)[v] = versionRoute[v]
      BY <1>2, DeletionKeeps
    <2>3. snapshots[g][r] # None <=> HasVersion(g, r)
      BY DEF RowsPaired
    <2> QED
      BY <2>1, <2>2, <2>3 DEF HasVersion
  <1> QED
    BY <1>1, <1>2

\* A route row outlives a deletion only with a generation that lists the route:
\* with its last version goes the row.
LEMMA DeletionLeavesNoStray ==
    ASSUME TypeOK, VersionsOwned, RowsPaired, NoStrayRoutes, NEW D, NEW r \in Routes,
           RoutesWithout(D)[r] # None
    PROVE  \E g \in Generations : SnapshotsWithout(D)[g][r] # None
  <1>1. routes[r] # None /\ r \notin DroppedRoutes(D)
    BY DEF RoutesWithout
  <1>2. PICK g \in Generations : snapshots[g][r] # None
    BY <1>1 DEF NoStrayRoutes
  <1>3. ASSUME \A h \in Generations \ D : snapshots[h][r] = None PROVE FALSE
    <2>1. \A h \in Generations \ D : ~HasVersion(h, r)
      BY <1>3 DEF RowsPaired
    <2>2. PICK v \in members[g] : versionRoute[v] = r
      BY <1>2 DEF RowsPaired, HasVersion
    <2>3. \A w \in Versions : versionRoute[w] = r => w \in DroppedVersions(D)
      <3> TAKE w \in Versions
      <3> HAVE versionRoute[w] = r
      <3>1. PICK h \in Generations : w \in members[h]
        BY StoreAssumption DEF VersionsOwned
      <3>2. h \in D
        BY <2>1, <3>1 DEF HasVersion
      <3> QED
        BY <3>1, <3>2 DEF DroppedVersions, VersionsOwned
    <2>4. v \in Versions
      BY <2>2 DEF TypeOK
    <2> QED
      BY <1>1, <2>1, <2>2, <2>3, <2>4 DEF DroppedRoutes
  <1>4. PICK h \in Generations : h \notin D /\ snapshots[h][r] # None
    BY <1>3
  <1> QED
    BY <1>4 DEF SnapshotsWithout

\* Deleting generations preserves the invariant.
LEMMA DeleteRows ==
    ASSUME TypeOK, VersionsOwned, RowsInv, NEW D, DeleteGenerations(D)
    PROVE  RowsInv'
  <1>1. RowsPaired'
    <2> SUFFICES ASSUME NEW g \in Generations, NEW r \in Routes
                 PROVE  snapshots'[g][r] # None <=> \E v \in members'[g] : versionRoute'[v] = r
      BY DEF RowsPaired, HasVersion
    <2>1. SnapshotsWithout(D)[g][r] # None <=>
            \E v \in MembersWithout(D)[g] : VersionsWithout(D)[v] = r
      BY DeletionPairs DEF RowsInv
    <2> QED
      BY <2>1 DEF DeleteGenerations
  <1>2. NoStrayRoutes'
    BY DeletionLeavesNoStray DEF DeleteGenerations, NoStrayRoutes, RowsInv
  <1>3. Stored' \in SUBSET Stored
    BY DEF DeleteGenerations, StatusWithout, Stored
  <1> QED
    BY <1>1, <1>2, <1>3, FS_Subset DEF RowsInv

-----------------------------------------------------------------------------
(* The other transactions *)

\* Staging a scrape preserves the invariant.
LEMMA StageRows ==
    ASSUME ScrapedOnly, TypeOK, StoreInv, RowsInv,
           NEW g \in Generations, NEW export \in Exports, Stage(g, export)
    PROVE  RowsInv'
  <1> DEFINE new == VersionsOf(export)
  <1>1. export \in ExportType
    BY StoreAssumption
  <1>2. /\ status[g] = "absent" /\ members[g] = {}
        /\ status' = [status EXCEPT ![g] = "staging"]
        /\ members' = [members EXCEPT ![g] = new]
        /\ snapshots' = [snapshots EXCEPT ![g] = export.attributes]
        /\ routes' = RoutesStaged(export)
    BY DEF Stage, CanStage, StoreInv, AbsentIsEmpty
  <1>3. \A v \in Versions :
          versionRoute'[v] = IF v \in new THEN export.versions[v] ELSE versionRoute[v]
    BY DEF Stage
  <1>4. \A h \in Generations, r \in Routes : h # g =>
          (snapshots'[h][r] # None <=> \E v \in members'[h] : versionRoute'[v] = r)
    <2> TAKE h \in Generations, r \in Routes
    <2> HAVE h # g
    <2>1. snapshots'[h] = snapshots[h] /\ members'[h] = members[h]
      BY <1>2 DEF TypeOK
    <2>2. \A v \in members[h] : v \in Versions /\ v \notin new
      BY DEF TypeOK, StoreInv, VersionsOwned, Stage, CanStage
    <2>3. \A v \in members[h] : versionRoute'[v] = versionRoute[v]
      BY <1>3, <2>2
    <2>4. snapshots[h][r] # None <=> HasVersion(h, r)
      BY DEF RowsInv, RowsPaired
    <2> QED
      BY <2>1, <2>3, <2>4 DEF HasVersion
  <1>5. \A r \in Routes :
          snapshots'[g][r] # None <=> \E v \in members'[g] : versionRoute'[v] = r
    <2> TAKE r \in Routes
    <2>1. snapshots'[g] = export.attributes /\ members'[g] = new
      BY <1>2 DEF TypeOK
    <2>2. export.attributes[r] # None <=> \E v \in Versions : export.versions[v] = r
      BY DEF ScrapedOnly
    <2>3. r # None
      BY StoreAssumption
    <2>4. (\E v \in Versions : export.versions[v] = r) <=> \E v \in new : versionRoute'[v] = r
      BY <1>3, <2>3 DEF VersionsOf
    <2> QED
      BY <2>1, <2>2, <2>4
  <1>6. RowsPaired'
    BY <1>4, <1>5, Zenon DEF RowsPaired, HasVersion
  <1>7. NoStrayRoutes'
    <2> SUFFICES ASSUME NEW r \in Routes, routes'[r] # None
                 PROVE  \E h \in Generations : snapshots'[h][r] # None
      BY DEF NoStrayRoutes
    <2>1. CASE routes[r] # None
      <3>1. PICK h \in Generations : snapshots[h][r] # None
        BY <2>1 DEF RowsInv, NoStrayRoutes
      <3>2. h # g
        BY <1>2, <3>1 DEF RowsInv, RowsPaired, HasVersion
      <3> QED
        BY <1>2, <3>1, <3>2 DEF TypeOK
    <2>2. CASE routes[r] = None
      <3>1. export.attributes[r] # None
        BY <1>2, <2>2 DEF RoutesStaged
      <3> QED
        BY <1>2, <3>1 DEF TypeOK
    <2> QED
      BY <2>1, <2>2
  <1>8. IsFiniteSet(Stored')
    <2>1. Stored' = Stored \cup {g}
      BY <1>2 DEF Stored, TypeOK
    <2> QED
      BY <2>1, FS_AddElement DEF RowsInv
  <1> QED
    BY <1>6, <1>7, <1>8 DEF RowsInv

\* A publication deletes as a discard does, and stores nothing.
LEMMA PublishRows ==
    ASSUME TypeOK, StoreInv, RowsInv, NEW g \in Generations, Publish(g)
    PROVE  RowsInv'
  <1> DEFINE D == Replaced(g)
  <1>1. /\ status' = StatusAfter(g)
        /\ members' = MembersWithout(D)
        /\ snapshots' = SnapshotsWithout(D)
        /\ versionRoute' = VersionsWithout(D)
        /\ routes' = RoutesAfter(g)
    BY DEF Publish
  <1>2. \A r \in Routes : routes'[r] # None => RoutesWithout(D)[r] # None
    BY <1>1 DEF RoutesAfter
  <1> HIDE DEF D
  <1>3. RowsPaired'
    <2> SUFFICES ASSUME NEW h \in Generations, NEW r \in Routes
                 PROVE  snapshots'[h][r] # None <=> \E v \in members'[h] : versionRoute'[v] = r
      BY DEF RowsPaired, HasVersion
    <2>1. SnapshotsWithout(D)[h][r] # None <=>
            \E v \in MembersWithout(D)[h] : VersionsWithout(D)[v] = r
      BY DeletionPairs DEF RowsInv, StoreInv
    <2> QED
      BY <1>1, <2>1
  <1>4. NoStrayRoutes'
    BY <1>1, <1>2, DeletionLeavesNoStray DEF NoStrayRoutes, RowsInv, StoreInv
  <1>5. Stored' \in SUBSET Stored
    <2>1. status[g] # "absent" /\ (Current \in Generations => status[Current] # "absent")
      BY DEF Publish, CanPublish, StoreInv, PublishedIffPointed
    <2> QED
      BY <1>1, <2>1 DEF StatusAfter, StatusWithout, Stored, Current
  <1> QED
    BY <1>3, <1>4, <1>5, FS_Subset DEF RowsInv

\* Every transaction preserves the invariant.
LEMMA RowsStep ==
    ASSUME ScrapedOnly
    PROVE  TypeOK /\ StoreInv /\ RowsInv /\ [Next]_vars => RowsInv'
  <1> SUFFICES ASSUME TypeOK, StoreInv, RowsInv, [Next]_vars PROVE RowsInv'
    OBVIOUS
  <1>1. ASSUME UNCHANGED dataVars PROVE RowsInv'
    BY <1>1 DEF dataVars, RowsInv, RowsPaired, HasVersion, NoStrayRoutes, Stored
  <1>2. ASSUME NEW D, DeleteGenerations(D) PROVE RowsInv'
    BY <1>2, DeleteRows DEF StoreInv
  <1>3. ASSUME NEW g \in Generations, NEW export \in Exports, Stage(g, export) PROVE RowsInv'
    BY <1>3, StageRows
  <1>4. ASSUME NEW g \in Generations, Validate(g) PROVE RowsInv'
    <2>1. Stored' = Stored /\ UNCHANGED <<members, snapshots, versionRoute, routes>>
      BY <1>4 DEF Validate, Stored, TypeOK
    <2> QED
      BY <2>1 DEF RowsInv, RowsPaired, HasVersion, NoStrayRoutes
  <1>5. ASSUME NEW g \in Generations, Publish(g) PROVE RowsInv'
    BY <1>5, PublishRows
  <1> QED
    BY <1>1, <1>2, <1>3, <1>4, <1>5 DEF Next, ClaimScrapeLease, ReleaseScrapeLease, LeaseExpires,
                                     DiscardStaging, vars

\* The invariant holds of every state of a store that only scrapes are staged in.
LEMMA RowsInvariance ==
    ASSUME ScrapedOnly
    PROVE  Spec => []RowsInv
  <1>1. Init => RowsInv
    <2> SUFFICES ASSUME Init PROVE RowsInv
      OBVIOUS
    <2>1. RowsPaired /\ NoStrayRoutes
      BY DEF Init, RowsPaired, HasVersion, NoStrayRoutes, NoSnapshot
    <2>2. Stored = {}
      BY DEF Init, Stored
    <2> QED
      BY <2>1, <2>2, FS_EmptySet DEF RowsInv
  <1>2. TypeOK /\ StoreInv /\ RowsInv /\ [Next]_vars => RowsInv'
    BY RowsStep
  <1> QED
    BY <1>1, <1>2, TypeCorrect, Invariance, PTL DEF Spec

-----------------------------------------------------------------------------
(* The guarantees *)

\* delete_generation leaves no shared route row that no generation lists
\* (NoStrayRoutes), whatever shares the row and in whatever order they go.
THEOREM ScrapesLeaveNoStrays ==
    ASSUME ScrapedOnly
    PROVE  Spec => []NoStrayRoutes
  <1>1. RowsInv => NoStrayRoutes
    BY DEF RowsInv
  <1> QED
    BY <1>1, RowsInvariance, PTL

\* What validate accepted, publish can publish (ValidatedIsPublishable): no
\* foreign key stands in the way of the deletions that a publication makes.
THEOREM ValidationMeansPublishable ==
    ASSUME ScrapedOnly
    PROVE  Spec => []ValidatedIsPublishable
  <1>1. TypeOK /\ StoreInv /\ RowsInv => ValidatedIsPublishable
    <2> SUFFICES ASSUME TypeOK, StoreInv, RowsInv, NEW g \in Generations, status[g] = "validated"
                 PROVE  CanPublish(g)
      BY DEF ValidatedIsPublishable
    <2>1. Superseded \subseteq Stored
      BY DEF Superseded, Stored, StoreInv, PublishedIffPointed, TypeOK, Roles, Previous
    <2>2. Replaced(g) \in SUBSET Stored
      BY <2>1 DEF Replaced, Orphans, Stored
    <2>3. IsFiniteSet(Replaced(g))
      BY <2>2, FS_Subset DEF RowsInv
    <2>4. CanDelete(Replaced(g), pointers["previous"])
      BY <2>3, NothingBlocks DEF RowsInv
    <2> QED
      BY <2>4 DEF CanPublish
  <1> QED
    BY <1>1, RowsInvariance, TypeCorrect, Invariance, PTL
=============================================================================
