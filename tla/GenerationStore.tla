--------------------------- MODULE GenerationStore ---------------------------
(***************************************************************************)
(* store/generation.py and store/generation_writes.py: the tables behind   *)
(* the Generation Store and the transactions that write them. One action   *)
(* per committed transaction; a transaction that raises rolls back and is  *)
(* a step that changes nothing. The rows of a route version that only      *)
(* exist with it (directions, service directions, segments) are part of    *)
(* the version's row.                                                      *)
(***************************************************************************)
EXTENDS Naturals, FiniteSets

CONSTANTS Generations,  \* ids of dataset generations
          Routes,       \* ids of routes; the id determines the route's code
          Versions,     \* ids of route versions
          Attributes,   \* passenger-visible attributes of a route, other than its code
          Exports,      \* canonical exports that may be staged
          Holders,      \* lease holder ids
          None          \* SQL NULL, or no row

\* An export gives the attributes of each route row it has, and the route of
\* each version row it has.
ExportType == [attributes : [Routes -> Attributes \cup {None}],
               versions   : [Versions -> Routes \cup {None}]]

ASSUME StoreAssumption ==
    /\ None \notin Generations \cup Routes \cup Versions \cup Attributes \cup Holders
    /\ Exports \subseteq ExportType

VARIABLES status,       \* dataset_generations: generation -> status
          pointers,     \* dataset_pointers: role -> generation
          members,      \* dataset_route_versions: generation -> its versions
          snapshots,    \* generation_routes: generation -> route -> attributes
          versionRoute, \* route_versions: version -> its route
          routes,       \* routes: route -> attributes
          leaseHolder,  \* scrape_lease.holder_id
          leaseExpired  \* scrape_lease.expires_at has passed

dataVars  == <<status, pointers, members, snapshots, versionRoute, routes>>
leaseVars == <<leaseHolder, leaseExpired>>
vars      == <<dataVars, leaseVars>>

Roles    == {"current", "previous"}
Statuses == {"absent", "staging", "validated", "published"}

TypeOK ==
    /\ status \in [Generations -> Statuses]
    /\ pointers \in [Roles -> Generations \cup {None}]
    /\ members \in [Generations -> SUBSET Versions]
    /\ snapshots \in [Generations -> [Routes -> Attributes \cup {None}]]
    /\ versionRoute \in [Versions -> Routes \cup {None}]
    /\ routes \in [Routes -> Attributes \cup {None}]
    /\ leaseHolder \in Holders \cup {None}
    /\ leaseExpired \in BOOLEAN

NoSnapshot == [r \in Routes |-> None]

Init ==
    /\ status = [g \in Generations |-> "absent"]
    /\ pointers = [role \in Roles |-> None]
    /\ members = [g \in Generations |-> {}]
    /\ snapshots = [g \in Generations |-> NoSnapshot]
    /\ versionRoute = [v \in Versions |-> None]
    /\ routes = NoSnapshot
    /\ leaseHolder = None
    /\ leaseExpired = FALSE

-----------------------------------------------------------------------------
(* Deleting generations *)

\* Staging or validated generations that neither a pointer nor the caller keeps.
Orphans(pointed, kept) ==
    {g \in Generations : /\ status[g] \in {"staging", "validated"}
                         /\ \A role \in Roles : pointed[role] # g
                         /\ g # kept}

HasVersion(g, r) == \E v \in members[g] : versionRoute[v] = r

\* The versions and routes left without a generation once those of D are gone.
DroppedVersions(D) ==
    {v \in Versions : /\ \E g \in D : v \in members[g]
                      /\ \A g \in Generations \ D : v \notin members[g]}
\* Mutants: routes deleted without asking who else lists them, or never.
DroppedWithVersion(D) == {r \in Routes : \E v \in DroppedVersions(D) : versionRoute[v] = r}
DroppedNever(D) == {}
DroppedRoutes(D) ==
    {r \in Routes : /\ \E v \in DroppedVersions(D) : versionRoute[v] = r
                    /\ \A v \in Versions \ DroppedVersions(D) : versionRoute[v] # r
                    /\ \A g \in Generations \ D : ~HasVersion(g, r)}

StatusWithout(D)    == [g \in Generations |-> IF g \in D THEN "absent" ELSE status[g]]
MembersWithout(D)   == [g \in Generations |-> IF g \in D THEN {} ELSE members[g]]
SnapshotsWithout(D) == [g \in Generations |-> IF g \in D THEN NoSnapshot ELSE snapshots[g]]
PointersWithout(D)  == [role \in Roles |-> IF pointers[role] \in D THEN None ELSE pointers[role]]
VersionsWithout(D)  == [v \in Versions |-> IF v \in DroppedVersions(D) THEN None ELSE versionRoute[v]]
RoutesWithout(D)    == [r \in Routes |-> IF r \in DroppedRoutes(D) THEN None ELSE routes[r]]

\* The generations of D go one at a time, "first" first when it is one of them,
\* the others in the order their SELECT happens to return them.
DeletionOrders(D, first) ==
    {rank \in [D -> 1..Cardinality(D)] :
        /\ \A g, h \in D : rank[g] = rank[h] => g = h
        /\ first \in D => rank[first] = 1}

\* Mutant: generation_routes deleted after the versions and their routes.
SnapshotsDeletedLast(D, rank) ==
    \E g \in D, r \in Routes :
        LET left == {h \in Generations : h \in D => rank[h] > rank[g]} IN
        /\ HasVersion(g, r)
        /\ \A h \in left : ~HasVersion(h, r)
        /\ \E h \in left \cup {g} : snapshots[h][r] # None

\* DELETE FROM routes fails on the foreign key of generation_routes when a
\* generation still there has the route's attributes but no version of it.
ForeignKeyBlocks(D, rank) ==
    \E g \in D, r \in Routes :
        LET left == {h \in Generations : h \in D => rank[h] > rank[g]} IN
        /\ HasVersion(g, r)
        /\ \A h \in left : ~HasVersion(h, r)
        /\ \E h \in left : snapshots[h][r] # None

CanDelete(D, first) ==
    \E rank \in DeletionOrders(D, first) : ~ForeignKeyBlocks(D, rank)

DeleteGenerations(D) ==
    /\ CanDelete(D, None)
    /\ status' = StatusWithout(D)
    /\ pointers' = PointersWithout(D)
    /\ members' = MembersWithout(D)
    /\ snapshots' = SnapshotsWithout(D)
    /\ versionRoute' = VersionsWithout(D)
    /\ routes' = RoutesWithout(D)

-----------------------------------------------------------------------------
(* The scrape lease *)

\* Fails fast while another holder's lease is live, unless forced. Taking over
\* an expired lease, or forcing, first discards the orphan staging.
ClaimScrapeLease(h, force) ==
    /\ leaseHolder \in {None, h} \/ leaseExpired \/ force
    /\ \/ /\ leaseHolder # None
          /\ leaseExpired \/ force
          /\ DeleteGenerations(Orphans(pointers, None))
       \/ /\ leaseHolder = None \/ (~leaseExpired /\ ~force)
          /\ UNCHANGED dataVars
    /\ leaseHolder' = h
    /\ leaseExpired' = FALSE

\* Mutants: the row is blanked instead of deleted, or whoever holds it.
ReleaseBlanksRow(h) ==
    /\ leaseHolder = h
    /\ leaseHolder' = None
    /\ leaseExpired' = None
    /\ UNCHANGED dataVars
ReleaseAnyLease(h) ==
    /\ leaseHolder # None
    /\ leaseHolder' = None
    /\ leaseExpired' = FALSE
    /\ UNCHANGED dataVars

ReleaseScrapeLease(h) ==
    /\ leaseHolder = h
    /\ leaseHolder' = None
    /\ leaseExpired' = FALSE
    /\ UNCHANGED dataVars

\* The passing of expires_at.
LeaseExpires ==
    /\ leaseHolder # None
    /\ leaseExpired' = TRUE
    /\ UNCHANGED <<dataVars, leaseHolder>>

-----------------------------------------------------------------------------
(* The generation lifecycle *)

VersionsOf(export) == {v \in Versions : export.versions[v] # None}

\* Mutant: version rows already there are left alone (ON CONFLICT DO NOTHING).
StagesOverVersions(g, export) ==
    /\ status[g] = "absent"
    /\ \A v, w \in VersionsOf(export) : export.versions[v] = export.versions[w] => v = w

\* The primary and foreign keys the staged rows must satisfy: version ids not
\* in use, one version per route, and a route row behind every version.
CanStage(g, export) ==
    /\ status[g] = "absent"
    /\ \A v \in VersionsOf(export) :
          /\ versionRoute[v] = None
          /\ \A w \in VersionsOf(export) : export.versions[v] = export.versions[w] => v = w
          /\ \/ export.attributes[export.versions[v]] # None
             \/ routes[export.versions[v]] # None

\* Mutant: insert_routes with ON CONFLICT DO UPDATE.
RoutesOverwritten(export) ==
    [r \in Routes |-> IF export.attributes[r] # None THEN export.attributes[r] ELSE routes[r]]

\* ON CONFLICT DO NOTHING: a route row that is there keeps its attributes.
RoutesStaged(export) ==
    [r \in Routes |-> IF routes[r] = None THEN export.attributes[r] ELSE routes[r]]

Stage(g, export) ==
    /\ CanStage(g, export)
    /\ status' = [status EXCEPT ![g] = "staging"]
    /\ members' = [members EXCEPT ![g] = VersionsOf(export)]
    /\ snapshots' = [snapshots EXCEPT ![g] = export.attributes]
    /\ versionRoute' = [v \in Versions |->
          IF v \in VersionsOf(export) THEN export.versions[v] ELSE versionRoute[v]]
    /\ routes' = RoutesStaged(export)
    /\ UNCHANGED <<pointers, leaseVars>>

\* What validate_generation can find wrong with rows that one transaction
\* inserted under the schema's constraints: an export without any version.
Complete(g) == members[g] # {} /\ \A v \in members[g] : versionRoute[v] # None

\* A generation that fails validation is discarded by a transaction of its own.
Validate(g) ==
    /\ status[g] = "staging"
    /\ Complete(g)
    /\ status' = [status EXCEPT ![g] = "validated"]
    /\ UNCHANGED <<pointers, members, snapshots, versionRoute, routes, leaseVars>>

\* Mutant: whatever generation is there is discarded.
DiscardsAny(g) == status[g] # "absent"

CanDiscard(g) ==
    /\ status[g] \in {"staging", "validated"}
    /\ \A role \in Roles : pointers[role] # g

DiscardStaging(g) ==
    /\ CanDiscard(g)
    /\ DeleteGenerations({g})
    /\ UNCHANGED leaseVars

\* Mutant: the generation previous points to is unpointed but not deleted.
SupersededStay == {}

\* The generations a publication of g deletes: the one previous points to, then
\* the orphans, looked up with the pointers that are left.
Superseded ==
    IF pointers["previous"] = pointers["current"] THEN {} ELSE {pointers["previous"]} \ {None}
Replaced(g) == Superseded \cup Orphans(PointersWithout(Superseded), g)

CanPublish(g) ==
    /\ status[g] = "validated"
    /\ CanDelete(Replaced(g), pointers["previous"])

PointersAfter(g) ==
    [PointersWithout(Replaced(g)) EXCEPT
        !["previous"] = IF pointers["current"] \in {None, g} THEN @ ELSE pointers["current"],
        !["current"] = g]

\* Mutant: only the demoted generation is marked.
MarkDemotedOnly(g) ==
    [h \in Generations |->
        IF h = pointers["current"] THEN "published" ELSE StatusWithout(Replaced(g))[h]]

StatusAfter(g) ==
    [h \in Generations |->
        IF h \in {g, pointers["current"]} THEN "published" ELSE StatusWithout(Replaced(g))[h]]

\* Shared route rows take the attributes of the published generation.
RoutesAfter(g) ==
    [r \in Routes |->
        IF RoutesWithout(Replaced(g))[r] # None /\ snapshots[g][r] # None
        THEN snapshots[g][r]
        ELSE RoutesWithout(Replaced(g))[r]]

Publish(g) ==
    /\ CanPublish(g)
    /\ pointers' = PointersAfter(g)
    /\ status' = StatusAfter(g)
    /\ members' = MembersWithout(Replaced(g))
    /\ snapshots' = SnapshotsWithout(Replaced(g))
    /\ versionRoute' = VersionsWithout(Replaced(g))
    /\ routes' = RoutesAfter(g)
    /\ UNCHANGED leaseVars

Next ==
    \/ \E h \in Holders, force \in BOOLEAN : ClaimScrapeLease(h, force)
    \/ \E h \in Holders : ReleaseScrapeLease(h)
    \/ LeaseExpires
    \/ \E g \in Generations, export \in Exports : Stage(g, export)
    \/ \E g \in Generations : Validate(g)
    \/ \E g \in Generations : DiscardStaging(g)
    \/ \E g \in Generations : Publish(g)

Spec == Init /\ [][Next]_vars
-----------------------------------------------------------------------------
(* Correctness *)

Current  == pointers["current"]
Previous == pointers["previous"]

Visible == IF Current = None THEN {} ELSE members[Current]

\* What a join of the pointer, its memberships and the shared rows returns.
PassengerView == {<<versionRoute[v], v, routes[versionRoute[v]]>> : v \in Visible}

\* The store implements the atomic publication ADR 0007 promises passengers:
\* staging, validating, discarding, lease takeovers and their deletions are
\* invisible, and a publication replaces the view, shared route rows included,
\* in one step, keeping the replaced generation as previous.
Passengers == INSTANCE Publication
    WITH current <- Current, previous <- Previous, view <- PassengerView
ImplementsPublication == Passengers!Spec

\* ADR 0007, recovery invariant 6: no published generation outlives its
\* pointer, no unpublished one is pointed to, and previous is not current.
PublishedIffPointed ==
    /\ \A g \in Generations : status[g] = "published" <=> g \in {Current, Previous}
    /\ Previous # None => Current # None
    /\ Current # None => Current # Previous

\* What the pointers keep stays whole: deleting other generations, whose routes
\* may be shared, never takes a version row or a route row from under current
\* (which passengers read) or previous (which recovery would restore).
PointedStayWhole ==
    \A g \in {Current, Previous} \ {None} :
        /\ Complete(g)
        /\ \A v \in members[g] : routes[versionRoute[v]] # None

\* Staging a newer export never shows through: the shared route rows passengers
\* read hold the attributes current was staged with.
RoutesShowCurrent ==
    \A v \in Visible :
        LET r == versionRoute[v] IN
        snapshots[Current][r] # None => routes[r] = snapshots[Current][r]

\* No version row is shared by two generations or left without one.
VersionsOwned ==
    \A v \in Versions :
        /\ versionRoute[v] # None <=> \E g \in Generations : v \in members[g]
        /\ \A g, h \in Generations : v \in members[g] \cap members[h] => g = h

\* delete_generation leaves no shared route row that no generation lists.
NoStrayRoutes ==
    \A r \in Routes : routes[r] # None => \E g \in Generations : snapshots[g][r] # None

\* validate: "Validate a complete staged generation and mark it publishable."
ValidatedIsPublishable ==
    \A g \in Generations : status[g] = "validated" => CanPublish(g)

\* A committed publication leaves the new current, the generation it replaced
\* and nothing else; any other step leaves both pointers alone (a discard or a
\* takeover that deletes generations included).
PublicationLeavesTwo ==
    [][pointers' # pointers =>
          /\ pointers'["previous"] = Current
          /\ \A g \in Generations :
                g \notin {Current, pointers'["current"]} => status'[g] = "absent"]_vars
=============================================================================
