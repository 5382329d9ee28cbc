-------------------------- MODULE MCGenerationStore --------------------------
EXTENDS GenerationStore, TLC

\* One row set per export, as canonical.py and the fixtures build them: every
\* version has a route of its own.
WellFormed(export) ==
    \A v, w \in Versions :
        export.versions[v] = export.versions[w] => v = w \/ export.versions[v] = None

Versioned(export, r) == \E v \in Versions : export.versions[v] = r

\* A scraped export: each page gives one route row and one version of it.
ScrapedExports ==
    {export \in ExportType :
        /\ WellFormed(export)
        /\ \A r \in Routes : export.attributes[r] # None <=> Versioned(export, r)}

\* A fixture's JSON may also hold route rows without a version, or versions of
\* routes it has no row for.
FixtureExports == {export \in ExportType : WellFormed(export)}

Symmetry == Permutations(Generations) \cup Permutations(Versions) \cup Permutations(Holders)
=============================================================================
