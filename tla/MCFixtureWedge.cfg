\* Fixture rows: routes without a version, versions of routes already there.
SPECIFICATION Spec
CONSTANTS
    Generations = {g1, g2, g3}
    Routes = {r1, r2}
    Versions = {v1, v2, v3}
    Attributes = {a1}
    Holders = {h1}
    None = None
    Exports <- FixtureExports
SYMMETRY Symmetry
INVARIANTS
    ValidatedIsPublishable
