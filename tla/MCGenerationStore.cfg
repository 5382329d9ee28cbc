SPECIFICATION Spec
CONSTANTS
    Generations = {g1, g2, g3, g4}
    Routes = {r1, r2}
    Versions = {v1, v2, v3}
    Attributes = {a1, a2}
    Holders = {h1, h2}
    None = None
    Exports <- ScrapedExports
SYMMETRY Symmetry
INVARIANTS
    TypeOK
    PublishedIffPointed
    PointedStayWhole
    RoutesShowCurrent
    VersionsOwned
    NoStrayRoutes
    ValidatedIsPublishable
PROPERTIES
    ImplementsPublication
    PublicationLeavesTwo
