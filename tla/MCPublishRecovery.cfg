\* Three publications, or two beside two claims that clean up, over any start; one
\* publication and one claim may lose their connection.
CONSTANTS
    p1 = p1
    p2 = p2
    p3 = p3
    r1 = r1
    r2 = r2
    a = a
    b = b
    None = None
    Publications = {p1, p2, p3}
    Recoveries = {r1, r2}
    Disconnecting = {p3, r2}
    Seeds = {a, b}
SPECIFICATION Spec
SYMMETRY Symmetry
CONSTRAINT Crowd
INVARIANTS TypeOK PointersResolve SomePublicationWins
PROPERTIES PublicationsKeepCurrent
