\* Two publications that overlap.
CONSTANTS
    p1 = p1
    p2 = p2
    a = a
    None = None
    Publications = {p1, p2}
    Recoveries = {}
    Disconnecting = {}
    Seeds = {a}
SPECIFICATION Spec
INVARIANTS NoThirdPublished
