\* A publication beside the claim that has taken its lease over.
CONSTANTS
    p1 = p1
    r1 = r1
    a = a
    None = None
    Publications = {p1}
    Recoveries = {r1}
    Disconnecting = {}
    Seeds = {a}
SPECIFICATION Spec
PROPERTIES CurrentNeverLost
