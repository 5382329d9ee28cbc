CONSTANTS
    c1 = c1
    c2 = c2
    g1 = g1
    g2 = g2
    r1 = r1
    r2 = r2
    v1 = v1
    v2 = v2
    v3 = v3
    a1 = a1
    a2 = a2
    d1 = d1
    d2 = d2
    d3 = d3
    d4 = d4
    None = None
    Generations = {g1, g2}
    Routes = {r1, r2}
    Versions = {v1, v2, v3}
    Attributes = {a1, a2}
    Clients = {c1, c2}
    Loads <- MCLoads
    Kinds <- MCKinds
    Faults = {c1, c2}
    Dataset <- MCDataset
    Directions <- MCDirections
    Labelled <- MCLabelled
    PoolSize = 1
SPECIFICATION ReadsSpec
INVARIANTS
    ReadsTypeOK
    AnswersWereCurrent
    HintsAllOrNone
    ClientsLearnOfPublications
    OneEngineOnceWarm
PROPERTIES EveryRequestAnswered
