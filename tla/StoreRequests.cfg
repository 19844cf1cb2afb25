SPECIFICATION Spec
CONSTANTS
    c1 = c1
    c2 = c2
    c3 = c3
    d1 = d1
    d2 = d2
    d3 = d3
    d4 = d4
    t1 = t1
    t2 = t2
    NoCall = NoCall
    NoTenant = NoTenant
    NoDoc = NoDoc
    Calls <- TwoCalls
    Docs = {d1, d2, d3}
    Tenants = {t1, t2}
    Seeded <- OneSeeded
    Menu <- EveryRequest
    PoolSize = 2
    Faults = {"commit", "crash", "bus"}
SYMMETRY CallSymmetry
INVARIANT TypeOK
INVARIANT HistoryComplete
INVARIANT AnswersAreCurrent
INVARIANT AcknowledgedSavesKept
INVARIANT EventsAreTrue
INVARIANT TenantsApart
