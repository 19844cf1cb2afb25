SPECIFICATION Spec
CONSTANTS
    c1 = c1
    c2 = c2
    c3 = c3
    d1 = d1
    d2 = d2
    d3 = d3
    d4 = d4
    t1 = t1
    t2 = t2
    NoCall = NoCall
    NoTenant = NoTenant
    NoDoc = NoDoc
    Calls <- ThreeCalls
    Docs = {d1}
    Tenants = {t1}
    Seeded <- OneSeeded
    Menu <- WritersAndReaders
    PoolSize = 3
    Faults = {}
SYMMETRY CallSymmetry
INVARIANT TransactionsIsolated
INVARIANT HeadIsNewest
INVARIANT NoCallLosesARace
INVARIANT NoWaitCycle
INVARIANT AnnouncedOnce
PROPERTY DeletedIsFinal
PROPERTY StatusOnlyAdvances
PROPERTY ImplementsHistory
