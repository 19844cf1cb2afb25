SPECIFICATION FairSpec
CONSTANTS
    p1 = p1
    p2 = p2
    p3 = p3
    a = a
    b = b
    Instances = {p1, p2, p3}
    Databases = {a, b}
    NoInstance = NoInstance
    Home <- Shared
    Migrations <- FourMigrations
    InitialPower = "createrole"
    Faults = {"crash", "operator"}
INVARIANT TypeOK
INVARIANT TrackedInEditor
INVARIANT ServesWhatItMayUse
INVARIANT PrivilegesDropped
INVARIANT SchemaRaceKillsNobody
INVARIANT OneMigrator
PROPERTY EveryInstanceServes
