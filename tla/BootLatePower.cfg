SPECIFICATION Spec
CONSTANTS
    p1 = p1
    p2 = p2
    p3 = p3
    a = a
    b = b
    Instances = {p1, p2}
    Databases = {a, b}
    NoInstance = NoInstance
    Home <- Apart
    Migrations <- FourMigrations
    InitialPower = "none"
    Faults = {"crash", "operator"}
INVARIANT ServesWhatItMayUse
