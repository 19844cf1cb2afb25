------------------------------ MODULE BootProofs ------------------------------
(* What holds of every boot, for any number of instances and databases: the *)
(* tracking table stays out of public, one instance migrates a database at  *)
(* a time, boots never wait for each other in a circle, and, as long as the *)
(* connecting role keeps its power, an instance serves only what its role   *)
(* may use.                                                                 *)
EXTENDS Boot, TLAPS

\* The steps before an instance knows that its schema exists.
Early == {"down", "schema_look", "schema_insert", "schema_confirm"}

LEMMA BootAtFirst == Init => BootInv
<1> SUFFICES ASSUME Init
             PROVE  BootInv
  OBVIOUS
<1> USE BootAssumption DEF Init, Provisioning, Migrating, NoWork
<1>1. TypeOK
  BY DEF TypeOK, PCs, Catalog, Powers
<1>2. Prepared /\ TrackedInEditor /\ OneMigrator /\ PowerKept
  BY DEF Prepared, TrackedInEditor, OneMigrator, PowerKept
<1>3. \A p \in Instances : Provisioned(p) /\ Verified(p)
  BY DEF Provisioned, Verified
<1>4. RoleInForce
  BY DEF RoleInForce
<1> QED
  BY <1>1, <1>2, <1>3, <1>4 DEF BootInv

\* What an instance knows is not disturbed by a step of another, unless that
\* one records a migration of a database it is provisioning or serving.
LEMMA OthersKeep ==
    ASSUME BootInv, NEW q \in Instances,
           pc'[q] = pc[q], work'[q] = work[q], adopt'[q] = adopt[q],
           power' = power, roles \subseteq roles',
           \/ applied'[Home[q]] = applied[Home[q]]
           \/ pc[q] \notin Provisioning \cup {"probe", "pool", "serving"}
    PROVE  Provisioned(q)' /\ Verified(q)'
<1> USE DEF Provisioning, Migrating
<1>1. Provisioned(q) /\ Verified(q)
  BY DEF BootInv
<1>2. Provisioned(q)'
  BY <1>1 DEF Provisioned, Due, Sees
<1>3. Verified(q)'
  BY <1>1 DEF Verified
<1> QED
  BY <1>2, <1>3

\* Two instances that hold the lock of one database are the same.
LEMMA LockIsExclusive ==
    ASSUME BootInv, NEW p \in Instances, NEW q \in Instances,
           pc[p] \in Migrating, pc[q] \in Migrating, Home[p] = Home[q]
    PROVE  p = q
<1>1. Home[p] \in Databases /\ Home[q] \in Databases
  BY BootAssumption
<1>2. mutex[Home[p]] = p /\ mutex[Home[q]] = q
  BY <1>1 DEF BootInv, OneMigrator
<1> QED
  BY <1>2

\* A step that moves one instance and writes nothing.
LEMMA MovesKeep ==
    ASSUME BootInv, NEW p \in Instances, NEW s \in PCs, Continue(p, s),
           pc[p] \in Migrating <=> s \in Migrating,
           s \notin Early => Home[p] \in schemas,
           (Provisioned(p) /\ Verified(p))'
    PROVE  BootInv'
<1>1. /\ pc' = [pc EXCEPT ![p] = s]
      /\ UNCHANGED <<schemas, tracking, applied, granted, roles, power, mutex,
                     work, adopt, cause>>
  BY DEF Continue, Goto, catalog, local
<1>2. TypeOK'
  BY <1>1 DEF BootInv, TypeOK
<1>3. Prepared' /\ TrackedInEditor'
  BY <1>1 DEF BootInv, Prepared, TrackedInEditor, TypeOK, Early
<1>4. OneMigrator'
  BY <1>1 DEF BootInv, OneMigrator, TypeOK
<1>5. \A q \in Instances : (Provisioned(q) /\ Verified(q))'
  <2> SUFFICES ASSUME NEW q \in Instances \ {p}
               PROVE  (Provisioned(q) /\ Verified(q))'
    OBVIOUS
  <2>1. pc'[q] = pc[q]
    BY <1>1 DEF BootInv, TypeOK
  <2> QED
    BY <1>1, <2>1, OthersKeep
<1>6. RoleInForce' /\ PowerKept'
  BY <1>1 DEF BootInv, RoleInForce, PowerKept
<1> QED
  BY <1>2, <1>3, <1>4, <1>5, <1>6 DEF BootInv

\* A boot that fails leaves what its database and the cluster hold.
LEMMA DyingKeeps ==
    ASSUME BootInv, NEW p \in Instances, NEW why \in {"schema", "role", "pool", "crash"},
           Dies(p, why)
    PROVE  BootInv'
<1>1. /\ pc' = [pc EXCEPT ![p] = "down"]
      /\ work' = [work EXCEPT ![p] = NoWork]
      /\ mutex' = [d \in Databases |-> IF mutex[d] = p THEN NoInstance ELSE mutex[d]]
      /\ cause' = [cause EXCEPT ![p] = why]
      /\ adopt' = [adopt EXCEPT ![p] = "unknown"]
      /\ UNCHANGED <<schemas, tracking, applied, granted, roles, power>>
  BY DEF Dies, Goto, Disconnects, catalog
<1>2. TypeOK'
  BY <1>1 DEF BootInv, TypeOK, PCs, NoWork
<1>3. Prepared' /\ TrackedInEditor'
  BY <1>1 DEF BootInv, Prepared, TrackedInEditor, TypeOK
<1>4. OneMigrator'
  BY <1>1, BootAssumption DEF BootInv, OneMigrator, TypeOK, Migrating
<1>5. (Provisioned(p) /\ Verified(p))'
  <2>1. pc'[p] = "down" /\ work'[p] = NoWork
    BY <1>1 DEF BootInv, TypeOK
  <2> QED
    BY <2>1 DEF Provisioned, Verified, Provisioning, Migrating, NoWork
<1>6. \A q \in Instances \ {p} : (Provisioned(q) /\ Verified(q))'
  BY <1>1, OthersKeep DEF BootInv, TypeOK
<1>7. RoleInForce' /\ PowerKept'
  BY <1>1 DEF BootInv, RoleInForce, PowerKept
<1> QED
  BY <1>2, <1>3, <1>4, <1>5, <1>6, <1>7 DEF BootInv

\* The steps that look: at the schema, at the role.
LEMMA LookingKeeps ==
    ASSUME BootInv, NEW p \in Instances,
           \/ Start(p) \/ LookForSchema(p) \/ MigrateRole(p)
           \/ LookForRole(p) \/ CheckRole(p)
    PROVE  BootInv'
<1> USE DEF PCs, Migrating, Provisioning, Early
<1>1. Provisioned(p) /\ Verified(p) /\ Prepared /\ pc \in [Instances -> PCs]
  BY DEF BootInv, TypeOK
<1>2. CASE Start(p) \/ LookForSchema(p)
  <2>1. PICK s \in {"schema_look", "schema_insert", "lock"} :
          Continue(p, s) /\ (s = "lock" => Home[p] \in schemas)
    BY <1>2 DEF Start, LookForSchema
  <2>2. pc[p] \in {"down", "schema_look"}
    BY <1>2 DEF Start, LookForSchema
  <2>3. (Provisioned(p) /\ Verified(p))'
    BY <1>1, <2>1, <2>2 DEF Provisioned, Verified, Continue, Goto, local
  <2> QED
    BY <2>1, <2>2, <2>3, MovesKeep
<1>3. CASE MigrateRole(p)
  <2>1. pc[p] = "next" /\ Continue(p, "role_look")
    BY <1>3 DEF MigrateRole, IsDue
  <2>2. Due(p) <= Len(Migrations) /\ Migrations[Due(p)] = "role"
    BY <1>3 DEF MigrateRole, IsDue
  <2>3. work[p] = NoWork
    BY <1>1, <2>1 DEF Provisioned
  <2>4. pc'[p] = "role_look" /\ work' = work /\ power' = power /\ applied' = applied
    BY <1>1, <2>1 DEF Continue, Goto, local, catalog
  <2>5. Provisioned(p)'
    BY <2>2, <2>3, <2>4 DEF Provisioned, Due, NoWork
  <2>6. Verified(p)'
    BY <2>4 DEF Verified
  <2> QED
    BY <1>1, <2>1, <2>5, <2>6, MovesKeep DEF Prepared
<1>4. CASE LookForRole(p) \/ CheckRole(p)
  <2>1. PICK s \in {"grant", "role_check", "role_insert"} :
          /\ pc[p] \in {"role_look", "role_check"} /\ Continue(p, s)
          /\ s = "grant" => Sees(p, "role") \/ power = "none"
          /\ s # "grant" => power # "none"
    BY <1>1, <1>4 DEF LookForRole, CheckRole, Provisioned
  <2>2. /\ pc'[p] = s /\ work' = work /\ power' = power /\ applied' = applied
        /\ roles' = roles
    BY <1>1, <2>1 DEF Continue, Goto, local, catalog
  <2>3. Provisioned(p)'
    BY <1>1, <2>1, <2>2 DEF Provisioned, Due, Sees
  <2>4. Verified(p)'
    BY <2>1, <2>2 DEF Verified
  <2> QED
    BY <1>1, <2>1, <2>3, <2>4, MovesKeep DEF Prepared
<1> QED
  BY <1>2, <1>3, <1>4

LEMMA SchemaStepsKeep ==
    ASSUME BootInv, NEW p \in Instances, InsertSchema(p) \/ ConfirmSchema(p)
    PROVE  BootInv'
<1> USE DEF PCs, Migrating, Provisioning, Early
<1>1. /\ Provisioned(p) /\ Verified(p) /\ pc \in [Instances -> PCs]
      /\ pc[p] \in {"schema_insert", "schema_confirm"}
  BY DEF BootInv, TypeOK, InsertSchema, ConfirmSchema
<1>2. CASE Dies(p, "schema")
  BY <1>2, DyingKeeps
<1>3. ASSUME NEW s \in {"schema_confirm", "lock"}, Continue(p, s),
             Home[p] \in schemas
      PROVE  BootInv'
  <2>1. (Provisioned(p) /\ Verified(p))'
    BY <1>1, <1>3 DEF Provisioned, Verified, Continue, Goto, local
  <2> QED
    BY <1>1, <1>3, <2>1, MovesKeep
<1>4. CASE /\ schemas' = schemas \cup {Home[p]} /\ Goto(p, "lock")
           /\ UNCHANGED <<tracking, applied, granted, roles, power, local>>
  <2>1. /\ pc' = [pc EXCEPT ![p] = "lock"]
        /\ UNCHANGED <<tracking, applied, granted, roles, power, mutex, work,
                       adopt, cause>>
    BY <1>4 DEF Goto, local
  <2>2. Home[p] \in Databases
    BY BootAssumption
  <2>3. TypeOK'
    BY <1>4, <2>1, <2>2 DEF BootInv, TypeOK
  <2>4. Prepared'
    BY <1>4, <2>1 DEF BootInv, Prepared, TypeOK
  <2>5. TrackedInEditor' /\ OneMigrator'
    BY <1>1, <2>1 DEF BootInv, TrackedInEditor, OneMigrator, TypeOK
  <2>6. (Provisioned(p) /\ Verified(p))'
    BY <1>1, <2>1 DEF Provisioned, Verified
  <2>7. \A q \in Instances \ {p} : (Provisioned(q) /\ Verified(q))'
    BY <2>1, OthersKeep DEF BootInv, TypeOK
  <2>8. RoleInForce' /\ PowerKept'
    BY <2>1 DEF BootInv, RoleInForce, PowerKept
  <2> QED
    BY <2>3, <2>4, <2>5, <2>6, <2>7, <2>8 DEF BootInv
<1> QED
  BY <1>2, <1>3, <1>4 DEF InsertSchema, ConfirmSchema

\* Taking the migration lock, and giving it back when nothing is due.
LEMMA LockingKeeps ==
    ASSUME BootInv, NEW p \in Instances,
           LockMigrations(p) \/ UnlockMigrations(p)
    PROVE  BootInv'
<1> USE DEF PCs, Migrating, Provisioning
<1>1. /\ Provisioned(p) /\ Verified(p) /\ pc \in [Instances -> PCs]
      /\ Home[p] \in Databases /\ OneMigrator
      /\ mutex \in [Databases -> Instances \cup {NoInstance}]
  BY BootAssumption DEF BootInv, TypeOK
<1>2. PICK s \in {"track", "probe"} :
        /\ pc' = [pc EXCEPT ![p] = s] /\ pc[p] \in {"lock", "next"}
        /\ s = "track" => /\ pc[p] = "lock" /\ mutex[Home[p]] = NoInstance
                          /\ mutex' = [mutex EXCEPT ![Home[p]] = p]
        /\ s = "probe" => /\ pc[p] = "next" /\ Due(p) > Len(Migrations)
                          /\ mutex' = [mutex EXCEPT ![Home[p]] = NoInstance]
        /\ UNCHANGED <<schemas, tracking, applied, granted, roles, power, work,
                       adopt, cause>>
  BY DEF LockMigrations, UnlockMigrations, Goto, catalog
<1>3. TypeOK'
  <2>1. mutex' \in [Databases -> Instances \cup {NoInstance}]
    BY <1>1, <1>2
  <2>2. pc' \in [Instances -> PCs]
    BY <1>1, <1>2
  <2> QED
    BY <1>2, <2>1, <2>2 DEF BootInv, TypeOK
<1>4. Prepared' /\ TrackedInEditor'
  BY <1>2 DEF BootInv, Prepared, TrackedInEditor, TypeOK
<1>5. OneMigrator'
  <2>1. CASE s = "track"
    BY <1>1, <1>2, <2>1, BootAssumption DEF OneMigrator
  <2>2. CASE s = "probe"
    <3>1. mutex[Home[p]] = p
      BY <1>1, <1>2, <2>2 DEF OneMigrator
    <3> QED
      BY <1>1, <1>2, <2>2, <3>1, BootAssumption DEF OneMigrator
  <2> QED
    BY <1>2, <2>1, <2>2
<1>6. Provisioned(p)'
  BY <1>1, <1>2 DEF Provisioned
<1>7. Verified(p)'
  <2>1. CASE s = "track"
    BY <1>1, <1>2, <2>1 DEF Verified
  <2>2. CASE s = "probe"
    <3>1. applied[Home[p]] \in 0..Len(Migrations)
      BY <1>1 DEF BootInv, TypeOK
    <3>2. applied[Home[p]] = Len(Migrations)
      BY <1>2, <2>2, <3>1, BootAssumption DEF Due
    <3> QED
      BY <1>1, <1>2, <2>2, <3>2 DEF Verified
  <2> QED
    BY <1>2, <2>1, <2>2
<1>8. \A q \in Instances \ {p} : (Provisioned(q) /\ Verified(q))'
  BY <1>1, <1>2, OthersKeep
<1>9. RoleInForce' /\ PowerKept'
  BY <1>2 DEF BootInv, RoleInForce, PowerKept
<1> QED
  BY <1>3, <1>4, <1>5, <1>6, <1>7, <1>8, <1>9 DEF BootInv

LEMMA TrackingKeeps ==
    ASSUME BootInv, NEW p \in Instances, EnsureTracking(p)
    PROVE  BootInv'
<1> USE DEF PCs, Migrating, Provisioning
<1>1. Home[p] \in schemas /\ Home[p] \in Databases
  BY BootAssumption DEF BootInv, Prepared, EnsureTracking
<1>2. /\ pc[p] = "track" /\ pc' = [pc EXCEPT ![p] = "next"]
      /\ tracking' = [tracking EXCEPT ![Home[p]] = @ \cup {"editor"}]
      /\ UNCHANGED <<schemas, applied, granted, roles, power, mutex, work,
                     adopt, cause>>
  BY <1>1 DEF EnsureTracking, Goto, local
<1>3. TypeOK'
  BY <1>2 DEF BootInv, TypeOK
<1>4. Prepared' /\ OneMigrator'
  BY <1>2 DEF BootInv, Prepared, OneMigrator, TypeOK
<1>5. TrackedInEditor'
  BY <1>2 DEF BootInv, TrackedInEditor, TypeOK
<1>6. Provisioned(p) /\ pc'[p] = "next"
  BY <1>2 DEF BootInv, TypeOK
<1>7. (Provisioned(p) /\ Verified(p))'
  BY <1>2, <1>6 DEF Provisioned, Verified
<1>8. \A q \in Instances \ {p} : (Provisioned(q) /\ Verified(q))'
  BY <1>2, OthersKeep DEF BootInv, TypeOK
<1>9. RoleInForce' /\ PowerKept'
  BY <1>2 DEF BootInv, RoleInForce, PowerKept
<1> QED
  BY <1>3, <1>4, <1>5, <1>7, <1>8, <1>9 DEF BootInv

\* Recording a migration: nobody else is provisioning the same database, and
\* nobody has found it complete.
LEMMA RecordingAlone ==
    ASSUME BootInv, NEW p \in Instances, NEW q \in Instances \ {p},
           pc[p] \in Migrating, Due(p) <= Len(Migrations), Recorded(p)
    PROVE  \/ applied'[Home[q]] = applied[Home[q]]
           \/ pc[q] \notin Provisioning \cup {"probe", "pool", "serving"}
<1>1. CASE Home[q] # Home[p]
  BY <1>1 DEF Recorded, BootInv, TypeOK
<1>2. CASE Home[q] = Home[p]
  <2>1. pc[q] \notin Migrating
    BY <1>2, LockIsExclusive
  <2>2. applied[Home[q]] \in 0..Len(Migrations) /\ applied[Home[q]] < Len(Migrations)
    BY <1>2, BootAssumption DEF BootInv, TypeOK, Due
  <2>3. applied[Home[q]] # Len(Migrations)
    BY <2>2
  <2>4. pc[q] \notin {"probe", "pool", "serving"}
    BY <2>3 DEF BootInv, Verified
  <2> QED
    BY <2>1, <2>4 DEF Provisioning
<1> QED
  BY <1>1, <1>2

LEMMA DatabaseMigrationsKeep ==
    ASSUME BootInv, NEW p \in Instances, MigrateSchema(p) \/ MigrateTables(p)
    PROVE  BootInv'
<1>1. /\ pc[p] = "next" /\ Due(p) <= Len(Migrations)
      /\ Migrations[Due(p)] # "role"
      /\ Recorded(p) /\ schemas' \in {schemas, schemas \cup {Home[p]}}
      /\ UNCHANGED <<tracking, granted, roles, power, pc, mutex, work, adopt,
                     cause>>
  BY DEF MigrateSchema, MigrateTables, IsDue, local
<1>2. /\ Home[p] \in Databases /\ Len(Migrations) \in Nat
      /\ applied \in [Databases -> 0..Len(Migrations)]
  BY BootAssumption DEF BootInv, TypeOK
<1>3. /\ applied' \in [Databases -> 0..Len(Migrations)]
      /\ applied'[Home[p]] = Due(p)
      /\ \A d \in Databases \ {Home[p]} : applied'[d] = applied[d]
  BY <1>1, <1>2 DEF Recorded, Due
<1>4. TypeOK'
  BY <1>1, <1>2, <1>3 DEF BootInv, TypeOK
<1>5. Prepared' /\ TrackedInEditor' /\ OneMigrator'
  BY <1>1 DEF BootInv, Prepared, TrackedInEditor, OneMigrator
<1>6. (Provisioned(p) /\ Verified(p))'
  BY <1>1 DEF BootInv, Provisioned, Verified, Provisioning, Migrating
<1>7. \A q \in Instances \ {p} : (Provisioned(q) /\ Verified(q))'
  <2> SUFFICES ASSUME NEW q \in Instances \ {p}
               PROVE  (Provisioned(q) /\ Verified(q))'
    OBVIOUS
  <2>1. \/ applied'[Home[q]] = applied[Home[q]]
        \/ pc[q] \notin Provisioning \cup {"probe", "pool", "serving"}
    BY <1>1, RecordingAlone DEF Migrating
  <2> QED
    BY <1>1, <2>1, OthersKeep
<1>8. RoleInForce'
  <2> SUFFICES ASSUME power # "none", NEW d \in Databases, NEW k \in 1..applied'[d],
                      Migrations[k] = "role"
               PROVE  d \in granted /\ Catalog \subseteq roles
    BY <1>1 DEF BootInv, RoleInForce
  <2>1. k # Due(p) \/ d # Home[p]
    BY <1>1
  <2>2. k \in 1..applied[d]
    BY <1>2, <1>3, <2>1 DEF Due
  <2> QED
    BY <2>2 DEF BootInv, RoleInForce
<1> QED
  BY <1>1, <1>4, <1>5, <1>6, <1>7, <1>8 DEF BootInv, PowerKept

\* A statement of migration 008 that writes: only the transaction's own work
\* and its place change.
LEMMA ProvisioningKeeps ==
    ASSUME BootInv, NEW p \in Instances, NEW w, NEW s \in Provisioning,
           pc[p] \in Provisioning, Goto(p, s),
           w \in [roles: SUBSET Catalog, grants: SUBSET Databases],
           work' = [work EXCEPT ![p] = w],
           UNCHANGED <<catalog, roles, power, mutex, adopt, cause>>,
           Provisioned(p)'
    PROVE  BootInv'
<1> USE DEF PCs, Migrating, Provisioning
<1>1. /\ pc' = [pc EXCEPT ![p] = s]
      /\ UNCHANGED <<schemas, tracking, applied, granted, roles, power, mutex,
                     adopt, cause>>
  BY DEF Goto, catalog
<1>2. TypeOK'
  BY <1>1 DEF BootInv, TypeOK
<1>3. Prepared' /\ TrackedInEditor' /\ OneMigrator'
  BY <1>1 DEF BootInv, Prepared, TrackedInEditor, OneMigrator, TypeOK
<1>4. Verified(p)'
  BY <1>1 DEF BootInv, TypeOK, Verified
<1>5. \A q \in Instances \ {p} : (Provisioned(q) /\ Verified(q))'
  BY <1>1, OthersKeep DEF BootInv, TypeOK
<1>6. RoleInForce' /\ PowerKept'
  BY <1>1 DEF BootInv, RoleInForce, PowerKept
<1> QED
  BY <1>2, <1>3, <1>4, <1>5, <1>6 DEF BootInv

LEMMA RoleStatementsKeep ==
    ASSUME BootInv, NEW p \in Instances,
           InsertRole(p) \/ GrantSchema(p) \/ GrantMembership(p)
    PROVE  BootInv'
<1> USE DEF Provisioning, Migrating
<1>1. /\ Provisioned(p) /\ work[p] \in [roles: SUBSET Catalog, grants: SUBSET Databases]
      /\ work \in [Instances -> [roles: SUBSET Catalog, grants: SUBSET Databases]]
      /\ pc \in [Instances -> PCs] /\ Home[p] \in Databases
  BY BootAssumption DEF BootInv, TypeOK
<1>2. /\ \A rows : [work[p] EXCEPT !.roles = rows]
                    = [roles |-> rows, grants |-> work[p].grants]
      /\ \A grants : [work[p] EXCEPT !.grants = grants]
                      = [roles |-> work[p].roles, grants |-> grants]
  BY <1>1
<1>3. ASSUME NEW rows \in SUBSET Catalog, NEW grants \in SUBSET Databases,
             NEW s \in Provisioning, pc[p] \in Provisioning, Goto(p, s),
             work' = [work EXCEPT ![p] = [roles |-> rows, grants |-> grants]],
             UNCHANGED <<catalog, roles, power, mutex, adopt, cause>>,
             s \notin {"role_look", "role_check", "role_insert"},
             power = "none" => rows = {},
             power # "none" =>
               /\ "role" \in roles \cup rows
               /\ s \in {"membership", "record"} => grants = {Home[p]}
               /\ s = "record" => "member" \in roles \cup rows
      PROVE  BootInv'
  <2>1. /\ pc'[p] = s /\ work'[p].roles = rows /\ work'[p].grants = grants
        /\ roles' = roles /\ power' = power /\ applied' = applied
    BY <1>1, <1>3 DEF Goto, catalog
  <2>2. Provisioned(p)'
    BY <1>1, <1>3, <2>1 DEF Provisioned, Due, Sees
  <2> QED
    BY <1>3, <2>2, ProvisioningKeeps
<1>4. CASE InsertRole(p)
  <2>1. CASE Dies(p, "role")
    BY <2>1, DyingKeeps
  <2>2. CASE work' = [work EXCEPT ![p].roles = @ \cup {"role"}] /\ Goto(p, "grant")
             /\ UNCHANGED <<catalog, roles, power, mutex, adopt, cause>>
    <3>1. pc[p] = "role_insert" /\ power # "none"
      BY <1>1, <1>4 DEF InsertRole, Provisioned
    <3>2. work' = [work EXCEPT ![p] = [roles |-> work[p].roles \cup {"role"},
                                      grants |-> work[p].grants]]
      BY <1>1, <1>2, <2>2
    <3>3. work[p].roles \cup {"role"} \in SUBSET Catalog
      BY <1>1 DEF Catalog
    <3> HIDE DEF Provisioning
    <3>4. pc[p] \in Provisioning /\ "grant" \in Provisioning
      BY <3>1 DEF Provisioning
    <3> QED
      BY <1>1, <1>3, <2>2, <3>1, <3>2, <3>3, <3>4
  <2> QED
    BY <1>4, <2>1, <2>2 DEF InsertRole
<1>5. CASE GrantSchema(p)
  <2>1. pc[p] = "grant" /\ "membership" \in Provisioning /\ Goto(p, "membership")
        /\ UNCHANGED <<catalog, roles, power, mutex, adopt, cause>>
    BY <1>5 DEF GrantSchema
  <2>2. work' = [work EXCEPT ![p] = [roles |-> work[p].roles,
                   grants |-> IF Sees(p, "role") THEN {Home[p]} ELSE {}]]
    BY <1>1, <1>2, <1>5 DEF GrantSchema
  <2>3. power # "none" => Sees(p, "role")
    BY <1>1, <2>1 DEF Provisioned
  <2>4. (IF Sees(p, "role") THEN {Home[p]} ELSE {}) \in SUBSET Databases
    BY <1>1
  <2>5. power = "none" => work[p].roles = {}
    BY <1>1 DEF Provisioned
  <2> QED
    BY <1>1, <1>3, <2>1, <2>2, <2>3, <2>4, <2>5 DEF Sees
<1>6. CASE GrantMembership(p)
  <2> DEFINE rows == IF Sees(p, "role") /\ power # "none" /\ ~Sees(p, "member")
                     THEN work[p].roles \cup {"member"} ELSE work[p].roles
  <2>1. pc[p] = "membership" /\ "record" \in Provisioning /\ Goto(p, "record")
        /\ UNCHANGED <<catalog, roles, power, mutex, adopt, cause>>
    BY <1>6 DEF GrantMembership
  <2>2. work' = [work EXCEPT ![p] = [roles |-> rows, grants |-> work[p].grants]]
    BY <1>1, <1>2, <1>6 DEF GrantMembership
  <2>3. rows \in SUBSET Catalog
    BY <1>1 DEF Catalog
  <2>4. power = "none" => rows = {}
    BY <1>1 DEF Provisioned
  <2>5. power # "none" => /\ "role" \in roles \cup rows
                          /\ work[p].grants = {Home[p]}
                          /\ "member" \in roles \cup rows
    BY <1>1, <2>1 DEF Provisioned, Sees
  <2> HIDE DEF rows
  <2> QED
    BY <1>1, <1>3, <2>1, <2>2, <2>3, <2>4, <2>5
<1> QED
  BY <1>4, <1>5, <1>6

\* The commit of migration 008 brings all of it into force.
LEMMA RecordRoleKeeps ==
    ASSUME BootInv, NEW p \in Instances, RecordRole(p)
    PROVE  BootInv'
<1>1. /\ pc[p] = "record" /\ pc' = [pc EXCEPT ![p] = "next"]
      /\ roles' = roles \cup work[p].roles /\ granted' = granted \cup work[p].grants
      /\ Recorded(p) /\ work' = [work EXCEPT ![p] = NoWork]
      /\ UNCHANGED <<schemas, tracking, power, mutex, adopt, cause>>
  BY DEF RecordRole, Goto
<1>2. /\ Home[p] \in Databases /\ Len(Migrations) \in Nat
      /\ applied \in [Databases -> 0..Len(Migrations)]
      /\ pc \in [Instances -> PCs] /\ PowerKept
      /\ work \in [Instances -> [roles: SUBSET Catalog, grants: SUBSET Databases]]
      /\ Provisioned(p)
  BY BootAssumption DEF BootInv, TypeOK
<1>3. Due(p) <= Len(Migrations)
  BY <1>1, <1>2 DEF Provisioned, Provisioning, Migrating
<1>4. /\ applied' \in [Databases -> 0..Len(Migrations)]
      /\ applied'[Home[p]] = Due(p)
      /\ \A d \in Databases \ {Home[p]} : applied'[d] = applied[d]
  BY <1>1, <1>2, <1>3 DEF Recorded, Due
<1>5. TypeOK'
  <2>1. roles' \subseteq Catalog /\ granted' \subseteq Databases
    BY <1>1, <1>2 DEF BootInv, TypeOK
  <2>2. work' \in [Instances -> [roles: SUBSET Catalog, grants: SUBSET Databases]]
    BY <1>1, <1>2 DEF NoWork
  <2> QED
    BY <1>1, <1>4, <2>1, <2>2 DEF BootInv, TypeOK, PCs
<1>6. Prepared' /\ TrackedInEditor' /\ OneMigrator'
  BY <1>1 DEF BootInv, Prepared, TrackedInEditor, OneMigrator, TypeOK, Migrating
<1>7. pc'[p] = "next" /\ work'[p] = NoWork
  BY <1>1, <1>2
<1>8. (Provisioned(p) /\ Verified(p))'
  BY <1>7 DEF Provisioned, Verified, Provisioning, Migrating, NoWork
<1>9. \A q \in Instances \ {p} : (Provisioned(q) /\ Verified(q))'
  <2> SUFFICES ASSUME NEW q \in Instances \ {p}
               PROVE  (Provisioned(q) /\ Verified(q))'
    OBVIOUS
  <2>1. \/ applied'[Home[q]] = applied[Home[q]]
        \/ pc[q] \notin Provisioning \cup {"probe", "pool", "serving"}
    BY <1>1, <1>3, RecordingAlone DEF Migrating
  <2>2. pc'[q] = pc[q] /\ work'[q] = work[q]
    BY <1>1, <1>2
  <2> QED
    BY <1>1, <2>1, <2>2, OthersKeep
<1>10. RoleInForce'
  <2>1. CASE power = "none"
    <3>1. roles' = {}
      BY <1>1, <1>2, <2>1 DEF BootInv, RoleInForce, Provisioned
    <3> QED
      BY <1>1, <2>1, <3>1 DEF RoleInForce
  <2>2. CASE power # "none"
    <3>1. Catalog \subseteq roles' /\ Home[p] \in granted'
      BY <1>1, <1>2, <2>2 DEF Provisioned, Sees, Catalog
    <3>2. ASSUME NEW d \in Databases, NEW k \in 1..applied'[d],
                 Migrations[k] = "role"
          PROVE  d \in granted' /\ Catalog \subseteq roles'
      <4>1. CASE d = Home[p]
        BY <3>1, <4>1
      <4>2. CASE d # Home[p]
        BY <1>1, <1>4, <2>2, <3>1, <3>2, <4>2 DEF BootInv, RoleInForce
      <4> QED
        BY <4>1, <4>2
    <3> QED
      BY <1>1, <2>2, <3>2 DEF RoleInForce
  <2> QED
    BY <2>1, <2>2
<1> QED
  BY <1>1, <1>2, <1>5, <1>6, <1>8, <1>9, <1>10 DEF BootInv, PowerKept

\* The probe answers yes exactly where the role was there to be provisioned.
LEMMA ServingStepsKeep ==
    ASSUME BootInv, NEW p \in Instances, Probe(p) \/ OpenPool(p)
    PROVE  BootInv'
<1> USE DEF PCs, Migrating, Provisioning
<1>1. /\ Provisioned(p) /\ Verified(p) /\ pc \in [Instances -> PCs]
      /\ Home[p] \in Databases /\ RoleInForce
  BY BootAssumption DEF BootInv, TypeOK
<1>2. CASE Probe(p)
  <2>1. /\ pc[p] = "probe" /\ pc' = [pc EXCEPT ![p] = "pool"]
        /\ adopt' = [adopt EXCEPT ![p] = IF Adoptable THEN "yes" ELSE "no"]
        /\ UNCHANGED <<schemas, tracking, applied, granted, roles, power, mutex,
                       work, cause>>
    BY <1>2 DEF Probe, Goto, catalog
  <2>2. TypeOK'
    BY <2>1 DEF BootInv, TypeOK
  <2>3. Prepared' /\ TrackedInEditor' /\ OneMigrator'
    BY <2>1 DEF BootInv, Prepared, TrackedInEditor, OneMigrator, TypeOK
  <2>4. Adoptable <=> power # "none"
    <3>1. applied[Home[p]] = Len(Migrations)
      BY <1>1, <2>1 DEF Verified
    <3>2. PICK k \in 1..Len(Migrations) : Migrations[k] = "role"
      BY BootAssumption
    <3>3. power # "none" => Catalog \subseteq roles
      BY <1>1, <3>1, <3>2 DEF RoleInForce
    <3> QED
      BY <1>1, <3>3 DEF Adoptable, Catalog, RoleInForce
  <2>5. Provisioned(p)'
    BY <1>1, <2>1 DEF Provisioned
  <2>6. Verified(p)'
    <3>1. pc'[p] = "pool" /\ adopt'[p] = IF Adoptable THEN "yes" ELSE "no"
      BY <1>1, <2>1 DEF BootInv, TypeOK
    <3>2. applied'[Home[p]] = Len(Migrations)
      BY <1>1, <2>1 DEF Verified
    <3>3. adopt'[p] = IF power' = "none" THEN "no" ELSE "yes"
      BY <2>1, <2>4, <3>1
    <3> QED
      BY <3>2, <3>3 DEF Verified
  <2>7. \A q \in Instances \ {p} : (Provisioned(q) /\ Verified(q))'
    BY <2>1, OthersKeep DEF BootInv, TypeOK
  <2>8. RoleInForce' /\ PowerKept'
    BY <2>1 DEF BootInv, RoleInForce, PowerKept
  <2> QED
    BY <2>2, <2>3, <2>5, <2>6, <2>7, <2>8 DEF BootInv
<1>3. CASE OpenPool(p)
  <2>1. CASE Dies(p, "pool")
    BY <2>1, DyingKeeps
  <2>2. CASE Continue(p, "serving")
    <3>1. pc[p] = "pool"
      BY <1>3 DEF OpenPool
    <3>2. (Provisioned(p) /\ Verified(p))'
      BY <1>1, <2>2, <3>1 DEF Provisioned, Verified, Continue, Goto, catalog, local
    <3>3. Home[p] \in schemas
      BY <3>1 DEF BootInv, Prepared
    <3> QED
      BY <2>2, <3>1, <3>2, <3>3, MovesKeep
  <2> QED
    BY <1>3, <2>1, <2>2 DEF OpenPool
<1> QED
  BY <1>2, <1>3

\* No operator brings the connecting role its first power: there is none, or
\* the role has some from the start.
PowerIsFixed == "operator" \notin Faults \/ InitialPower # "none"

LEMMA NextKeepsBootInv ==
    ASSUME PowerIsFixed
    PROVE  BootInv /\ [Next]_vars => BootInv'
<1> SUFFICES ASSUME BootInv, [Next]_vars
             PROVE  BootInv'
  OBVIOUS
<1>1. CASE UNCHANGED vars
  BY <1>1 DEF vars, catalog, BootInv, TypeOK, Prepared, TrackedInEditor,
              OneMigrator, Provisioned, Verified, RoleInForce, PowerKept, Due, Sees
<1>2. ASSUME NEW p \in Instances, Crash(p)
      PROVE  BootInv'
  BY <1>2, DyingKeeps DEF Crash
<1>3. ASSUME NEW p \in Instances, Start(p) \/ LockMigrations(p) \/ Step(p)
      PROVE  BootInv'
  BY <1>3, LookingKeeps, SchemaStepsKeep, LockingKeeps, TrackingKeeps,
     DatabaseMigrationsKeep, RoleStatementsKeep, RecordRoleKeeps,
     ServingStepsKeep
  DEF Step
<1>4. CASE Empower
  <2>1. /\ UNCHANGED <<schemas, tracking, applied, granted, roles, mutex, pc, work,
                      adopt, cause>>
        /\ power \in Powers /\ power' \in MorePower[power]
    BY <1>4 DEF Empower, BootInv, TypeOK, catalog, local
  <2>2. power # "none" /\ power' # "none" /\ power' \in Powers
    BY <1>4, <2>1 DEF Empower, BootInv, PowerKept, PowerIsFixed, MorePower, Powers
  <2>3. (TypeOK /\ Prepared /\ TrackedInEditor /\ OneMigrator)'
    BY <2>1, <2>2 DEF BootInv, TypeOK, Prepared, TrackedInEditor, OneMigrator
  <2>4. ASSUME NEW p \in Instances PROVE (Provisioned(p) /\ Verified(p))'
    BY <2>1, <2>2 DEF BootInv, Provisioned, Verified, Due, Sees
  <2>5. (RoleInForce /\ PowerKept)'
    BY <2>1, <2>2 DEF BootInv, RoleInForce, PowerKept
  <2> QED
    BY <2>3, <2>4, <2>5 DEF BootInv
<1> QED
  BY <1>1, <1>2, <1>3, <1>4 DEF Next

\* An instance that serves has every migration behind it and runs as a role
\* that may use its tables, if no connecting role gains its first power on the way.
THEOREM ServingIsAlwaysPossible ==
    ASSUME PowerIsFixed
    PROVE  Spec => []ServesWhatItMayUse
<1>1. BootInv => ServesWhatItMayUse
  <2> SUFFICES ASSUME BootInv, NEW p \in Instances, pc[p] = "serving"
               PROVE  /\ applied[Home[p]] = Len(Migrations)
                      /\ adopt[p] = "yes" => Home[p] \in granted
    BY DEF ServesWhatItMayUse
  <2>1. /\ applied[Home[p]] = Len(Migrations)
        /\ adopt[p] = IF power = "none" THEN "no" ELSE "yes"
    BY DEF BootInv, Verified
  <2>2. PICK k \in 1..Len(Migrations) : Migrations[k] = "role"
    BY BootAssumption
  <2>3. Home[p] \in Databases
    BY BootAssumption
  <2>4. power # "none" => Home[p] \in granted
    BY <2>1, <2>2, <2>3 DEF BootInv, RoleInForce
  <2> QED
    BY <2>1, <2>4
<1> QED
  BY <1>1, BootAtFirst, NextKeepsBootInv, PTL DEF Spec

\* Where the connecting role has the power to provision it, every instance
\* serves as the unprivileged role, so the tenant policies apply.
THEOREM PrivilegesAlwaysDropped == Spec => []PrivilegesDropped
<1>1. CASE InitialPower = "none"
  <2>1. PrivilegesDropped
    BY <1>1 DEF PrivilegesDropped
  <2> QED
    BY <2>1, PTL
<1>2. CASE InitialPower # "none"
  <2>1. BootInv => PrivilegesDropped
    BY <1>2 DEF BootInv, PowerKept, Verified, PrivilegesDropped
  <2>2. PowerIsFixed
    BY <1>2 DEF PowerIsFixed
  <2> QED
    BY <2>1, <2>2, BootAtFirst, NextKeepsBootInv, PTL DEF Spec
<1> QED
  BY <1>1, <1>2

-----------------------------------------------------------------------------
(* What holds whatever becomes of the connecting role's power.              *)

\* Who lost the race for a schema lost it to a schema that is there: nobody
\* drops one.
LostToASchema == \A p \in Instances : pc[p] = "schema_confirm" => Home[p] \in schemas

RaceInv ==
    /\ pc \in [Instances -> PCs]
    /\ mutex \in [Databases -> Instances \cup {NoInstance}]
    /\ tracking \in [Databases -> SUBSET {"editor", "public"}]
    /\ cause \in [Instances -> {"none", "schema", "role", "pool", "crash"}]
    /\ Prepared /\ TrackedInEditor /\ OneMigrator
    /\ LostToASchema /\ SchemaRaceKillsNobody

LEMMA RaceAtFirst == Init => RaceInv
BY BootAssumption
DEF Init, RaceInv, Prepared, TrackedInEditor, OneMigrator, LostToASchema,
    SchemaRaceKillsNobody, PCs, Migrating

\* A step of one instance that neither takes nor returns the lock.
LEMMA MovesKeepRace ==
    ASSUME RaceInv, NEW p \in Instances, NEW s \in PCs,
           Goto(p, s), schemas \subseteq schemas',
           UNCHANGED <<tracking, mutex, cause>>,
           pc[p] \in Migrating <=> s \in Migrating,
           s \notin Early \ {"schema_confirm"} => Home[p] \in schemas'
    PROVE  RaceInv'
<1>1. pc' = [pc EXCEPT ![p] = s]
  BY DEF Goto
<1>2. Prepared' /\ LostToASchema'
  BY <1>1 DEF RaceInv, Prepared, LostToASchema, Early
<1>3. OneMigrator'
  BY <1>1 DEF RaceInv, OneMigrator
<1> QED
  BY <1>1, <1>2, <1>3 DEF RaceInv, TrackedInEditor, SchemaRaceKillsNobody

LEMMA DyingKeepsRace ==
    ASSUME RaceInv, NEW p \in Instances, NEW why \in {"role", "pool", "crash"},
           Dies(p, why)
    PROVE  RaceInv'
<1>1. /\ pc' = [pc EXCEPT ![p] = "down"]
      /\ mutex' = [d \in Databases |-> IF mutex[d] = p THEN NoInstance ELSE mutex[d]]
      /\ cause' = [cause EXCEPT ![p] = why]
      /\ UNCHANGED <<schemas, tracking>>
  BY DEF Dies, Goto, Disconnects, catalog
<1>2. Prepared' /\ LostToASchema' /\ SchemaRaceKillsNobody'
  BY <1>1 DEF RaceInv, Prepared, LostToASchema, SchemaRaceKillsNobody
<1>3. OneMigrator'
  BY <1>1, BootAssumption DEF RaceInv, OneMigrator, Migrating
<1> QED
  BY <1>1, <1>2, <1>3 DEF RaceInv, TrackedInEditor, PCs

LEMMA SchemaStepsKeepRace ==
    ASSUME RaceInv, NEW p \in Instances,
           Start(p) \/ LookForSchema(p) \/ InsertSchema(p) \/ ConfirmSchema(p)
    PROVE  RaceInv'
<1> USE DEF Early, Migrating, PCs, catalog, local
<1>1. CASE Start(p)
  BY <1>1, MovesKeepRace DEF Start, Continue
<1>2. CASE LookForSchema(p)
  BY <1>2, MovesKeepRace DEF LookForSchema, Continue
<1>3. CASE InsertSchema(p)
  BY <1>3, MovesKeepRace DEF InsertSchema, Continue
<1>4. CASE ConfirmSchema(p)
  <2>1. pc[p] = "schema_confirm" /\ Home[p] \in schemas
    BY <1>4 DEF ConfirmSchema, RaceInv, LostToASchema
  <2> QED
    BY <1>4, <2>1, MovesKeepRace DEF ConfirmSchema, Continue
<1> QED
  BY <1>1, <1>2, <1>3, <1>4

LEMMA LockStepsKeepRace ==
    ASSUME RaceInv, NEW p \in Instances, LockMigrations(p) \/ UnlockMigrations(p)
    PROVE  RaceInv'
<1>1. PICK s \in PCs : Goto(p, s) /\ s \notin Early
  BY DEF LockMigrations, UnlockMigrations, PCs, Early
<1>2. /\ pc[p] \notin Early /\ Home[p] \in Databases
      /\ UNCHANGED <<schemas, tracking, cause>>
  BY BootAssumption DEF LockMigrations, UnlockMigrations, Early, catalog
<1>3. Prepared' /\ LostToASchema'
  BY <1>1, <1>2 DEF Goto, RaceInv, Prepared, LostToASchema, Early
<1>4. mutex' \in [Databases -> Instances \cup {NoInstance}] /\ OneMigrator'
  BY <1>2, BootAssumption
  DEF LockMigrations, UnlockMigrations, Goto, RaceInv, OneMigrator, Migrating
<1> QED
  BY <1>1, <1>2, <1>3, <1>4
  DEF Goto, RaceInv, TrackedInEditor, SchemaRaceKillsNobody

LEMMA TrackingKeepsRace ==
    ASSUME RaceInv, NEW p \in Instances, EnsureTracking(p)
    PROVE  RaceInv'
<1>1. pc[p] = "track" /\ Home[p] \in schemas /\ Home[p] \in Databases
  BY BootAssumption DEF EnsureTracking, RaceInv, Prepared
<1>2. /\ tracking' = [tracking EXCEPT ![Home[p]] = @ \cup {"editor"}]
      /\ pc' = [pc EXCEPT ![p] = "next"]
      /\ UNCHANGED <<schemas, mutex, cause>>
  BY <1>1 DEF EnsureTracking, Goto, local
<1>3. Prepared' /\ LostToASchema' /\ OneMigrator'
  BY <1>1, <1>2 DEF RaceInv, Prepared, LostToASchema, OneMigrator, Migrating
<1>4. TrackedInEditor' /\ tracking' \in [Databases -> SUBSET {"editor", "public"}]
  BY <1>1, <1>2 DEF RaceInv, TrackedInEditor
<1> QED
  BY <1>2, <1>3, <1>4 DEF RaceInv, PCs, SchemaRaceKillsNobody

LEMMA MigrationsKeepRace ==
    ASSUME RaceInv, NEW p \in Instances,
           \/ MigrateSchema(p) \/ MigrateTables(p) \/ MigrateRole(p)
           \/ LookForRole(p) \/ CheckRole(p) \/ InsertRole(p)
           \/ GrantSchema(p) \/ GrantMembership(p) \/ RecordRole(p)
    PROVE  RaceInv'
<1> USE DEF Early, Migrating, PCs, catalog, local
<1>1. CASE Dies(p, "role")
  BY <1>1, DyingKeepsRace
<1>2. CASE ~Dies(p, "role")
  <2>1. Home[p] \in schemas /\ pc[p] \in Migrating
    BY DEF RaceInv, Prepared, MigrateSchema, MigrateTables, MigrateRole, IsDue,
           LookForRole, CheckRole, InsertRole, GrantSchema, GrantMembership,
           RecordRole
  <2>2. PICK s \in Migrating : (s = pc[p] /\ pc' = pc) \/ Goto(p, s)
    BY <1>2, <2>1 DEF MigrateSchema, MigrateTables, MigrateRole, LookForRole,
           CheckRole, InsertRole, GrantSchema, GrantMembership, RecordRole,
           Continue
  <2>3. schemas \subseteq schemas' /\ UNCHANGED <<tracking, mutex, cause>>
    BY <1>2 DEF MigrateSchema, MigrateTables, MigrateRole, LookForRole,
           CheckRole, InsertRole, GrantSchema, GrantMembership, RecordRole,
           Continue
  <2>4. Goto(p, s)
    BY <2>2 DEF Goto, RaceInv
  <2> QED
    BY <2>1, <2>3, <2>4, MovesKeepRace
<1> QED
  BY <1>1, <1>2

LEMMA ServingKeepsRace ==
    ASSUME RaceInv, NEW p \in Instances, Probe(p) \/ OpenPool(p)
    PROVE  RaceInv'
<1> USE DEF Early, Migrating, PCs, catalog, local
<1>1. pc[p] \in {"probe", "pool"} /\ Home[p] \in schemas
  BY DEF Probe, OpenPool, RaceInv, Prepared
<1>2. CASE Probe(p)
  BY <1>1, <1>2, MovesKeepRace DEF Probe
<1>3. CASE OpenPool(p)
  BY <1>1, <1>3, MovesKeepRace, DyingKeepsRace DEF OpenPool, Continue
<1> QED
  BY <1>2, <1>3

LEMMA NextKeepsRaceInv == RaceInv /\ [Next]_vars => RaceInv'
<1> SUFFICES ASSUME RaceInv, [Next]_vars
             PROVE  RaceInv'
  OBVIOUS
<1>1. CASE UNCHANGED <<schemas, tracking, mutex, pc, cause>>
  BY <1>1 DEF RaceInv, Prepared, TrackedInEditor, OneMigrator, LostToASchema,
              SchemaRaceKillsNobody
<1>2. ASSUME NEW p \in Instances, Start(p) \/ LockMigrations(p) \/ Step(p)
      PROVE  RaceInv'
  BY <1>2, SchemaStepsKeepRace, LockStepsKeepRace, TrackingKeepsRace,
     MigrationsKeepRace, ServingKeepsRace
  DEF Step
<1>3. ASSUME NEW p \in Instances, Crash(p)
      PROVE  RaceInv'
  BY <1>3, DyingKeepsRace DEF Crash
<1> QED
  BY <1>1, <1>2, <1>3 DEF Next, Empower, vars, catalog, local

LEMMA AlwaysRaceInv == Spec => []RaceInv
BY RaceAtFirst, NextKeepsRaceInv, PTL DEF Spec

\* The tracking table of the migrations lands in editor, never in public,
\* whatever instances start together on whatever fresh databases.
THEOREM TrackingStaysInEditor == Spec => []TrackedInEditor
<1>1. RaceInv => TrackedInEditor
  BY DEF RaceInv
<1> QED
  BY <1>1, AlwaysRaceInv, PTL

\* One instance at a time migrates a database, and it gives the lock back.
THEOREM MigrationsAreExclusive == Spec => []OneMigrator
<1>1. RaceInv => OneMigrator
  BY DEF RaceInv
<1> QED
  BY <1>1, AlwaysRaceInv, PTL

\* Losing the race for the schema never ends a boot.
THEOREM TheSchemaRaceIsHarmless == Spec => []SchemaRaceKillsNobody
<1>1. RaceInv => SchemaRaceKillsNobody
  BY DEF RaceInv
<1> QED
  BY <1>1, AlwaysRaceInv, PTL
-----------------------------------------------------------------------------
(* What is recorded, and who may be assumed, whatever becomes of the power. *)

\* Nobody has the transaction of 008 open once all is recorded, nobody is past
\* the migrations before; a role that was found adoptable stays so.
Advancing ==
    /\ TypeOK
    /\ \A p \in Instances :
         /\ pc[p] \in Provisioning => Due(p) <= Len(Migrations)
         /\ pc[p] \in {"probe", "pool", "serving"} =>
              applied[Home[p]] = Len(Migrations)
         /\ pc[p] \in {"pool", "serving"} /\ adopt[p] = "yes" => "role" \in roles
         /\ pc[p] = "serving" /\ adopt[p] = "yes" => Adoptable

LEMMA AdvancingAtFirst == Init => Advancing
BY BootAssumption
DEF Init, Advancing, TypeOK, PCs, Catalog, Powers, NoWork, Provisioning, Migrating

\* A step that records nothing keeps what the others have found.
LEMMA UnrecordedStepsAdvance ==
    ASSUME Advancing, TypeOK', NEW p \in Instances, NEW s \in PCs,
           Goto(p, s), applied' = applied, roles \subseteq roles', power' = power,
           \A q \in Instances \ {p} : adopt'[q] = adopt[q],
           s \in Provisioning => Due(p) <= Len(Migrations),
           s \in {"probe", "pool", "serving"} => applied[Home[p]] = Len(Migrations),
           s \in {"pool", "serving"} /\ adopt'[p] = "yes" => "role" \in roles',
           s = "serving" /\ adopt'[p] = "yes" => Adoptable'
    PROVE  Advancing'
<1>1. pc' = [pc EXCEPT ![p] = s] /\ pc \in [Instances -> PCs]
  BY DEF Goto, Advancing, TypeOK
<1>2. Adoptable => Adoptable'
  BY DEF Adoptable
<1> QED
  BY <1>1, <1>2 DEF Advancing, Due

LEMMA DyingAdvances ==
    ASSUME Advancing, NEW p \in Instances, NEW why \in {"schema", "role", "pool", "crash"},
           Dies(p, why)
    PROVE  Advancing'
<1>1. Goto(p, "down") /\ adopt' = [adopt EXCEPT ![p] = "unknown"]
  BY DEF Dies
<1>2. TypeOK'
  BY DEF Advancing, TypeOK, Dies, Goto, Disconnects, catalog, PCs, NoWork
<1>3. \A q \in Instances \ {p} : adopt'[q] = adopt[q]
  BY <1>1 DEF Advancing, TypeOK
<1> QED
  BY <1>1, <1>2, <1>3, UnrecordedStepsAdvance
  DEF Dies, catalog, Provisioning, Migrating, PCs

\* A step that writes neither a migration nor a verdict.
LEMMA ContinuingAdvances ==
    ASSUME Advancing, NEW p \in Instances, NEW s \in PCs, Continue(p, s),
           s \in Provisioning => Due(p) <= Len(Migrations),
           s \in {"probe", "pool"} => applied[Home[p]] = Len(Migrations) /\ s # "pool",
           s = "serving" => /\ pc[p] = "pool"
                            /\ adopt[p] = "yes" => Adoptable
    PROVE  Advancing'
<1>1. /\ Goto(p, s)
      /\ UNCHANGED <<schemas, tracking, applied, granted, roles, power, mutex,
                     work, adopt, cause>>
  BY DEF Continue, catalog, local
<1>2. TypeOK'
  BY <1>1 DEF Goto, Advancing, TypeOK
<1>3. s = "serving" => applied[Home[p]] = Len(Migrations)
  BY DEF Advancing
<1> QED
  BY <1>1, <1>2, <1>3, UnrecordedStepsAdvance DEF Adoptable

LEMMA SchemaStepsAdvance ==
    ASSUME Advancing, NEW p \in Instances,
           \/ Start(p) \/ LookForSchema(p) \/ InsertSchema(p) \/ ConfirmSchema(p)
           \/ EnsureTracking(p) \/ LockMigrations(p) \/ UnlockMigrations(p)
    PROVE  Advancing'
<1> USE DEF PCs, Provisioning, Migrating
<1>1. Home[p] \in Databases /\ Len(Migrations) \in Nat
  BY BootAssumption
<1>2. CASE Start(p) \/ LookForSchema(p) \/ ConfirmSchema(p)
  BY <1>2, ContinuingAdvances, DyingAdvances DEF Start, LookForSchema, ConfirmSchema
<1>3. CASE InsertSchema(p)
  <2>1. CASE Continue(p, "schema_confirm")
    BY <2>1, ContinuingAdvances
  <2>2. CASE ~Continue(p, "schema_confirm")
    <3>1. /\ Goto(p, "lock") /\ schemas' = schemas \cup {Home[p]}
          /\ UNCHANGED <<tracking, applied, granted, roles, power, mutex, work,
                         adopt, cause>>
      BY <1>3, <2>2 DEF InsertSchema, local
    <3>2. TypeOK'
      BY <1>1, <3>1 DEF Goto, Advancing, TypeOK
    <3> QED
      BY <3>1, <3>2, UnrecordedStepsAdvance
  <2> QED
    BY <2>1, <2>2
<1>4. CASE EnsureTracking(p)
  <2>1. /\ Goto(p, "next")
        /\ UNCHANGED <<schemas, applied, granted, roles, power, mutex, work,
                       adopt, cause>>
    BY <1>4 DEF EnsureTracking, local
  <2>2. TypeOK'
    BY <1>1, <1>4, <2>1 DEF EnsureTracking, Goto, Advancing, TypeOK
  <2> QED
    BY <2>1, <2>2, UnrecordedStepsAdvance
<1>5. CASE LockMigrations(p) \/ UnlockMigrations(p)
  <2>1. PICK s \in {"track", "probe"} :
          /\ Goto(p, s)
          /\ s = "probe" => Due(p) > Len(Migrations)
          /\ \E i \in Instances \cup {NoInstance} :
               mutex' = [mutex EXCEPT ![Home[p]] = i]
          /\ UNCHANGED <<schemas, tracking, applied, granted, roles, power, work,
                         adopt, cause>>
    BY <1>5 DEF LockMigrations, UnlockMigrations, catalog
  <2>2. TypeOK'
    BY <1>1, <2>1 DEF Goto, Advancing, TypeOK
  <2>3. s = "probe" => applied[Home[p]] = Len(Migrations)
    BY <1>1, <2>1 DEF Due, Advancing, TypeOK
  <2> QED
    BY <2>1, <2>2, <2>3, UnrecordedStepsAdvance
<1> QED
  BY <1>2, <1>3, <1>4, <1>5

\* The statements of migration 008 before its commit.
LEMMA ProvisioningAdvances ==
    ASSUME Advancing, NEW p \in Instances,
           \/ MigrateRole(p) \/ LookForRole(p) \/ CheckRole(p) \/ InsertRole(p)
           \/ GrantSchema(p) \/ GrantMembership(p)
    PROVE  Advancing'
<1> USE DEF PCs, Provisioning, Migrating
<1>1. CASE MigrateRole(p) \/ LookForRole(p) \/ CheckRole(p)
  <2>1. PICK s \in {"role_look", "role_check", "role_insert", "grant"} : Continue(p, s)
    BY <1>1 DEF MigrateRole, LookForRole, CheckRole
  <2>2. Due(p) <= Len(Migrations)
    BY <1>1 DEF MigrateRole, IsDue, LookForRole, CheckRole, Advancing
  <2> QED
    BY <2>1, <2>2, ContinuingAdvances
<1>2. CASE Dies(p, "role")
  BY <1>2, DyingAdvances
<1>3. CASE /\ ~Dies(p, "role")
           /\ InsertRole(p) \/ GrantSchema(p) \/ GrantMembership(p)
  <2>1. PICK s \in {"grant", "membership", "record"} : Goto(p, s)
    BY <1>3 DEF InsertRole, GrantSchema, GrantMembership
  <2>2. UNCHANGED <<schemas, tracking, applied, granted, roles, power, mutex,
                    adopt, cause>>
    BY <1>3 DEF InsertRole, GrantSchema, GrantMembership, catalog
  <2>3. Due(p) <= Len(Migrations)
    BY <1>3 DEF InsertRole, GrantSchema, GrantMembership, Advancing
  <2>4. work[p] \in [roles: SUBSET Catalog, grants: SUBSET Databases]
    BY DEF Advancing, TypeOK
  <2>5. \E rows \in SUBSET Catalog, grants \in SUBSET Databases :
          work' = [work EXCEPT ![p] = [roles |-> rows, grants |-> grants]]
    <3>1. /\ \A rows : [work[p] EXCEPT !.roles = rows]
                        = [roles |-> rows, grants |-> work[p].grants]
          /\ \A grants : [work[p] EXCEPT !.grants = grants]
                          = [roles |-> work[p].roles, grants |-> grants]
      BY <2>4
    <3>2. CASE InsertRole(p)
      <4>1. work' = [work EXCEPT ![p] = [roles |-> work[p].roles \cup {"role"},
                                         grants |-> work[p].grants]]
        BY <1>3, <3>1, <3>2 DEF InsertRole, Advancing, TypeOK
      <4> QED
        BY <2>4, <4>1 DEF Catalog
    <3>3. CASE GrantSchema(p)
      <4>1. PICK g \in {{Home[p]}, {}} :
              work' = [work EXCEPT ![p] = [roles |-> work[p].roles, grants |-> g]]
        BY <3>1, <3>3 DEF GrantSchema, Advancing, TypeOK
      <4> QED
        BY <2>4, <4>1, BootAssumption
    <3>4. CASE GrantMembership(p)
      <4>1. PICK r \in {work[p].roles \cup {"member"}, work[p].roles} :
              work' = [work EXCEPT ![p] = [roles |-> r, grants |-> work[p].grants]]
        BY <3>1, <3>4 DEF GrantMembership, Advancing, TypeOK
      <4> QED
        BY <2>4, <4>1 DEF Catalog
    <3> QED
      BY <1>3, <3>2, <3>3, <3>4
  <2>6. TypeOK'
    BY <2>1, <2>2, <2>5 DEF Goto, Advancing, TypeOK
  <2> QED
    BY <2>1, <2>2, <2>3, <2>6, UnrecordedStepsAdvance
<1> QED
  BY <1>1, <1>2, <1>3

\* A migration is recorded under the lock, so nobody is beyond it.
LEMMA RecordingAdvances ==
    ASSUME Advancing, OneMigrator, NEW p \in Instances,
           MigrateSchema(p) \/ MigrateTables(p) \/ RecordRole(p)
    PROVE  Advancing'
<1> USE DEF Provisioning, Migrating
<1>1. /\ Home \in [Instances -> Databases] /\ Len(Migrations) \in Nat
      /\ applied \in [Databases -> 0..Len(Migrations)] /\ pc \in [Instances -> PCs]
      /\ work[p] \in [roles: SUBSET Catalog, grants: SUBSET Databases]
  BY BootAssumption DEF Advancing, TypeOK
<1>2. /\ pc[p] \in Migrating /\ Due(p) <= Len(Migrations)
      /\ applied' = [applied EXCEPT ![Home[p]] = Due(p)]
      /\ pc' = [pc EXCEPT ![p] = "next"]
      /\ roles \subseteq roles' /\ UNCHANGED <<power, adopt>>
  BY <1>1 DEF MigrateSchema, MigrateTables, RecordRole, IsDue, Recorded, Goto, Due,
              Advancing, local
<1>3. TypeOK'
  <2>1. applied' \in [Databases -> 0..Len(Migrations)]
    BY <1>1, <1>2 DEF Due
  <2>2. /\ schemas' \in {schemas, schemas \cup {Home[p]}}
        /\ roles' \in {roles, roles \cup work[p].roles}
        /\ granted' \in {granted, granted \cup work[p].grants}
        /\ work' \in {work, [work EXCEPT ![p] = NoWork]}
        /\ UNCHANGED <<tracking, mutex, cause>>
    BY DEF MigrateSchema, MigrateTables, RecordRole, local
  <2>3. Home[p] \in Databases
    BY <1>1
  <2>4. work' \in [Instances -> [roles: SUBSET Catalog, grants: SUBSET Databases]]
    <3>1. NoWork \in [roles: SUBSET Catalog, grants: SUBSET Databases]
      BY DEF NoWork
    <3>2. work \in [Instances -> [roles: SUBSET Catalog, grants: SUBSET Databases]]
      BY DEF Advancing, TypeOK
    <3> QED
      BY <2>2, <3>1, <3>2
  <2> QED
    BY <1>1, <1>2, <2>1, <2>2, <2>3, <2>4
    DEF Advancing, TypeOK, PCs
<1>4. ASSUME NEW q \in Instances, q # p, Home[q] = Home[p]
      PROVE  pc[q] \notin Migrating \cup {"probe", "pool", "serving"}
  <2>1. Home[p] \in Databases
    BY <1>1
  <2>2. mutex[Home[p]] = p
    BY <1>2, <2>1 DEF OneMigrator
  <2>3. pc[q] \notin Migrating
    BY <1>4, <2>1, <2>2 DEF OneMigrator
  <2>4. applied[Home[q]] < Len(Migrations)
    BY <1>1, <1>2, <1>4, <2>1 DEF Due
  <2>5. applied[Home[q]] # Len(Migrations)
    BY <1>1, <1>4, <2>1, <2>4
  <2> QED
    BY <2>3, <2>5 DEF Advancing
<1>5. Adoptable => Adoptable'
  BY <1>2 DEF Adoptable
<1>6. pc'[p] = "next" /\ \A q \in Instances \ {p} : pc'[q] = pc[q]
  BY <1>1, <1>2
<1>7. \A q \in Instances \ {p} :
        \/ applied'[Home[q]] = applied[Home[q]]
        \/ pc[q] \notin Migrating \cup {"probe", "pool", "serving"}
  BY <1>1, <1>2, <1>4
<1> QED
  BY <1>2, <1>3, <1>5, <1>6, <1>7 DEF Advancing, Due

LEMMA ServingStepsAdvance ==
    ASSUME Advancing, NEW p \in Instances, Probe(p) \/ OpenPool(p)
    PROVE  Advancing'
<1> USE DEF PCs, Provisioning, Migrating
<1>1. CASE Probe(p)
  <2>1. /\ Goto(p, "pool") /\ pc[p] = "probe"
        /\ adopt' = [adopt EXCEPT ![p] = IF Adoptable THEN "yes" ELSE "no"]
        /\ UNCHANGED <<schemas, tracking, applied, granted, roles, power, mutex,
                       work, cause>>
    BY <1>1 DEF Probe, catalog
  <2>2. TypeOK'
    BY <2>1 DEF Goto, Advancing, TypeOK
  <2>3. /\ \A q \in Instances \ {p} : adopt'[q] = adopt[q]
        /\ adopt'[p] = "yes" => "role" \in roles'
    BY <2>1 DEF Advancing, TypeOK, Adoptable
  <2>4. applied[Home[p]] = Len(Migrations)
    BY <2>1 DEF Advancing
  <2> QED
    BY <2>1, <2>2, <2>3, <2>4, UnrecordedStepsAdvance
<1>2. CASE OpenPool(p)
  <2>1. CASE Dies(p, "pool")
    BY <2>1, DyingAdvances
  <2>2. CASE ~Dies(p, "pool")
    <3>1. /\ pc[p] = "pool" /\ Continue(p, "serving")
          /\ adopt[p] = "yes" => "member" \in roles \/ power = "superuser"
      BY <1>2, <2>2 DEF OpenPool
    <3>2. adopt[p] = "yes" => Adoptable
      BY <3>1 DEF Advancing, Adoptable
    <3> QED
      BY <3>1, <3>2, ContinuingAdvances
  <2> QED
    BY <2>1, <2>2
<1> QED
  BY <1>1, <1>2

LEMMA NextAdvances == Advancing /\ OneMigrator /\ [Next]_vars => Advancing'
<1> SUFFICES ASSUME Advancing, OneMigrator, [Next]_vars
             PROVE  Advancing'
  OBVIOUS
<1>1. CASE UNCHANGED vars
  BY <1>1 DEF vars, catalog, Advancing, TypeOK, Due, Adoptable
<1>2. ASSUME NEW p \in Instances, Crash(p)
      PROVE  Advancing'
  BY <1>2, DyingAdvances DEF Crash
<1>3. ASSUME NEW p \in Instances, Start(p) \/ LockMigrations(p) \/ Step(p)
      PROVE  Advancing'
  BY <1>3, SchemaStepsAdvance, ProvisioningAdvances, RecordingAdvances,
     ServingStepsAdvance
  DEF Step
<1>4. CASE Empower
  <2>1. /\ UNCHANGED <<schemas, tracking, applied, granted, roles, mutex, pc, work,
                      adopt, cause>>
        /\ power \in Powers /\ power' \in MorePower[power]
    BY <1>4 DEF Empower, Advancing, TypeOK, catalog, local
  <2>2. power # "superuser" /\ power' \in Powers
    BY <2>1 DEF MorePower, Powers
  <2> QED
    BY <2>1, <2>2 DEF Advancing, TypeOK, Due, Adoptable
<1> QED
  BY <1>1, <1>2, <1>3, <1>4 DEF Next

LEMMA AlwaysAdvancing == Spec => []Advancing
<1>1. RaceInv => OneMigrator
  BY DEF RaceInv
<1> QED
  BY <1>1, AdvancingAtFirst, NextAdvances, AlwaysRaceInv, PTL DEF Spec

\* Every variable of a boot keeps its type.
THEOREM BootTypeCorrect == Spec => []TypeOK
<1>1. Advancing => TypeOK
  BY DEF Advancing
<1> QED
  BY <1>1, AlwaysAdvancing, PTL

\* An instance that serves has every migration behind it and, if it dropped its
\* privileges, did so to a role it can still assume, even where an operator
\* changed the connecting role's power in the middle of a boot.  Only the
\* grants of ServesWhatItMayUse need that power to be fixed.
THEOREM ServingIsComplete ==
    Spec => [](\A p \in Instances : pc[p] = "serving" =>
                  /\ applied[Home[p]] = Len(Migrations)
                  /\ adopt[p] = "yes" => Adoptable)
<1>1. Advancing => \A p \in Instances : pc[p] = "serving" =>
                      /\ applied[Home[p]] = Len(Migrations)
                      /\ adopt[p] = "yes" => Adoptable
  BY DEF Advancing
<1> QED
  BY <1>1, AlwaysAdvancing, PTL
-----------------------------------------------------------------------------
(* Waiting: for the lock of a database, for a row of the cluster's catalog. *)

Waits(p) ==
    \/ pc[p] = "lock" /\ mutex[Home[p]] # NoInstance
    \/ pc[p] = "role_insert" /\ Contested(p, "role")
    \/ pc[p] = "membership" /\ Contested(p, "member")

\* Only one transaction at a time creates the role, and only while nobody has;
\* who has granted the membership has nothing left but its commit.
RowsApart ==
    \A p \in Instances :
        /\ work[p].roles # {} => pc[p] \in {"grant", "membership", "record"}
        /\ "role" \in work[p].roles =>
             "role" \notin roles /\ \A q \in Instances \ {p} : "role" \notin work[q].roles
        /\ "member" \in work[p].roles => Sees(p, "role") /\ pc[p] = "record"

LEMMA RowsApartAtFirst == Init => RowsApart
BY DEF Init, RowsApart, NoWork

\* A step that neither writes nor commits a row of the catalog, and goes no
\* way back in a transaction that has.
LEMMA MovesKeepRowsApart ==
    ASSUME Advancing, RowsApart, NEW p \in Instances, NEW s \in PCs, Goto(p, s),
           roles' = roles,
           \A q \in Instances \ {p} : work'[q] = work[q],
           \/ work'[p].roles = {}
           \/ work'[p].roles = work[p].roles /\ "member" \notin work[p].roles
              /\ s \in {"grant", "membership", "record"}
    PROVE  RowsApart'
<1>1. /\ pc'[p] = s /\ \A q \in Instances \ {p} : pc'[q] = pc[q]
  BY DEF Goto, Advancing, TypeOK
<1> QED
  BY <1>1 DEF RowsApart, Sees

\* Where the transaction of 008 has written nothing yet.
LEMMA NothingWrittenYet ==
    ASSUME RowsApart, NEW p \in Instances,
           pc[p] \notin {"grant", "membership", "record"}
    PROVE  work[p].roles = {}
  BY DEF RowsApart

LEMMA StatementsKeepRowsApart ==
    ASSUME Advancing, RowsApart, NEW p \in Instances,
           InsertRole(p) \/ GrantSchema(p) \/ GrantMembership(p) \/ RecordRole(p)
    PROVE  RowsApart'
<1>1. /\ pc \in [Instances -> PCs]
      /\ work \in [Instances -> [roles: SUBSET Catalog, grants: SUBSET Databases]]
  BY DEF Advancing, TypeOK
<1>2. ASSUME Dies(p, "role") PROVE RowsApart'
  <2>1. /\ Goto(p, "down") /\ roles' = roles
        /\ work' = [work EXCEPT ![p] = NoWork]
    BY <1>2 DEF Dies, Disconnects
  <2>2. work'[p].roles = {} /\ \A q \in Instances \ {p} : work'[q] = work[q]
    BY <1>1, <2>1 DEF NoWork
  <2> QED
    BY <2>1, <2>2, MovesKeepRowsApart DEF PCs
<1>3. CASE InsertRole(p) /\ ~Dies(p, "role")
  <2>1. /\ pc[p] = "role_insert" /\ "role" \notin roles /\ ~Contested(p, "role")
        /\ pc' = [pc EXCEPT ![p] = "grant"] /\ roles' = roles
        /\ work' = [work EXCEPT ![p].roles = @ \cup {"role"}]
    BY <1>3 DEF InsertRole, Goto
  <2>2. work[p].roles = {}
    BY <2>1, NothingWrittenYet
  <2>3. /\ work'[p].roles = {"role"} /\ pc'[p] = "grant"
        /\ \A q \in Instances \ {p} : work'[q] = work[q] /\ pc'[q] = pc[q]
    BY <1>1, <2>1, <2>2
  <2> QED
    BY <2>1, <2>3 DEF RowsApart, Contested, Sees
<1>4. CASE GrantSchema(p)
  <2>1. /\ pc[p] = "grant" /\ Goto(p, "membership") /\ roles' = roles
        /\ \E g : work' = [work EXCEPT ![p].grants = g]
    BY <1>4 DEF GrantSchema
  <2>2. /\ work'[p].roles = work[p].roles
        /\ \A q \in Instances \ {p} : work'[q] = work[q]
    BY <1>1, <2>1
  <2>3. "member" \notin work[p].roles
    BY <2>1 DEF RowsApart
  <2> QED
    BY <2>1, <2>2, <2>3, MovesKeepRowsApart DEF PCs
<1>5. CASE GrantMembership(p)
  <2>1. /\ pc[p] = "membership" /\ pc' = [pc EXCEPT ![p] = "record"]
        /\ roles' = roles
        /\ \/ work' = [work EXCEPT ![p].roles = @ \cup {"member"}] /\ Sees(p, "role")
           \/ work' = [work EXCEPT ![p].roles = @]
    BY <1>5 DEF GrantMembership, Goto
  <2>2. /\ pc'[p] = "record"
        /\ \/ work'[p].roles = work[p].roles \cup {"member"} /\ Sees(p, "role")
           \/ work'[p].roles = work[p].roles
        /\ \A q \in Instances \ {p} : work'[q] = work[q] /\ pc'[q] = pc[q]
    BY <1>1, <2>1
  <2> QED
    BY <2>1, <2>2 DEF RowsApart, Sees
<1>6. CASE RecordRole(p)
  <2>1. /\ pc' = [pc EXCEPT ![p] = "next"]
        /\ roles' = roles \cup work[p].roles /\ work' = [work EXCEPT ![p] = NoWork]
    BY <1>6 DEF RecordRole, Goto
  <2>2. /\ work'[p].roles = {}
        /\ \A q \in Instances \ {p} : work'[q] = work[q] /\ pc'[q] = pc[q]
    BY <1>1, <2>1 DEF NoWork
  <2> QED
    BY <2>1, <2>2 DEF RowsApart, Sees
<1> QED
  BY <1>2, <1>3, <1>4, <1>5, <1>6

\* Every other step leaves the catalog, and what others wrote, alone.
LEMMA OtherStepsKeepRowsApart ==
    ASSUME Advancing, RowsApart, NEW p \in Instances,
           \/ Start(p) \/ LookForSchema(p) \/ InsertSchema(p) \/ ConfirmSchema(p)
           \/ LockMigrations(p) \/ EnsureTracking(p) \/ MigrateSchema(p)
           \/ MigrateTables(p) \/ MigrateRole(p) \/ UnlockMigrations(p)
           \/ LookForRole(p) \/ CheckRole(p) \/ Probe(p) \/ OpenPool(p) \/ Crash(p)
    PROVE  RowsApart'
<1> USE DEF PCs
<1>1. ASSUME NEW why, Dies(p, why) PROVE RowsApart'
  <2>1. /\ Goto(p, "down") /\ roles' = roles
        /\ work' = [work EXCEPT ![p] = NoWork]
    BY <1>1 DEF Dies, Disconnects
  <2>2. work'[p].roles = {} /\ \A q \in Instances \ {p} : work'[q] = work[q]
    BY <2>1 DEF NoWork, Advancing, TypeOK
  <2> QED
    BY <2>1, <2>2, MovesKeepRowsApart
<1>2. CASE \E why : Dies(p, why)
  BY <1>1, <1>2
<1>3. CASE ~\E why : Dies(p, why)
  <2>1. /\ pc[p] \notin {"grant", "membership", "record"}
        /\ UNCHANGED <<roles, work>>
        /\ pc' = pc \/ \E s \in PCs : Goto(p, s)
    BY <1>3
    DEF Start, LookForSchema, InsertSchema, ConfirmSchema, LockMigrations,
        EnsureTracking, MigrateSchema, MigrateTables, MigrateRole, IsDue,
        UnlockMigrations, LookForRole, CheckRole, Probe, OpenPool, Crash,
        Continue, local
  <2>2. CASE pc' = pc
    BY <2>1, <2>2 DEF RowsApart, Sees
  <2>3. CASE \E s \in PCs : Goto(p, s)
    BY <2>1, <2>3, NothingWrittenYet, MovesKeepRowsApart
  <2> QED
    BY <2>1, <2>2, <2>3
<1> QED
  BY <1>2, <1>3

LEMMA AlwaysRowsApart == Spec => []RowsApart
<1>1. ASSUME Advancing, RowsApart, [Next]_vars
      PROVE  RowsApart'
  <2>1. CASE UNCHANGED <<pc, work, roles>>
    BY <1>1, <2>1 DEF RowsApart, Sees
  <2>2. ASSUME NEW p \in Instances,
               Start(p) \/ LockMigrations(p) \/ Step(p) \/ Crash(p)
        PROVE  RowsApart'
    BY <1>1, <2>2, StatementsKeepRowsApart, OtherStepsKeepRowsApart DEF Step
  <2> QED
    BY <1>1, <2>1, <2>2 DEF Next, Empower, vars, local
<1> QED
  BY <1>1, RowsApartAtFirst, AlwaysAdvancing, PTL DEF Spec

\* Instances of different databases wait for each other inside the lock of
\* their own, for the role and for its membership; still whoever waits waits
\* for one that migrates and waits for nothing, so no set of boots is stuck.
THEOREM SomeBootCanAlwaysMove ==
    Spec => [](\A p \in Instances : Waits(p) =>
                  \E q \in Instances : pc[q] \in Migrating /\ ~Waits(q))
<1>1. ASSUME Advancing, OneMigrator, RowsApart
      PROVE  \A p \in Instances : Waits(p) =>
                \E q \in Instances : pc[q] \in Migrating /\ ~Waits(q)
  <2>1. ASSUME NEW p \in Instances, NEW q \in Instances \ {p},
               "member" \in work[q].roles
        PROVE  pc[q] \in Migrating /\ ~Waits(q)
    BY <1>1, <2>1 DEF RowsApart, Waits, Migrating
  <2>2. ASSUME NEW p \in Instances, NEW q \in Instances \ {p},
               "role" \in work[q].roles
        PROVE  pc[q] \in Migrating /\ ~Waits(q)
    <3>1. pc[q] \in {"grant", "membership", "record"} /\ "role" \notin roles
      BY <1>1, <2>2 DEF RowsApart
    <3>2. ASSUME NEW r \in Instances \ {q}, "member" \in work[r].roles
          PROVE  FALSE
      BY <1>1, <2>2, <3>1, <3>2 DEF RowsApart, Sees
    <3> QED
      BY <3>1, <3>2 DEF Waits, Contested, Migrating
  <2>3. ASSUME NEW p \in Instances, pc[p] # "lock", Waits(p)
        PROVE  \E q \in Instances : pc[q] \in Migrating /\ ~Waits(q)
    BY <2>1, <2>2, <2>3 DEF Waits, Contested
  <2>4. ASSUME NEW p \in Instances, pc[p] = "lock", Waits(p)
        PROVE  \E q \in Instances : pc[q] \in Migrating /\ ~Waits(q)
    <3>1. Home[p] \in Databases /\ mutex[Home[p]] # NoInstance
      BY <2>4, BootAssumption DEF Waits
    <3>2. PICK q \in Instances : mutex[Home[p]] = q
      BY <1>1, <3>1 DEF Advancing, TypeOK
    <3>3. pc[q] \in Migrating /\ pc[q] # "lock"
      BY <1>1, <3>1, <3>2 DEF OneMigrator, Migrating
    <3> QED
      BY <2>3, <3>3
  <2> QED
    BY <2>3, <2>4
<1>2. RaceInv => OneMigrator
  BY DEF RaceInv
<1> QED
  BY <1>1, <1>2, AlwaysRaceInv, AlwaysAdvancing, AlwaysRowsApart, PTL
=============================================================================
