--------------------------------- MODULE Boot ---------------------------------
(***************************************************************************)
(* From the start of an instance to its first request: the schema, the     *)
(* migrations, the runtime role and the choice to run as it.  Instances    *)
(* start at any time; several of one database are serialised by sqlx's     *)
(* migration lock, those of different databases of one cluster share the   *)
(* catalog of roles.  A boot that fails is a panic: the platform starts    *)
(* the instance again.                                                     *)
(***************************************************************************)
EXTENDS Naturals, Sequences, FiniteSets

CONSTANTS
    Instances, Databases, NoInstance,
    Home,           \* the database each instance is configured with
    Migrations,     \* what each migration is, in order
    InitialPower,   \* what the connecting role may do
    Faults          \* a crash, or an operator who changes the role's power

Powers == {"none", "createrole", "superuser"}

\* The migrations that matter here: the first creates the schema, one (008)
\* provisions the runtime role; the others write one database only.
ASSUME BootAssumption ==
    /\ NoInstance \notin Instances
    /\ Home \in [Instances -> Databases]
    /\ Migrations \in Seq({"schema", "tables", "role"})
    /\ \E k \in DOMAIN Migrations : Migrations[k] = "role"
    /\ InitialPower \in Powers
    /\ Faults \subseteq {"crash", "operator"}

VARIABLES
    schemas,    \* the databases that have the editor schema
    tracking,   \* the schemas of each database that hold _sqlx_migrations
    applied,    \* how many migrations each database has recorded
    granted,    \* the databases whose editor schema the runtime role may use
    roles,      \* rows of the cluster's catalog: the role, its membership
    power,      \* what the connecting role may do
    mutex,      \* the instance that holds each database's migration lock
    pc,         \* where each instance stands
    work,       \* what the open transaction of migration 008 has written
    adopt,      \* runtime_role_is_adoptable, as each instance found it
    cause       \* why an instance's last boot failed

vars == <<schemas, tracking, applied, granted, roles, power, mutex, pc, work,
          adopt, cause>>

\* catalog is what the databases hold, local what belongs to one boot.
catalog == <<schemas, tracking, applied, granted>>
local   == <<mutex, work, adopt, cause>>

Catalog == {"role", "member"}

NoWork == [roles |-> {}, grants |-> {}]

Init ==
    /\ schemas = {}
    /\ tracking = [d \in Databases |-> {}]
    /\ applied = [d \in Databases |-> 0]
    /\ granted = {}
    /\ roles = {}
    /\ power = InitialPower
    /\ mutex = [d \in Databases |-> NoInstance]
    /\ pc = [p \in Instances |-> "down"]
    /\ work = [p \in Instances |-> NoWork]
    /\ adopt = [p \in Instances |-> "unknown"]
    /\ cause = [p \in Instances |-> "none"]

Goto(p, s) == pc' = [pc EXCEPT ![p] = s]

\* A step that changes nothing but where the instance stands.
Continue(p, s) == Goto(p, s) /\ UNCHANGED <<catalog, roles, power, local>>

\* The connection closes: its transaction is rolled back, its lock released.
Disconnects(p) ==
    /\ work' = [work EXCEPT ![p] = NoWork]
    /\ mutex' = [d \in Databases |-> IF mutex[d] = p THEN NoInstance ELSE mutex[d]]

\* Broken variant: the migration lock outlives the connection that took it.
DiesHoldingLock(p, why) ==
    /\ Goto(p, "down")
    /\ work' = [work EXCEPT ![p] = NoWork]
    /\ cause' = [cause EXCEPT ![p] = why]
    /\ adopt' = [adopt EXCEPT ![p] = "unknown"]
    /\ UNCHANGED <<catalog, roles, power, mutex>>

\* expect: the process ends.
Dies(p, why) ==
    /\ Goto(p, "down")
    /\ Disconnects(p)
    /\ cause' = [cause EXCEPT ![p] = why]
    /\ adopt' = [adopt EXCEPT ![p] = "unknown"]
    /\ UNCHANGED <<catalog, roles, power>>

-----------------------------------------------------------------------------
(* ensure_schema_exists.                                                    *)

\* Broken variant: the migrations run on a database without the schema.
StartUnprepared(p) ==
    /\ pc[p] = "down"
    /\ Continue(p, "lock")

Start(p) ==
    /\ pc[p] = "down"
    /\ Continue(p, "schema_look")

\* CREATE SCHEMA IF NOT EXISTS: a look ...
LookForSchema(p) ==
    /\ pc[p] = "schema_look"
    /\ Continue(p, IF Home[p] \in schemas THEN "lock" ELSE "schema_insert")

\* Broken variant: losing the race is an error.
InsertSchemaIntolerant(p) ==
    /\ pc[p] = "schema_insert"
    /\ \/ /\ Home[p] \in schemas
          /\ Dies(p, "schema")
       \/ /\ Home[p] \notin schemas
          /\ schemas' = schemas \cup {Home[p]}
          /\ Goto(p, "lock")
          /\ UNCHANGED <<tracking, applied, granted, roles, power, local>>

\* ... followed by an insert, which fails when another connection won.
InsertSchema(p) ==
    /\ pc[p] = "schema_insert"
    /\ \/ /\ Home[p] \in schemas
          /\ Continue(p, "schema_confirm")
       \/ /\ Home[p] \notin schemas
          /\ schemas' = schemas \cup {Home[p]}
          /\ Goto(p, "lock")
          /\ UNCHANGED <<tracking, applied, granted, roles, power, local>>

\* The loss is confirmed on the catalog, not assumed.
ConfirmSchema(p) ==
    /\ pc[p] = "schema_confirm"
    /\ \/ Home[p] \in schemas /\ Continue(p, "lock")
       \/ Home[p] \notin schemas /\ Dies(p, "schema")

-----------------------------------------------------------------------------
(* sqlx::migrate!().run().                                                  *)

\* Broken variant: no migration lock.
LockMigrationsFreely(p) ==
    /\ pc[p] = "lock"
    /\ mutex' = [mutex EXCEPT ![Home[p]] = p]
    /\ Goto(p, "track")
    /\ UNCHANGED <<catalog, roles, power, work, adopt, cause>>

\* An advisory lock on the database, held by the session.
LockMigrations(p) ==
    /\ pc[p] = "lock"
    /\ mutex[Home[p]] = NoInstance
    /\ mutex' = [mutex EXCEPT ![Home[p]] = p]
    /\ Goto(p, "track")
    /\ UNCHANGED <<catalog, roles, power, work, adopt, cause>>

\* An unqualified CREATE TABLE IF NOT EXISTS: it lands in the first schema of
\* the search path that exists, and public always does.
EnsureTracking(p) ==
    LET d == Home[p]
        place == IF d \in schemas THEN "editor" ELSE "public"
    IN
    /\ pc[p] = "track"
    /\ tracking' = [tracking EXCEPT ![d] = @ \cup {place}]
    /\ Goto(p, "next")
    /\ UNCHANGED <<schemas, applied, granted, roles, power, local>>

\* The migration that is due: each runs and is recorded in one transaction.
Due(p) == applied[Home[p]] + 1
IsDue(p, kind) ==
    /\ pc[p] = "next"
    /\ Due(p) <= Len(Migrations)
    /\ Migrations[Due(p)] = kind

Recorded(p) == applied' = [applied EXCEPT ![Home[p]] = @ + 1]

MigrateSchema(p) ==
    /\ IsDue(p, "schema")
    /\ schemas' = schemas \cup {Home[p]}
    /\ Recorded(p)
    /\ UNCHANGED <<tracking, granted, roles, power, pc, local>>

MigrateTables(p) ==
    /\ IsDue(p, "tables")
    /\ Recorded(p)
    /\ UNCHANGED <<schemas, tracking, granted, roles, power, pc, local>>

MigrateRole(p) ==
    /\ IsDue(p, "role")
    /\ Continue(p, "role_look")

UnlockMigrations(p) ==
    /\ pc[p] = "next"
    /\ Due(p) > Len(Migrations)
    /\ mutex' = [mutex EXCEPT ![Home[p]] = NoInstance]
    /\ Goto(p, "probe")
    /\ UNCHANGED <<catalog, roles, power, work, adopt, cause>>

-----------------------------------------------------------------------------
(* Migration 008, one transaction.  Its statements see what is committed    *)
(* and what it wrote itself.                                                *)

Sees(p, row) == row \in roles \cup work[p].roles

\* The row another open transaction has inserted and not yet committed.
Contested(p, row) ==
    \E q \in Instances \ {p} : row \in work[q].roles

\* IF NOT EXISTS, then the privilege CREATE ROLE asks for; the block catches
\* insufficient_privilege.
LookForRole(p) ==
    /\ pc[p] = "role_look"
    /\ Continue(p, IF Sees(p, "role") \/ power = "none" THEN "grant"
                                                        ELSE "role_check")

\* CREATE ROLE looks for itself: duplicate_object is caught.
CheckRole(p) ==
    /\ pc[p] = "role_check"
    /\ Continue(p, IF Sees(p, "role") THEN "grant" ELSE "role_insert")

\* The insert waits for a transaction that has inserted the same name, and is
\* a unique_violation once that commits, which the block does not catch.
InsertRole(p) ==
    /\ pc[p] = "role_insert"
    /\ ~Contested(p, "role")
    /\ \/ /\ "role" \in roles
          /\ Dies(p, "role")
       \/ /\ "role" \notin roles
          /\ work' = [work EXCEPT ![p].roles = @ \cup {"role"}]
          /\ Goto(p, "grant")
          /\ UNCHANGED <<catalog, roles, power, mutex, adopt, cause>>

\* Broken variant: a role somebody else created is taken as already granted.
GrantSchemaToOwnRole(p) ==
    /\ pc[p] = "grant"
    /\ work' = [work EXCEPT ![p].grants =
                  IF "role" \in work[p].roles THEN {Home[p]} ELSE {}]
    /\ Goto(p, "membership")
    /\ UNCHANGED <<catalog, roles, power, mutex, adopt, cause>>

\* GRANT ... ON SCHEMA editor: undefined_object is caught.
GrantSchema(p) ==
    /\ pc[p] = "grant"
    /\ work' = [work EXCEPT ![p].grants = IF Sees(p, "role") THEN {Home[p]} ELSE {}]
    /\ Goto(p, "membership")
    /\ UNCHANGED <<catalog, roles, power, mutex, adopt, cause>>

\* Broken variant: skipped when pg_has_role already answers true, as it does
\* for the creator of the role, who may not SET ROLE for all that.
GrantMembershipUnlessMember(p) ==
    /\ pc[p] = "membership"
    /\ ~Contested(p, "member")
    /\ work' = [work EXCEPT ![p].roles =
                  IF /\ Sees(p, "role") /\ power # "none" /\ ~Sees(p, "member")
                     /\ "role" \notin work[p].roles
                  THEN @ \cup {"member"} ELSE @]
    /\ Goto(p, "record")
    /\ UNCHANGED <<catalog, roles, power, mutex, adopt, cause>>

\* GRANT editor_app TO current_user, which locks the role: it waits for a
\* concurrent grant and is then a no-op.  Both its errors are caught.
GrantMembership(p) ==
    /\ pc[p] = "membership"
    /\ ~Contested(p, "member")
    /\ work' = [work EXCEPT ![p].roles =
                  IF Sees(p, "role") /\ power # "none" /\ ~Sees(p, "member")
                  THEN @ \cup {"member"} ELSE @]
    /\ Goto(p, "record")
    /\ UNCHANGED <<catalog, roles, power, mutex, adopt, cause>>

RecordRole(p) ==
    /\ pc[p] = "record"
    /\ roles' = roles \cup work[p].roles
    /\ granted' = granted \cup work[p].grants
    /\ Recorded(p)
    /\ work' = [work EXCEPT ![p] = NoWork]
    /\ Goto(p, "next")
    /\ UNCHANGED <<schemas, tracking, power, mutex, adopt, cause>>

-----------------------------------------------------------------------------
(* The serving pool.                                                        *)

\* The role exists and SET ROLE succeeds.
Adoptable == "role" \in roles /\ ("member" \in roles \/ power = "superuser")

Probe(p) ==
    /\ pc[p] = "probe"
    /\ adopt' = [adopt EXCEPT ![p] = IF Adoptable THEN "yes" ELSE "no"]
    /\ Goto(p, "pool")
    /\ UNCHANGED <<catalog, roles, power, mutex, work, cause>>

\* Every connection of the pool runs session_setup; the boot pool is closed.
OpenPool(p) ==
    /\ pc[p] = "pool"
    /\ IF adopt[p] = "yes" /\ "member" \notin roles /\ power # "superuser"
       THEN Dies(p, "pool")
       ELSE Continue(p, "serving")

-----------------------------------------------------------------------------
(* The environment.                                                         *)

Crash(p) ==
    /\ "crash" \in Faults
    /\ pc[p] # "down"
    /\ Dies(p, "crash")

MorePower == [none       |-> {"createrole", "superuser"},
              createrole |-> {"superuser"},
              superuser  |-> {}]

\* The operator lets the connecting role do more than it could.
Empower ==
    /\ "operator" \in Faults
    /\ power' \in MorePower[power]
    /\ UNCHANGED <<catalog, roles, pc, local>>

-----------------------------------------------------------------------------
Step(p) ==
    \/ LookForSchema(p) \/ InsertSchema(p) \/ ConfirmSchema(p)
    \/ EnsureTracking(p) \/ MigrateSchema(p) \/ MigrateTables(p)
    \/ MigrateRole(p) \/ UnlockMigrations(p)
    \/ LookForRole(p) \/ CheckRole(p) \/ InsertRole(p)
    \/ GrantSchema(p) \/ GrantMembership(p) \/ RecordRole(p)
    \/ Probe(p) \/ OpenPool(p)

\* Every instance serves: nothing is left to do.
Up == \A p \in Instances : pc[p] = "serving"

Next ==
    \/ \E p \in Instances : Start(p) \/ LockMigrations(p) \/ Step(p) \/ Crash(p)
    \/ Empower
    \/ Up /\ UNCHANGED vars

Spec == Init /\ [][Next]_vars

\* An instance that is down is started again, one that can move does, and
\* crashes, however many, come to an end.  The migration lock need not be fair
\* to those who wait for it.
FairSpec ==
    /\ Spec
    /\ \A p \in Instances : WF_vars(Start(p) \/ LockMigrations(p) \/ Step(p))
    /\ <>[][\A p \in Instances : ~Crash(p)]_vars

-----------------------------------------------------------------------------
PCs == {"down", "schema_look", "schema_insert", "schema_confirm", "lock",
        "track", "next", "role_look", "role_check", "role_insert", "grant",
        "membership", "record", "probe", "pool", "serving"}

\* Where an instance holds the migration lock, and where it has the
\* transaction of migration 008 open.
Migrating   == {"track", "next"} \cup
               {"role_look", "role_check", "role_insert", "grant", "membership",
                "record"}
Provisioning == Migrating \ {"track", "next"}

\* Every variable keeps its type.
TypeOK ==
    /\ schemas \subseteq Databases
    /\ tracking \in [Databases -> SUBSET {"editor", "public"}]
    /\ applied \in [Databases -> 0..Len(Migrations)]
    /\ granted \subseteq Databases
    /\ roles \subseteq Catalog
    /\ power \in Powers
    /\ mutex \in [Databases -> Instances \cup {NoInstance}]
    /\ pc \in [Instances -> PCs]
    /\ work \in [Instances -> [roles: SUBSET Catalog, grants: SUBSET Databases]]
    /\ adopt \in [Instances -> {"unknown", "yes", "no"}]
    /\ cause \in [Instances -> {"none", "schema", "role", "pool", "crash"}]

\* main.rs: the tracking table never lands in public, where other services
\* live, whatever instances start together on a fresh database.
TrackedInEditor == \A d \in Databases : "public" \notin tracking[d]

\* An instance serves only a database whose every migration is recorded, and
\* never with a role that may not use its tables: one that did would refuse
\* every request.
ServesWhatItMayUse ==
    \A p \in Instances : pc[p] = "serving" =>
        /\ applied[Home[p]] = Len(Migrations)
        /\ adopt[p] = "yes" => Home[p] \in granted

\* migrations/008: "No secret to rotate, no operator step, and the same
\* posture": where the connecting role has the power, every serving instance
\* has dropped its privileges, so PostgreSQL enforces the tenant policies.
PrivilegesDropped ==
    \A p \in Instances :
        pc[p] = "serving" /\ InitialPower # "none" => adopt[p] = "yes"

\* repository/schema.rs: losing the race for the schema is a success.
SchemaRaceKillsNobody == \A p \in Instances : cause[p] # "schema"

\* migrations/008: the role is "created concurrently, which is the
\* postcondition": losing that race must not end a boot either.
RoleRaceKillsNobody == \A p \in Instances : cause[p] # "role"

\* Two instances never migrate one database at the same time, and an instance
\* never keeps the lock once it is down or serving.
OneMigrator ==
    \A p \in Instances : \A d \in Databases :
        mutex[d] = p <=> d = Home[p] /\ pc[p] \in Migrating

\* An instance that is started serves in the end, whatever races it lost on
\* the way, if it is started again after each.
EveryInstanceServes ==
    \A p \in Instances : pc[p] = "schema_look" ~> pc[p] = "serving"

-----------------------------------------------------------------------------
(* The inductive invariant behind ServesWhatItMayUse and PrivilegesDropped,  *)
(* which hold where a connecting role that gets power had some at first.    *)

\* Nobody reaches the migrations of a database that lacks the schema.
Prepared ==
    \A p \in Instances :
        pc[p] \notin {"down", "schema_look", "schema_insert", "schema_confirm"}
        => Home[p] \in schemas

\* What the open transaction of migration 008 has made sure of so far.
Provisioned(p) ==
    /\ pc[p] \notin Provisioning => work[p] = NoWork
    /\ pc[p] \in Provisioning =>
         Due(p) <= Len(Migrations) /\ Migrations[Due(p)] = "role"
    /\ pc[p] \in {"role_look", "role_check", "role_insert"} => work[p] = NoWork
    /\ power = "none" =>
         work[p].roles = {} /\ pc[p] \notin {"role_check", "role_insert"}
    /\ power # "none" =>
         /\ pc[p] \in {"grant", "membership", "record"} => Sees(p, "role")
         /\ pc[p] \in {"membership", "record"} => work[p].grants = {Home[p]}
         /\ pc[p] = "record" => Sees(p, "member")

\* What an instance has found on its way to serving.
Verified(p) ==
    /\ pc[p] \in {"probe", "pool", "serving"} =>
         applied[Home[p]] = Len(Migrations)
    /\ pc[p] \in {"pool", "serving"} =>
         adopt[p] = IF power = "none" THEN "no" ELSE "yes"

\* A database that has recorded migration 008 has all it was to bring.
RoleInForce ==
    /\ power = "none" => roles = {}
    /\ power # "none" =>
         \A d \in Databases : \A k \in 1..applied[d] :
             Migrations[k] = "role" => d \in granted /\ Catalog \subseteq roles

\* The connecting role has had some power from the start, or has none.
PowerKept == power = "none" <=> InitialPower = "none"

BootInv ==
    /\ TypeOK /\ Prepared /\ TrackedInEditor /\ OneMigrator
    /\ PowerKept
    /\ \A p \in Instances : Provisioned(p) /\ Verified(p)
    /\ RoleInForce
=============================================================================
