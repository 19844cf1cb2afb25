-------------------------------- MODULE MCBoot --------------------------------
(* Instances of Boot small enough for TLC. *)
EXTENDS Boot, TLC

CONSTANTS p1, p2, p3, a, b

\* Two instances of one database, one of another in the same cluster.
Shared == p1 :> a @@ p2 :> a @@ p3 :> b

\* One instance for each of two databases.
Apart == p1 :> a @@ p2 :> b

\* 001 creates the schema, 008 the role; a migration stands for those between
\* and one for 009.
FourMigrations == <<"schema", "tables", "role", "tables">>
=============================================================================
