-------------------------- MODULE MCSchemaUpgrade --------------------------
(* Databases of every version, and of a release to come. *)
EXTENDS SchemaUpgrade

MCOldVersions == 1 .. SchemaVersion + 1
=============================================================================
