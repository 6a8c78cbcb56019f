------------------------- MODULE MCSchemaMigration -------------------------
(* Instances of SchemaMigration for TLC.                                    *)
EXTENDS SchemaMigration
CONSTANTS old, new, twin

\* Two replicas of the new release and one of the old.
Releases == [p \in Processes |-> IF p = old THEN 2 ELSE 3]
=============================================================================
