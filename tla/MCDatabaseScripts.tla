------------------------- MODULE MCDatabaseScripts --------------------------
(* Small instances of DatabaseScripts for TLC.                             *)
EXTENDS DatabaseScripts, TLC

Schemas == <<"accounts">>
Manifest == <<"function", "index">>
Symmetry == Permutations(Slot) \cup Permutations(Migrations)
=============================================================================
