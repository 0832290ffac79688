---------------------------- MODULE MCLeafHealth ----------------------------
(* Small instances of LeafHealth for TLC: leaves of the config file (s1,   *)
(* s2) and a leaf registered later (d1).  The leaves play different parts, *)
(* so no symmetry is declared.                                             *)
EXTENDS LeafHealth
=============================================================================
