---------------------------- MODULE MCLeafClient ----------------------------
(* Small instances of LeafClient for TLC.                                  *)
EXTENDS LeafClient, TLC

Symmetry == Permutations(Callers)
=============================================================================
