--------------------------- MODULE MCCrdDiscovery ---------------------------
(* Small instances of CrdDiscovery for TLC.  Liveness is checked, so no     *)
(* symmetry is declared.                                                    *)
EXTENDS CrdDiscovery
=============================================================================
