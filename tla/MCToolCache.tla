---------------------------- MODULE MCToolCache ----------------------------
(* Small instances of ToolCache for TLC.  Liveness is checked, so no        *)
(* symmetry is declared.                                                    *)
EXTENDS ToolCache
=============================================================================
