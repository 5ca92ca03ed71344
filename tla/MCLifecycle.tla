---------------------------- MODULE MCLifecycle ----------------------------
(***************************************************************************)
(* Small instances of ServiceLifecycle for TLC.                            *)
(***************************************************************************)
EXTENDS ServiceLifecycle, TLC

CONSTANTS c1, c2

=============================================================================
