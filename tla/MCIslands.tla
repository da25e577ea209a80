----------------------------- MODULE MCIslands -----------------------------
(***************************************************************************)
(* Two sandboxes and a constellation that share one load.  A bound on      *)
(* moves leaves room for two full trips of one element during another's    *)
(* mount, and for a second load after a failed one.                        *)
(***************************************************************************)
EXTENDS Islands

CONSTANTS s1, s2, k1, k2
=============================================================================
