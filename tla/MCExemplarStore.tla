-------------------------- MODULE MCExemplarStore --------------------------
(***************************************************************************)
(* One exemplar of one or two files, saved three times by a process that   *)
(* may die at any step and listed by another thread.                       *)
(***************************************************************************)
EXTENDS ExemplarStore, TLC

CONSTANTS s, r, f1, f2

FileSymmetry == Permutations(File)
=============================================================================
