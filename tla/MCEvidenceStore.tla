-------------------------- MODULE MCEvidenceStore --------------------------
(***************************************************************************)
(* The evidence store on two turns.                                        *)
(***************************************************************************)
EXTENDS EvidenceStore, TLC

CONSTANTS p1, p2, t1, t2

(* Two turns interleaved, so that one blob holds two records; and nothing. *)
MCInputs == {<<t1, t2, t1>>, <<>>}

MCQueries == {{t1, t2}}

ProcSymmetry == Permutations(Proc)
=============================================================================
