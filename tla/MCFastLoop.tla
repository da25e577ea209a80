----------------------------- MODULE MCFastLoop -----------------------------
(***************************************************************************)
(* Two processes meet over one variant whose fragment carries the part's   *)
(* name as its span; the second input adds one that carries its own.       *)
(***************************************************************************)
EXTENDS FastLoop, TLC

CONSTANTS v1, v2, hero

MCBoth == <<v1, v2>>
MCOne == <<v1>>
Symmetry == Permutations(Process)
MCRootSpan == v1 :> hero @@ v2 :> v2
MCSafeName == v1 :> "v1" @@ v2 :> "v2" @@ hero :> "hero"
=============================================================================
