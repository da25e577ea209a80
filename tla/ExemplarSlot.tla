---------------------------- MODULE ExemplarSlot ----------------------------
(***************************************************************************)
(* What ExemplarStorePort.save_exemplar (ui_servo/ports/store.py) promises *)
(* for one exemplar name: the pick is replaced in one instant by exactly   *)
(* what a later save was given, or left untouched; it is never lost.       *)
(***************************************************************************)
EXTENDS Naturals

CONSTANT File    \* file names an exemplar may hold

VARIABLE pick    \* the pick held: a set of at most one

SlotInit == pick = {}

(* The pick becomes that of a save made after the one it replaces.         *)
Replace ==
    \E new \in pick' :
       /\ new.files \in (SUBSET File) \ {{}}
       /\ pick' = {new}
       /\ \A old \in pick : old.save < new.save

SlotSpec == SlotInit /\ [][Replace]_pick
=============================================================================
