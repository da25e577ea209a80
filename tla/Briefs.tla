-------------------------------- MODULE Briefs --------------------------------
(***************************************************************************)
(* seed_cells (ui_servo/control/explore.py): the k cells of the archive's  *)
(* grid that the briefs of a round aim at.  A greedy choice, furthest      *)
(* first, is followed by exchanges of one chosen cell for another as long  *)
(* as one spreads the set further.                                         *)
(*                                                                         *)
(* A cell is a triple of bins; cells are compared as Python compares       *)
(* tuples.  All chosen cells are distinct, so a set stands for the list.   *)
(***************************************************************************)
EXTENDS Integers, FiniteSets, FiniteSetsExt

CONSTANTS Resolution    \* bins per axis

ASSUME ResolutionAssumption == Resolution \in Nat \ {0}

VARIABLES
    wanted,     \* briefs asked for
    avoid,      \* cells to be avoided
    chosen      \* cells aimed at so far

aim == <<wanted, avoid, chosen>>

Bin == 0..(Resolution - 1)
Grid == Bin \X Bin \X Bin

(* The place of a cell in the order of tuples.                             *)
Index(c) == (c[1] * Resolution + c[2]) * Resolution + c[3]

First(cells) == CHOOSE c \in cells : \A d \in cells : Index(c) <= Index(d)

Squared(c, d) ==
    (c[1] - d[1]) * (c[1] - d[1]) + (c[2] - d[2]) * (c[2] - d[2]) + (c[3] - d[3]) * (c[3] - d[3])

Length == 0..(3 * (Resolution - 1) * (Resolution - 1))

(* How many pairs of the set are how far apart.                            *)
Profile(cells) ==
    [l \in Length |-> Cardinality({p \in cells \X cells : Squared(p[1], p[2]) = l}) \div 2]

(* Mutated: sorted with the largest distance first.                        *)
ReachesFurther(p, q) ==
    \E l \in Length : p[l] > q[l] /\ \A m \in Length : m > l => p[m] = q[m]

(* Two sorted lists of pairwise distances, compared lexicographically: the *)
(* further spread set has fewer pairs at the first length they differ in.  *)
SpreadsFurther(p, q) ==
    \E l \in Length : p[l] < q[l] /\ \A m \in Length : m < l => p[m] = q[m]

(* The sorted list of one set comes after that of another of its size.     *)
Later(cells, others) ==
    cells # others /\ First((cells \ others) \cup (others \ cells)) \in others

FurthestOf(cells, far) == First({c \in cells : \A d \in cells : far[d] <= far[c]})

(* Twice the distance from the centre of the grid, squared.                *)
FromCentre ==
    LET centre == <<Resolution - 1, Resolution - 1, Resolution - 1>>
    IN  [c \in Grid |-> Squared(<<2 * c[1], 2 * c[2], 2 * c[3]>>, centre)]

Nearest(c, cells) == Min({Squared(c, d) : d \in cells})

FromChosen == [c \in Grid |-> Nearest(c, chosen)]

-----------------------------------------------------------------------------
(* The free cells, or all of them when too few are free.                   *)
PoolFor(n, taken) == IF Cardinality(Grid \ taken) >= n THEN Grid \ taken ELSE Grid

pool == PoolFor(wanted, avoid)

(* seed_cells(n, avoid=taken), up to the first cell.                       *)
BeginAim(n, taken) ==
    /\ wanted' = n
    /\ avoid' = taken
    /\ LET cells == PoolFor(n, taken)
       IN  chosen' = IF n = Cardinality(cells) THEN cells ELSE {FurthestOf(cells, FromCentre)}

Greedy == Cardinality(chosen) < wanted

(* _farthest_first                                                         *)
TakeFurthest ==
    /\ Greedy
    /\ chosen' = chosen \cup {FurthestOf(pool \ chosen, FromChosen)}
    /\ UNCHANGED <<wanted, avoid>>

Swapped(cells) ==
    {(cells \ {out}) \cup {in} : out \in cells, in \in pool \ cells}

Better == {s \in Swapped(chosen) : SpreadsFurther(Profile(s), Profile(chosen))}

(* _improved: the best exchange, the later list of equals.                 *)
Exchange ==
    /\ ~Greedy
    /\ Better # {}
    /\ chosen' = CHOOSE s \in Better :
                    \A t \in Better \ {s} :
                       \/ SpreadsFurther(Profile(s), Profile(t))
                       \/ Profile(s) = Profile(t) /\ Later(s, t)
    /\ UNCHANGED <<wanted, avoid>>

Aimed == ~Greedy /\ Better = {}

-----------------------------------------------------------------------------
(* Properties                                                              *)

Pairs(cells) == {p \in cells \X cells : p[1] # p[2]}

Closest(cells) == Min({Squared(p[1], p[2]) : p \in Pairs(cells)})

(* The briefs a round gets: as many distinct cells as were asked for, none *)
(* of them to be avoided unless too few others are left, and spread: of    *)
(* two briefs at the closest distance, neither could be moved to a cell    *)
(* further than that from all the others.  So no other choice has a        *)
(* closest pair more than twice as far apart (seed_cells).                 *)
Spread ==
    /\ Cardinality(chosen) = wanted
    /\ chosen \cap avoid # {} => Cardinality(Grid \ avoid) < wanted
    /\ \A p \in Pairs(chosen) : \A passed \in pool \ chosen :
          Squared(p[1], p[2]) = Closest(chosen) =>
             Nearest(passed, chosen \ {p[1]}) <= Closest(chosen)
=============================================================================
