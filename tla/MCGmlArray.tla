----------------------------- MODULE MCGmlArray -----------------------------
(* Two globals, a script with one local and one argument, one owner token     *)
(* besides the nullptr of the start.                                          *)
EXTENDS GmlArray

CONSTANTS g1, g2

\* The globals share an array, which is flat, or nested and holds one twice.
MCShapes ==
    {[globals |-> [g \in Globals |-> 1], data |-> <<<<Zero>>>>],
     [globals |-> [g \in Globals |-> 1], data |-> <<<<2, 2>>, <<Zero>>>>]}

\* Globals differ in their names only.
MCSymmetry == Permutations(Globals)
=============================================================================
