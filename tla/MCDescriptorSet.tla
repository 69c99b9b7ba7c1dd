--------------------------- MODULE MCDescriptorSet ---------------------------
EXTENDS DescriptorSet, TLC

\* A small value and a large one.
CellsOf12 == [v \in Values |-> IF v = "small" THEN 1 ELSE 2]
Symmetry == Permutations(Plain)
=============================================================================
