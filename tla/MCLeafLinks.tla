---------------------------- MODULE MCLeafLinks -----------------------------
(* LeafLinks for two leaves.                                                *)
EXTENDS LeafLinks, TLC

CONSTANTS x1, x2

\* The leaves are interchangeable.
Symmetric == Permutations({x1, x2})

============================================================================
