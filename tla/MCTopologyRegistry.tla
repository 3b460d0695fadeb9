------------------------- MODULE MCTopologyRegistry -------------------------
EXTENDS TopologyRegistry, TLC

Symmetry == Permutations(Operators) \cup Permutations(Versions \ {Root})

=============================================================================
