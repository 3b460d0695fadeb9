--------------------------- MODULE MCPaperRuntime ---------------------------
EXTENDS PaperRuntime, TLC

Symmetry == Permutations(Assets)

\* A small policy with every limit in reach of a few orders.
SmallPolicy ==
    [order |-> 12, position |-> 50, gross |-> 70, sector |-> 60,
     turnover |-> 100, reserve |-> 50, costOrder |-> 50, costNav |-> 20,
     restricted |-> 10, halt |-> 30, trades |-> 2, positions |-> 1]

=============================================================================
