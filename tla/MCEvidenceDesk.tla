---------------------------- MODULE MCEvidenceDesk ----------------------------
\* How far each part of the desk is explored.
EXTENDS EvidenceDesk, TLC

Clocks == [telegram |-> 1, archive |-> 1, news |-> 1, knowledge |-> 1,
           fusion |-> 2, geopolitical |-> 1, social |-> 2, government |-> 1]
Commands == [telegram |-> 2, archive |-> 2, news |-> 2, knowledge |-> 3,
              fusion |-> 3, geopolitical |-> 3, social |-> 4, government |-> 3]

EvidenceSymmetry ==
    Permutations(Operators) \cup Permutations(Stories)
        \cup Permutations(Natives) \cup Permutations(NativePosts)
=============================================================================
