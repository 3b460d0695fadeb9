---------------------------- MODULE MCResearchDesk ----------------------------
\* How far each part of the desk is explored.
EXTENDS ResearchDesk, TLC

Clocks == [lab |-> 2, backtest |-> 0, evolution |-> 1,
           macro |-> 2, observatory |-> 2, market |-> 2, replay |-> 2,
           company |-> 1, context |-> 1, research |-> 1, campaign |-> 1, agents |-> 0]
Commands == [lab |-> 4, backtest |-> 0, evolution |-> 6,
             macro |-> 3, observatory |-> 3, market |-> 3, replay |-> 2,
             company |-> 2, context |-> 2, research |-> 2, campaign |-> 2, agents |-> 3]

U == {<<"a">>, <<"a", "b">>}
ResearchSymmetry == Permutations(Operators)
=============================================================================
