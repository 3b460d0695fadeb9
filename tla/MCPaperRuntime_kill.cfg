\* The evaluation of an order is filled before the next order is evaluated.
CONSTANTS
    Assets = {x, y}
    Prices = {2, 5}
    Quantities = {2}
    InitialCash = 20
    Policy <- SmallPolicy
    MinCommission = 1
    CommissionPct = 10
    SpreadPct = 10
    MaxOrders = 3
    MaxPending = 1
    MaxTime = 3
SPECIFICATION Spec
SYMMETRY Symmetry
INVARIANTS
    KillStateNeverRelaxes
CHECK_DEADLOCK FALSE
