\* Three orders, two of them awaiting their fill at once, and a market that moves.
CONSTANTS
    Assets = {x, y}
    Prices = {2, 5}
    Quantities = {2}
    InitialCash = 20
    Policy <- SmallPolicy
    MinCommission = 1
    CommissionPct = 10
    SpreadPct = 10
    MaxOrders = 3
    MaxPending = 2
    MaxTime = 3
SPECIFICATION Spec
SYMMETRY Symmetry
INVARIANTS
    TypeOK
    LedgerReconciles
PROPERTIES
    FreshPurchaseKeepsReserve
    FreshFillObeysKillState
CHECK_DEADLOCK FALSE
