---------------------------- MODULE PaperRuntime ----------------------------
(***************************************************************************)
(* The simulated account of paper/: a caller proposes orders, has the risk *)
(* governor evaluate each one against the account snapshot it holds, and   *)
(* fills the approved ones later, at the next session's prices.  Several   *)
(* evaluated orders may await their fill, and each fill gives the caller   *)
(* the snapshot it holds next.                                             *)
(*                                                                         *)
(* Money and quantities are counted in their smallest unit, rates in       *)
(* percent.  All instants of the model are of one trading day, so the      *)
(* caller's trades_today and turnover_today count every fill.  A step that *)
(* raises rolls the caller's transaction back, and is no step here.        *)
(***************************************************************************)
EXTENDS Integers, Sequences, FiniteSetsExt

CONSTANTS
    Assets,         \* tradable assets
    Prices,         \* prices the market may quote
    Quantities,     \* quantities a signal may ask for
    InitialCash,    \* initial_cash of the portfolio
    Policy,         \* the RiskPolicy: a record of its limits
    MinCommission,  \* CostModel.minimum_commission
    CommissionPct,  \* CostModel.commission_rate
    SpreadPct,      \* CostModel.spread_bps and slippage_bps together
    MaxOrders,      \* bound on the orders proposed
    MaxPending,     \* bound on the approved orders that await their fill
    MaxTime         \* bound on the clock

PolicyLimits == [order: Nat, position: 0..100, gross: 0..100, sector: 0..100,
                 turnover: 0..100, reserve: 0..100, costOrder: 0..100,
                 costNav: 0..100, restricted: 0..100, halt: 0..100,
                 trades: Nat \ {0}, positions: Nat \ {0}]

ASSUME PaperAssumption ==
    /\ IsFiniteSet(Assets)
    /\ Prices \subseteq Nat \ {0}
    /\ Quantities \subseteq Nat \ {0}
    /\ InitialCash \in Nat \ {0}
    /\ Policy \in PolicyLimits
    /\ MinCommission \in Nat /\ CommissionPct \in Nat /\ SpreadPct \in Nat
    /\ MaxOrders \in Nat /\ MaxPending \in Nat /\ MaxTime \in Nat

VARIABLES
    now,        \* the explicit clock
    market,     \* the price each asset has now
    orders,     \* paper_orders, each with its evaluation and its decision
    fills,      \* paper_fills, in the order they were recorded
    snapshots   \* paper_account_snapshots; the last is the caller's account

vars == <<now, market, orders, fills, snapshots>>

Sides == {"buy", "sell"}
KillState == {"normal", "entry_restricted", "paused", "halted"}
Rank == [normal |-> 0, entry_restricted |-> 1, paused |-> 2, halted |-> 3]
Action == {"none", "approved", "resized", "rejected", "portfolio_halted"}

Position == [qty: Nat, mark: Nat]
NoPosition == [qty |-> 0, mark |-> 0]

Snapshot == [time: 0..MaxTime, cash: Nat, value: Nat, peak: Nat,
             pos: [Assets -> Position], kill: KillState]

Evaluation == [action: Action, qty: Nat, notional: Nat, kill: KillState,
               basis: Nat]

NotEvaluated == [action |-> "none", qty |-> 0, notional |-> 0,
                 kill |-> "normal", basis |-> 0]

Order == [asset: Assets, side: Sides, qty: Nat, price: Prices,
          eval: Evaluation, decided: BOOLEAN]

FillRow == [order: Nat, asset: Assets, side: Sides, qty: Nat, price: Prices,
            cost: Nat, at: 0..MaxTime]

account == snapshots[Len(snapshots)]
Nav(s) == s.cash + s.value
Held(s) == {a \in Assets : s.pos[a].qty > 0}

Pct(rate, amount) == (rate * amount) \div 100
AtMost(part, rate, whole) == 100 * part <= rate * whole

\* drawdown >= rate, where drawdown = (peak - nav) / peak
DrawdownReaches(s, rate) == 100 * (s.peak - Nav(s)) >= rate * s.peak

\* transaction_costs: a commission with a floor, then spread and slippage; accounts
\* of one currency and no taxes
Cost(notional) == Max({MinCommission, Pct(CommissionPct, notional)}) + Pct(SpreadPct, notional)

Turnover == MapThenSumSet(LAMBDA i : fills[i].qty * fills[i].price, DOMAIN fills)

-----------------------------------------------------------------------------

InitialSnapshot ==
    [time |-> 0, cash |-> InitialCash, value |-> 0, peak |-> InitialCash,
     pos |-> [a \in Assets |-> NoPosition], kill |-> "normal"]

Init ==
    /\ now = 0
    /\ market \in [Assets -> Prices]
    /\ orders = <<>>
    /\ fills = <<>>
    /\ snapshots = <<InitialSnapshot>>

\* Once between two snapshots: only their order matters.
Tick ==
    /\ now < MaxTime
    /\ now <= account.time
    /\ now' = now + 1
    /\ UNCHANGED <<market, orders, fills, snapshots>>

MarketMoves ==
    /\ \E a \in Assets, p \in Prices :
          p # market[a] /\ market' = [market EXCEPT ![a] = p]
    /\ UNCHANGED <<now, orders, fills, snapshots>>

\* PaperRuntime.propose, for an admitted signal.  A bound: at most one order
\* awaits its evaluation.
Propose ==
    /\ Len(orders) < MaxOrders
    /\ \A i \in DOMAIN orders : orders[i].eval.action # "none"
    /\ \E a \in Assets, side \in Sides, q \in Quantities :
          orders' = Append(orders,
              [asset |-> a, side |-> side, qty |-> q, price |-> market[a],
               eval |-> NotEvaluated, decided |-> FALSE])
    /\ UNCHANGED <<now, market, fills, snapshots>>

\* Variant: the cash reserve does not allow for the costs.
CapsWithoutCost(s, cost) ==
    {Policy.order,
     Pct(Policy.position, Nav(s)),
     Pct(Policy.gross, Nav(s)) - s.value,
     s.cash - Pct(Policy.reserve, Nav(s)),
     Pct(Policy.turnover, Nav(s)) - Turnover,
     Pct(Policy.sector, Nav(s))}

\* What may still be bought: the least of the caps.  The snapshots' sector and
\* currency exposures are never filled in, so those caps subtract nothing.
Caps(s, cost) ==
    {Policy.order,
     Pct(Policy.position, Nav(s)),
     Pct(Policy.gross, Nav(s)) - s.value,
     s.cash - Pct(Policy.reserve, Nav(s)) - cost,
     Pct(Policy.turnover, Nav(s)) - Turnover,
     Pct(Policy.sector, Nav(s))}

\* quantity and notional the limits leave of order o, and whether they changed it.
Sized(o, s) ==
    LET asked == o.qty * o.price
        held == s.pos[o.asset].qty
        allowed == Min(Caps(s, Cost(asked)))
    IN  CASE o.side = "sell" /\ held > 0 /\ o.qty > held ->
                 [qty |-> held, notional |-> held * o.price, cut |-> TRUE]
          [] o.side = "sell" /\ held = 0 ->
                 [qty |-> o.qty, notional |-> asked, cut |-> TRUE]
          [] o.side = "buy" /\ allowed < asked /\ allowed > 0 ->
                 [qty |-> (o.qty * allowed) \div asked, notional |-> allowed,
                  cut |-> TRUE]
          [] o.side = "buy" /\ allowed < asked /\ allowed <= 0 ->
                 [qty |-> 0, notional |-> 0, cut |-> TRUE]
          [] OTHER -> [qty |-> o.qty, notional |-> asked, cut |-> FALSE]

\* MAX_TRADES and MAX_POSITIONS give a reason, and leave the size as it is.
OverCount(o, s) ==
    \/ Len(fills) >= Policy.trades
    \/ /\ o.side = "buy"
       /\ Cardinality(Held(s)) >= Policy.positions
       /\ o.asset \notin Held(s)

TooCostly(o, s, notional) ==
    \/ notional = 0
    \/ 100 * Cost(o.qty * o.price) > Policy.costOrder * notional
    \/ 100 * Cost(o.qty * o.price) > Policy.costNav * Nav(s)

Verdict(action, qty, notional, kill) ==
    [action |-> action, qty |-> qty, notional |-> notional, kill |-> kill,
     basis |-> Len(snapshots)]

\* Variant: drawdown restricts the order and not the portfolio.
EvaluateOrderNotTightening(o, s, causal, admissible) ==
    LET size == Sized(o, s)
        restricts == DrawdownReaches(s, Policy.restricted)
        refused == TooCostly(o, s, size.notional) \/ (restricts /\ o.side = "buy")
    IN  IF Nav(s) = 0 \/ ~causal THEN Verdict("portfolio_halted", 0, 0, "halted")
        ELSE IF refused THEN Verdict("rejected", 0, 0, "normal")
        ELSE Verdict("approved", size.qty, size.notional, "normal")

\* evaluate_order on the snapshot s.  causal: the market observation is not of
\* the future and the signal not later than the evaluation; admissible: fresh
\* data, a valid strategy, enough evidence, an allowed asset and exchange.
EvaluateOrder(o, s, causal, admissible) ==
    LET size == Sized(o, s)
        restricts == DrawdownReaches(s, Policy.restricted)
        barred == s.kill \in {"paused", "halted"}
                     \/ (s.kill = "entry_restricted" /\ o.side = "buy")
        refused == TooCostly(o, s, size.notional) \/ (restricts /\ o.side = "buy")
        kill == IF restricts THEN "entry_restricted" ELSE s.kill
    IN  IF Nav(s) = 0 \/ ~causal THEN Verdict("portfolio_halted", 0, 0, "halted")
        ELSE IF ~admissible \/ barred THEN Verdict("rejected", 0, 0, s.kill)
        ELSE IF DrawdownReaches(s, Policy.halt)
             THEN Verdict("portfolio_halted", 0, 0, "halted")
        ELSE IF refused THEN Verdict("rejected", 0, 0, kill)
        ELSE Verdict(IF size.cut \/ OverCount(o, s) THEN "resized" ELSE "approved",
                     size.qty, size.notional, kill)

Awaiting == {i \in DOMAIN orders : orders[i].eval.action # "none" /\ ~orders[i].decided}

\* PaperRuntime.evaluate, of an order not evaluated before, on the account held.
Evaluate ==
    /\ Cardinality(Awaiting) < MaxPending
    /\ \E i \in DOMAIN orders, causal, admissible \in BOOLEAN :
          /\ orders[i].eval.action = "none"
          /\ orders' = [orders EXCEPT ![i] = [@ EXCEPT !.eval =
                            EvaluateOrder(orders[i], account, causal, admissible)]]
    /\ UNCHANGED <<now, market, fills, snapshots>>

\* PaperRuntime.fill of an evaluation that approves nothing: a decision not to
\* execute, and the account as it was.
Decline ==
    /\ \E i \in Awaiting :
          /\ orders[i].eval.action \in {"rejected", "portfolio_halted"}
          /\ orders' = [orders EXCEPT ![i] = [@ EXCEPT !.decided = TRUE]]
    /\ UNCHANGED <<now, market, fills, snapshots>>

\* Variant: the costs of a sale are not taken.
CashAfterFreeSale(s, side, q, p) ==
    IF side = "buy" THEN s.cash - q * p - Cost(q * p) ELSE s.cash + q * p

\* Cash and holding of the order's asset after quantity q at price p.
CashAfter(s, side, q, p) ==
    IF side = "buy" THEN s.cash - q * p - Cost(q * p) ELSE s.cash + q * p - Cost(q * p)

HeldAfter(s, o, q) ==
    IF o.side = "buy" THEN s.pos[o.asset].qty + q ELSE s.pos[o.asset].qty - q

\* apply_fill: the snapshot after the fill, marked at the prices supplied.  The
\* value counts every supplied mark; only the traded position stores its own.
ApplyFill(s, o, q, p, marks, kill) ==
    LET left == HeldAfter(s, o, q)
        pos == [s.pos EXCEPT ![o.asset] =
                   IF left = 0 THEN NoPosition
                   ELSE [qty |-> left,
                         mark |-> IF o.asset \in DOMAIN marks THEN marks[o.asset] ELSE p]]
        price(a) == IF a \in DOMAIN marks THEN marks[a] ELSE pos[a].mark
        cash == CashAfter(s, o.side, q, p)
        value == MapThenSumSet(LAMBDA a : pos[a].qty * price(a), Assets)
    IN  [time |-> now, cash |-> cash, value |-> value,
         peak |-> Max({s.peak, cash + value}), pos |-> pos, kill |-> kill]

\* Variant: a sale is not compared with the holding.
ReconcilesCashOnly(s, o, q, p) ==
    /\ CashAfter(s, o.side, q, p) >= 0
    /\ o.side = "buy" => HeldAfter(s, o, q) > 0

\* Negative cash, a short position and an average cost over no shares raise.
Reconciles(s, o, q, p) ==
    /\ CashAfter(s, o.side, q, p) >= 0
    /\ HeldAfter(s, o, q) >= 0
    /\ o.side = "buy" => HeldAfter(s, o, q) > 0

\* PaperRuntime.fill of an approved evaluation, at the market's price, on the
\* account held; add_snapshot refuses one that is not later than the last.
Fill ==
    \E i \in Awaiting, known \in SUBSET Assets :
        LET o == orders[i]
            q == o.eval.qty
            p == market[o.asset]
            marks == [a \in known |-> market[a]]
        IN  /\ o.eval.action \in {"approved", "resized"}
            /\ Reconciles(account, o, q, p)
            /\ account.time < now
            /\ orders' = [orders EXCEPT ![i] = [@ EXCEPT !.decided = TRUE]]
            /\ fills' = Append(fills,
                  [order |-> i, asset |-> o.asset, side |-> o.side, qty |-> q,
                   price |-> p, cost |-> Cost(q * p), at |-> now])
            /\ snapshots' = Append(snapshots,
                  ApplyFill(account, o, q, p, marks, o.eval.kill))
            /\ UNCHANGED <<now, market>>

Next == Tick \/ MarketMoves \/ Propose \/ Evaluate \/ Decline \/ Fill

Spec == Init /\ [][Next]_vars

-----------------------------------------------------------------------------

TypeOK ==
    /\ now \in 0..MaxTime
    /\ market \in [Assets -> Prices]
    /\ orders \in Seq(Order)
    /\ fills \in Seq(FillRow)
    /\ snapshots \in Seq(Snapshot)
    /\ Len(snapshots) = Len(fills) + 1

\* Shares of asset a that the first k fills leave, and the cash they leave.
SharesOf(a, k) ==
    MapThenSumSet(LAMBDA i : IF fills[i].asset # a THEN 0
                             ELSE IF fills[i].side = "buy" THEN fills[i].qty
                             ELSE -fills[i].qty, 1..k)

CashOf(k) ==
    InitialCash + MapThenSumSet(
        LAMBDA i : (IF fills[i].side = "buy" THEN -1 ELSE 1)
                      * fills[i].qty * fills[i].price - fills[i].cost, 1..k)

\* "PostgreSQL is the accounting authority": replaying the recorded fills gives
\* the cash and the holdings of every recorded snapshot, whichever evaluations
\* were stale when they were filled.
LedgerReconciles ==
    \A k \in 0..Len(fills) :
        /\ snapshots[k + 1].cash = CashOf(k)
        /\ \A a \in Assets : snapshots[k + 1].pos[a].qty = SharesOf(a, k)

\* Order i is filled by this step, on the snapshot it was evaluated against.
FreshFill(i) ==
    /\ Len(fills') > Len(fills)
    /\ fills'[Len(fills')].order = i
    /\ orders[i].eval.basis = Len(snapshots)

\* "Retain 30% cash": a purchase evaluated on the present snapshot and filled at
\* the price it was evaluated at leaves the reserve, its costs included.
FreshPurchaseKeepsReserve ==
    [][\A i \in DOMAIN orders :
          FreshFill(i) /\ orders[i].side = "buy" /\ market[orders[i].asset] = orders[i].price
             => account'.cash >= Pct(Policy.reserve, Nav(account))]_vars

\* An evaluation of the present snapshot never lets a fill relax the kill state,
\* nor buy for a restricted portfolio or one whose drawdown restricts it.
FreshFillObeysKillState ==
    [][\A i \in DOMAIN orders :
          FreshFill(i) =>
             /\ Rank[account'.kill] >= Rank[account.kill]
             /\ DrawdownReaches(account, Policy.restricted) \/ account.kill # "normal"
                   => orders[i].side = "sell" /\ account'.kill # "normal"]_vars

\* "State may tighten automatically; it never relaxes automatically": no account
\* snapshot is looser than an evaluation recorded before it.
KillStateNeverRelaxes ==
    \A i \in DOMAIN orders, k \in DOMAIN snapshots :
        orders[i].eval.action # "none" /\ k > orders[i].eval.basis
           => Rank[snapshots[k].kill] >= Rank[orders[i].eval.kill]

\* "Maximum position 25% ... at most three trades and three concurrent
\* positions": a purchase is approved only if, on the account it was evaluated
\* against, it exceeds none of these.
ApprovalsRespectLimits ==
    \A i \in DOMAIN orders :
        LET o == orders[i]
            s == snapshots[o.eval.basis]
        IN  o.eval.action \in {"approved", "resized"} /\ o.side = "buy" =>
                /\ o.eval.basis - 1 < Policy.trades
                /\ Cardinality(Held(s) \cup {o.asset}) <= Policy.positions
                /\ AtMost(s.pos[o.asset].qty * o.price + o.eval.notional,
                          Policy.position, Nav(s))

\* "Each snapshot enforces cash + marked positions = NAV": the stored marks of
\* the positions add up to the stored market value.
MarksAddUp ==
    \A k \in DOMAIN snapshots :
        snapshots[k].value = MapThenSumSet(
            LAMBDA a : snapshots[k].pos[a].qty * snapshots[k].pos[a].mark, Assets)

=============================================================================
