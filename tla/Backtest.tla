------------------------------ MODULE Backtest ------------------------------
(***************************************************************************)
(* BacktestEngine.run, one step for each signal: the entry session, the    *)
(* exit bar, the whole-share quantity the allocation affords with its      *)
(* costs, and the cash, NAV and path that follow.  Day d opens at 2d and   *)
(* closes at 2d + 1; a bar has one price, 0 where the bar is missing.      *)
(***************************************************************************)
EXTENDS Integers, Sequences, FiniteSets

CONSTANTS
    Universes,      \* asset universes, as sequences
    Days,           \* the number of days of the test window
    Prices,         \* the prices a bar may have
    SignalTimes,    \* when signals are observed
    Signals,        \* how many signals there are
    InitialCash,    \* cash at the start
    Holding,        \* holding_period, in bars
    Threshold,      \* stop_loss and take_profit, in percent
    MinCommission,  \* least cost of a transaction
    CommissionPercent, \* commission rate of a transaction
    SpreadPercent   \* its spread and slippage together

ASSUME BacktestAssumption ==
    /\ Days \in Nat \ {0} /\ Prices \subseteq Nat /\ SignalTimes \subseteq Nat
    /\ Signals \in Nat /\ InitialCash \in Nat \ {0} /\ Holding \in Nat \ {0}
    /\ Threshold \in Nat \ {0} /\ MinCommission \in Nat /\ CommissionPercent \in Nat /\ SpreadPercent \in Nat
    /\ \A universe \in Universes : Len(universe) \in Nat \ {0} /\ DOMAIN universe = 1..Len(universe)

VARIABLES
    study,          \* the inputs: prices, rules, sessions and signals
    todo,           \* the signals not yet processed
    cash,           \* simulated cash
    paths,          \* the position paths, in processing order
    skipped,        \* how many signals were skipped
    outcome         \* "idle", "running", "done", or "raised"

backtestVars == <<study, todo, cash, paths, skipped, outcome>>

Day == 1..Days
Opens(d) == 2 * d
Closes(d) == 2 * d + 1
BarTime == {Closes(d) : d \in Day}
SignalOf(universe) ==
    [asset: {universe[i] : i \in DOMAIN universe}, at: SignalTimes, fires: BOOLEAN]
Signal == UNION {SignalOf(u) : u \in Universes}

Least(S) == CHOOSE x \in S : \A y \in S : x <= y
Larger(x, y) == IF x < y THEN y ELSE x

\* The engine takes the assets of the universe in turn, and of each asset its
\* signals in the order given: those of an asset that is named twice, twice.
Turns(universe, signals) ==
    {t \in (DOMAIN universe) \X (DOMAIN signals) : signals[t[2]].asset = universe[t[1]]}

Precedes(t, u) == t[1] < u[1] \/ (t[1] = u[1] /\ t[2] < u[2])

InEngineOrder(turns) ==
    {order \in [1..Cardinality(turns) -> turns] :
        \A m, n \in DOMAIN order : m < n => Precedes(order[m], order[n])}

Queue(signals, order) == [n \in DOMAIN order |-> signals[order[n][2]]]

BacktestInit ==
    /\ study = <<>> /\ todo = <<>>
    /\ cash = InitialCash
    /\ paths = <<>> /\ skipped = 0 /\ outcome = "idle"

\* backtest run calls the engine with the rules of a specification and with
\* whatever sessions, bars and signals are visible.
StartStudy ==
    /\ outcome = "idle" /\ outcome' = "running"
    /\ \E universe \in Universes : \E signals \in [1..Signals -> SignalOf(universe)] :
       \E order \in InEngineOrder(Turns(universe, signals)),
          price \in [Day -> Prices], late \in SUBSET {1}, entry \in {"open", "close"},
          exit \in {"holding", "end", "invalidation", "stop", "profit"} :
       \E invalidated \in IF exit = "invalidation" THEN {0, Closes(Days - 1)} ELSE {0} :
           /\ study' = [universe |-> universe, price |-> price, late |-> late,
                        entry |-> entry, exit |-> exit, invalidated |-> invalidated]
           /\ todo' = Queue(signals, order)
    /\ UNCHANGED <<cash, paths, skipped>>

EntryAt(d) == IF study.entry = "open" THEN Opens(d) ELSE Closes(d)

\* select_execution_point: the sessions known at the signal that start after it
\* (for next_close: that close after it).  A late session is known once it opens.
EntryDays(s) ==
    {d \in Day : EntryAt(d) > s.at /\ (d \in study.late => s.at >= Opens(d))}

\* The bars after the entry, by day.
Later(d) == {e \in Day : study.price[e] > 0 /\ Closes(e) > EntryAt(d)}
Held(d, e) == Cardinality({b \in Later(d) : b <= e})
BarNumber(d, n) == {e \in Later(d) : Held(d, e) = n}

Reached(d, e) ==
    LET change == 100 * (study.price[e] - study.price[d])
    IN  IF study.exit = "stop" THEN change <= -Threshold * study.price[d]
        ELSE change >= Threshold * study.price[d]

\* Variant: the threshold is looked for past the holding period.
TriggeredEver(d) == {e \in Later(d) : Reached(d, e)}

\* The bars within the holding period that reach the threshold.
Triggered(d) == {e \in Later(d) : Held(d, e) <= Holding /\ Reached(d, e)}

\* _select_exit: the days on which the position may end; the first counts.
ExitDays(d) ==
    IF study.exit = "end" THEN {e \in Later(d) : Later(d) \cap ((e + 1)..Days) = {}}
    ELSE IF study.exit = "invalidation"
         THEN {e \in Later(d) : study.invalidated <= Closes(e)}
    ELSE IF study.exit \in {"stop", "profit"} /\ Triggered(d) # {} THEN Triggered(d)
    ELSE BarNumber(d, Holding)

\* transaction_costs without foreign exchange and taxes, and affordable_quantity
\* without fractional shares.
Cost(notional) ==
    Larger(MinCommission, (notional * CommissionPercent) \div 100)
        + (notional * SpreadPercent) \div 100
Affordable(amount, price) == IF amount <= 0 THEN 0 ELSE amount \div price

Allocation == cash \div Len(study.universe)

\* What the allocation buys once the entry cost is kept back.
Quantity(price) ==
    LET first == Affordable(Allocation, price)
        fee == Cost(first * price)
    IN  IF first * price + fee > Allocation THEN Affordable(Allocation - fee, price)
        ELSE first

Path(s, d, e, q) ==
    LET bought == q * study.price[d]
        sold == q * study.price[e]
    IN  [asset |-> s.asset, signal |-> s.at, entry |-> EntryAt(d), exit |-> Closes(e),
         quantity |-> q, bought |-> bought, sold |-> sold,
         costs |-> Cost(bought) + Cost(sold), before |-> cash,
         nav |-> cash + sold - bought - Cost(bought) - Cost(sold)]

Take(s) == /\ outcome = "running" /\ todo # <<>> /\ s = Head(todo)

\* Variant: the signal is dropped without being counted.
SkipUncounted ==
    /\ todo' = Tail(todo)
    /\ UNCHANGED <<study, skipped, cash, paths, outcome>>

Skip ==
    /\ skipped' = skipped + 1
    /\ todo' = Tail(todo)
    /\ UNCHANGED <<study, cash, paths, outcome>>

Raise == outcome' = "raised" /\ UNCHANGED <<study, todo, cash, paths, skipped>>

\* A signal whose values do not satisfy the definition is skipped.
SkipUnsatisfied == \E s \in Signal : Take(s) /\ ~s.fires /\ Skip

\* No session, no price in it, or no invalidation to wait for: the run raises.
RaiseAtEntry ==
    \E s \in Signal :
        /\ Take(s) /\ s.fires
        /\ \/ EntryDays(s) = {}
           \/ study.price[Least(EntryDays(s))] = 0
           \/ LET d == Least(EntryDays(s))
              IN  /\ study.exit = "invalidation" /\ Later(d) # {}
                  /\ study.invalidated <= EntryAt(d)
        /\ Raise

Enterable(s, d) ==
    /\ EntryDays(s) # {} /\ d = Least(EntryDays(s)) /\ study.price[d] > 0
    /\ study.exit = "invalidation" => Later(d) = {} \/ study.invalidated > EntryAt(d)

\* No bar to exit on, or an allocation too small for a share and its costs.
SkipUnfilled ==
    \E s \in Signal, d \in Day :
        /\ Take(s) /\ s.fires /\ Enterable(s, d)
        /\ \/ ExitDays(d) = {}
           \/ Quantity(study.price[d]) = 0
           \/ LET q == Quantity(study.price[d]) * study.price[d]
              IN  q + Cost(q) > Allocation
        /\ Skip

Filled(s, d, p) ==
    /\ Enterable(s, d) /\ ExitDays(d) # {}
    /\ p = Path(s, d, Least(ExitDays(d)), Quantity(study.price[d]))
    /\ p.quantity > 0 /\ p.bought + Cost(p.bought) <= Allocation

Execute ==
    \E s \in Signal, d \in Day :
        /\ Take(s) /\ s.fires
        /\ LET p == Path(s, d, Least(ExitDays(d)), Quantity(study.price[d]))
           IN  /\ Filled(s, d, p) /\ p.nav >= 0
               /\ cash' = p.nav
               /\ paths' = Append(paths, p)
               /\ todo' = Tail(todo)
               /\ UNCHANGED <<study, skipped, outcome>>

\* The exit costs more than is left: the simulation would require margin.
RaiseMargin ==
    \E s \in Signal, d \in Day :
        /\ Take(s) /\ s.fires
        /\ LET p == Path(s, d, Least(ExitDays(d)), Quantity(study.price[d]))
           IN  Filled(s, d, p) /\ p.nav < 0
        /\ Raise

\* A result needs the provenance of at least one observation.
Report ==
    /\ outcome = "running" /\ todo = <<>>
    /\ outcome' = IF paths = <<>> THEN "raised" ELSE "done"
    /\ UNCHANGED <<study, todo, cash, paths, skipped>>

BacktestNext ==
    \/ StartStudy \/ SkipUnsatisfied \/ RaiseAtEntry \/ SkipUnfilled
    \/ Execute \/ RaiseMargin \/ Report

\* _max_drawdown: a running peak over the NAV in processing order.  A fall is
\* the pair of what is left and the peak it fell from.
DeeperFall(f, g) == IF g[1] * f[2] < f[1] * g[2] THEN g ELSE f

MaxDrawdown(nav) ==
    LET Scan[i \in 0..Len(nav)] ==
            IF i = 0 THEN [peak |-> InitialCash, worst |-> <<1, 1>>]
            ELSE LET peak == Larger(Scan[i - 1].peak, nav[i])
                 IN  [peak |-> peak, worst |-> DeeperFall(Scan[i - 1].worst, <<nav[i], peak>>)]
    IN  Scan[Len(nav)].worst

Nav == [i \in DOMAIN paths |-> paths[i].nav]

NamesEachOnce(universe) == \A i, j \in DOMAIN universe : universe[i] = universe[j] => i = j

BacktestTypeOK ==
    /\ todo \in Seq(Signal)
    /\ outcome # "idle" /\ NamesEachOnce(study.universe) => Len(todo) + Len(paths) + skipped = Signals
    /\ cash \in Nat
    /\ outcome \in {"idle", "running", "done", "raised"}

\* The bars a position was held over, by day.
HeldOver(p) == {d \in Day : study.price[d] > 0 /\ p.entry < Closes(d) /\ Closes(d) <= p.exit}

Percent(p, d) == 100 * p.quantity * study.price[d] - 100 * p.bought

Hit(p, d) == IF study.exit = "stop" THEN Percent(p, d) <= -Threshold * p.bought
             ELSE Percent(p, d) >= Threshold * p.bought

\* Every position is entered after its signal at a session's open or close,
\* leaves after it entered, and a stop or a target ends it at the first bar
\* that reaches the threshold within the holding period (select_execution_point,
\* _select_exit).
PathsFollowTheRules ==
    \A i \in DOMAIN paths :
        LET p == paths[i]
            days == HeldOver(p)
        IN  /\ p.signal < p.entry /\ p.entry < p.exit
            /\ study.exit = "holding" => Cardinality(days) = Holding
            /\ study.exit \in {"stop", "profit"} =>
                   /\ Cardinality(days) <= Holding
                   /\ \A d \in days : Hit(p, d) => p.exit = Closes(d)
                   /\ Cardinality(days) < Holding => \E d \in days : Hit(p, d)

\* A purchase and its entry cost stay within the position's share of the cash,
\* and no exit leaves less than nothing (affordable_quantity, run).
PurchasesWithinAllocation ==
    \A i \in DOMAIN paths :
        LET p == paths[i]
        IN  /\ Len(study.universe) * (p.bought + Cost(p.bought)) <= p.before
            /\ p.before = IF i = 1 THEN InitialCash ELSE paths[i - 1].nav
            /\ p.nav >= 0

\* The reported drawdown is the deepest fall between any two points of the NAV,
\* its initial value included (_max_drawdown).
DrawdownIsDeepestFall ==
    LET value(i) == IF i = 0 THEN InitialCash ELSE paths[i].nav
        worst == MaxDrawdown(Nav)
    IN  /\ \A i, j \in 0..Len(paths) :
               i <= j => worst[1] * value(i) <= value(j) * worst[2]
        /\ \/ worst[1] = worst[2]
           \/ \E i, j \in 0..Len(paths) :
                  i < j /\ worst[1] * value(i) = value(j) * worst[2]

\* What a backtest reports of its positions, its cash and its deepest loss is what
\* the rules of the study yield (run, _select_exit, _max_drawdown): positions are
\* entered, sized and ended as they say, and the drawdown is that of the cash.
BacktestFollowsItsRules ==
    PathsFollowTheRules /\ PurchasesWithinAllocation /\ DrawdownIsDeepestFall

\* What is invested at an instant, and what it was bought with.
OpenAt(t) == {i \in DOMAIN paths : paths[i].entry <= t /\ t < paths[i].exit}
RealizedBy(t) == {i \in DOMAIN paths : paths[i].exit <= t}
Total(S, f(_)) == LET Sum[T \in SUBSET S] ==
                          IF T = {} THEN 0
                          ELSE LET i == CHOOSE x \in T : TRUE IN f(i) + Sum[T \ {i}]
                  IN  Sum[S]

\* docs/backtesting.md: long-only cash, no margin and no leverage.  What is
\* invested at an instant never exceeds the cash realized until then.
NeverLeveraged ==
    \A k \in DOMAIN paths :
        LET t == paths[k].entry
            Bought(i) == paths[i].bought
            Gained(i) == paths[i].sold - paths[i].bought - paths[i].costs
        IN  Total(OpenAt(t), Bought) <= InitialCash + Total(RealizedBy(t), Gained)

=============================================================================
