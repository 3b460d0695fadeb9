------------------------- MODULE PaperRuntimeProofs -------------------------
(***************************************************************************)
(* The simulated account, for every policy, cost model, finite set of      *)
(* assets and number of pending orders: the kill-state discipline of the   *)
(* risk governor (KInv), and the account as a ledger of its fills that     *)
(* keeps its reserve (PaperInv).  The sums over the fills and over the     *)
(* assets are MapThenSumSet, whose recursion is reasoned about as a finite *)
(* function: a least set, or a least prefix, that fails is impossible.     *)
(***************************************************************************)
EXTENDS PaperRuntime, FiniteSetTheorems, WellFoundedInduction, TLAPS

Approved(e) == e.action \in {"approved", "resized"}

\* What an approving evaluation e of an order of this side says of snapshot s.
Tightens(e, side, s) ==
    /\ Rank[e.kill] >= Rank[s.kill]
    /\ DrawdownReaches(s, Policy.restricted) \/ s.kill # "normal"
          => side = "sell" /\ e.kill # "normal"

\* An order is a record of these fields, whatever its quantities are.
OrderShape(o) ==
    /\ o = [asset |-> o.asset, side |-> o.side, qty |-> o.qty, price |-> o.price,
            eval |-> o.eval, decided |-> o.decided]
    /\ o.side \in Sides

\* What holds of the evaluation of every order, whose basis is in snaps.
EvalSound(o, snaps) ==
    /\ o.eval.kill \in KillState
    /\ Approved(o.eval) => /\ o.eval.basis \in 1..Len(snaps)
                           /\ Tightens(o.eval, o.side, snaps[o.eval.basis])

Sequences3 ==
    /\ \E S : orders \in Seq(S)
    /\ \E S : fills \in Seq(S)
    /\ \E S : snapshots \in Seq(S)
    /\ Len(snapshots) >= 1

OrdersSound ==
    \A i \in 1..Len(orders) :
        OrderShape(orders[i]) /\ EvalSound(orders[i], snapshots)

SnapshotsSound == \A k \in 1..Len(snapshots) : snapshots[k].kill \in KillState

KInv == Sequences3 /\ OrdersSound /\ SnapshotsSound

-----------------------------------------------------------------------------

\* t is s with e after it.
Longer(t, s, e) ==
    /\ \E T : t \in Seq(T)
    /\ Len(s) \in Nat
    /\ Len(t) = Len(s) + 1
    /\ t[Len(s) + 1] = e
    /\ \A i \in 1..Len(s) : t[i] = s[i]

\* Appending keeps a sequence what it was, and puts the element at its end.
LEMMA AppendFacts ==
    ASSUME NEW s, NEW S, s \in Seq(S), NEW e
    PROVE  Longer(Append(s, e), s, e)
<1>1. s \in Seq(S \cup {e})
  OBVIOUS
<1>2. Append(s, e) \in Seq(S \cup {e})
  BY <1>1
<1>3. \A i \in 1..Len(s) : Append(s, e)[i] = s[i]
  BY <1>1
<1> QED
  BY <1>1, <1>2, <1>3 DEF Longer

\* evaluate_order approves only what the kill state of the snapshot and its
\* drawdown allow, and never under a looser state.
LEMMA EvaluationTightens ==
    ASSUME NEW o, NEW s, NEW causal \in BOOLEAN, NEW admissible \in BOOLEAN,
           o.side \in Sides, s.kill \in KillState,
           NEW e, e = EvaluateOrder(o, s, causal, admissible)
    PROVE  /\ e.kill \in KillState
           /\ Approved(e) => e.basis = Len(snapshots) /\ Tightens(e, o.side, s)
<1> DEFINE size == Sized(o, s)
           restricts == DrawdownReaches(s, Policy.restricted)
           barred == \/ s.kill \in {"paused", "halted"}
                     \/ (s.kill = "entry_restricted" /\ o.side = "buy")
           refused == TooCostly(o, s, size.notional) \/ (restricts /\ o.side = "buy")
           kill == IF restricts THEN "entry_restricted" ELSE s.kill
<1>1. CASE \/ e = Verdict("portfolio_halted", 0, 0, "halted")
           \/ e = Verdict("rejected", 0, 0, s.kill)
           \/ e = Verdict("rejected", 0, 0, kill)
  <2> HIDE DEF restricts
  <2> QED
    BY <1>1 DEF Verdict, Approved, KillState
<1>2. CASE /\ ~barred
           /\ ~refused
           /\ \E a \in Action : e = Verdict(a, size.qty, size.notional, kill)
  <2> HIDE DEF size
  <2>1. e.kill = kill /\ e.basis = Len(snapshots)
    BY <1>2 DEF Verdict
  <2>2. restricts => o.side = "sell"
    BY <1>2 DEF Sides
  <2>3. s.kill = "normal" \/ (s.kill = "entry_restricted" /\ o.side = "sell")
    BY <1>2 DEF KillState, Sides
  <2>4. Rank["normal"] = 0 /\ Rank["entry_restricted"] = 1
    BY DEF Rank
  <2> QED
    BY <2>1, <2>2, <2>3, <2>4 DEF Tightens, KillState
<1>3. \/ e = Verdict("portfolio_halted", 0, 0, "halted")
      \/ e = Verdict("rejected", 0, 0, s.kill)
      \/ e = Verdict("rejected", 0, 0, kill)
      \/ /\ ~barred
         /\ ~refused
         /\ \E a \in Action : e = Verdict(a, size.qty, size.notional, kill)
  <2> DEFINE word == IF size.cut \/ OverCount(o, s) THEN "resized" ELSE "approved"
             last == IF refused THEN Verdict("rejected", 0, 0, kill)
                     ELSE Verdict(word, size.qty, size.notional, kill)
  <2>1. \/ e = Verdict("portfolio_halted", 0, 0, "halted")
        \/ e = Verdict("rejected", 0, 0, s.kill)
        \/ ~barred /\ e = last
    BY DEF EvaluateOrder
  <2>2. word \in Action
    BY DEF Action
  <2> QED
    BY <2>1, <2>2
<1> QED
  BY <1>1, <1>2, <1>3

-----------------------------------------------------------------------------

LEMMA InitKInv == Init => KInv
<1> SUFFICES ASSUME Init PROVE KInv
  OBVIOUS
<1>1. orders = <<>> /\ fills = <<>> /\ snapshots = <<InitialSnapshot>>
  BY DEF Init
<1>2. orders \in Seq({}) /\ fills \in Seq({}) /\ snapshots \in Seq({InitialSnapshot})
  BY <1>1
<1>3. Len(orders) = 0 /\ Len(snapshots) = 1 /\ snapshots[1] = InitialSnapshot
  BY <1>1
<1>4. InitialSnapshot.kill \in KillState
  BY DEF InitialSnapshot, KillState
<1> QED
  BY <1>2, <1>3, <1>4 DEF KInv, Sequences3, OrdersSound, SnapshotsSound

\* A sound evaluation stays sound when snapshots are added.
LEMMA EvaluationsStaySound ==
    ASSUME NEW o, NEW before, NEW after, EvalSound(o, before),
           Len(before) \in Nat, Len(after) \in Nat, Len(before) <= Len(after),
           \A k \in 1..Len(before) : after[k] = before[k]
    PROVE  EvalSound(o, after)
BY DEF EvalSound

\* Replacing one order leaves the others.
LEMMA OrderReplaced ==
    ASSUME KInv, NEW i \in 1..Len(orders), NEW o, orders' = [orders EXCEPT ![i] = o]
    PROVE  /\ \E T : orders' \in Seq(T)
           /\ \A j \in 1..Len(orders') :
                 orders'[j] = o \/ (j \in 1..Len(orders) /\ orders'[j] = orders[j])
<1>1. PICK S : orders \in Seq(S)
  BY DEF KInv, Sequences3
<1>2. PICK s, t : s = orders /\ t = [s EXCEPT ![i] = o]
  OBVIOUS
<1>3. s \in Seq(S \cup {o}) /\ i \in 1..Len(s)
  BY <1>1, <1>2
<1>4. t \in Seq(S \cup {o}) /\ Len(t) = Len(s)
  BY <1>2, <1>3
<1>5. t[i] = o /\ \A j \in 1..Len(s) : j # i => t[j] = s[j]
  BY <1>2, <1>3, <1>4
<1> QED
  BY <1>2, <1>4, <1>5

\* A step that leaves the snapshots alone and changes one order at most, to one
\* that is sound, keeps the invariant.
LEMMA OrderStep ==
    ASSUME KInv, UNCHANGED <<fills, snapshots>>,
           NEW o, OrderShape(o), EvalSound(o, snapshots),
           \/ orders' = Append(orders, o)
           \/ \E i \in 1..Len(orders) : orders' = [orders EXCEPT ![i] = o]
    PROVE  KInv'
<1>1. PICK S : orders \in Seq(S)
  BY DEF KInv, Sequences3
<1>2. /\ \E T : orders' \in Seq(T)
      /\ \A i \in 1..Len(orders') :
            orders'[i] = o \/ (i \in 1..Len(orders) /\ orders'[i] = orders[i])
  <2>1. CASE orders' = Append(orders, o)
    <3>1. Longer(orders', orders, o)
      BY <1>1, <2>1, AppendFacts
    <3> QED
      BY <3>1 DEF Longer
  <2> QED
    BY <2>1, OrderReplaced
<1>3. Sequences3' /\ SnapshotsSound'
  BY <1>2 DEF KInv, Sequences3, SnapshotsSound
<1>4. OrdersSound'
  BY <1>2 DEF KInv, OrdersSound
<1> QED
  BY <1>3, <1>4 DEF KInv

\* An order with another evaluation is the order otherwise.
LEMMA EvaluatedOrder ==
    ASSUME NEW r, OrderShape(r), NEW e, NEW o, o = [r EXCEPT !.eval = e]
    PROVE  OrderShape(o) /\ o.eval = e /\ o.side = r.side
<1>1. PICK a, b, c, d, f, g :
          /\ r = [asset |-> a, side |-> b, qty |-> c, price |-> d, eval |-> f,
                  decided |-> g]
          /\ b \in Sides
  BY DEF OrderShape
<1>2. o = [asset |-> a, side |-> b, qty |-> c, price |-> d, eval |-> e, decided |-> g]
  BY <1>1
<1>3. r.side = b
  BY <1>1
<1> QED
  BY <1>1, <1>2, <1>3 DEF OrderShape

\* An order marked decided keeps its evaluation and its side.
LEMMA DecidedOrder ==
    ASSUME NEW r, OrderShape(r), NEW t, NEW o, o = [r EXCEPT !.decided = t]
    PROVE  OrderShape(o) /\ o.eval = r.eval /\ o.side = r.side
<1>1. PICK a, b, c, d, f, g :
          /\ r = [asset |-> a, side |-> b, qty |-> c, price |-> d, eval |-> f,
                  decided |-> g]
          /\ b \in Sides
  BY DEF OrderShape
<1>2. o = [asset |-> a, side |-> b, qty |-> c, price |-> d, eval |-> f, decided |-> t]
  BY <1>1
<1>3. r.side = b /\ r.eval = f
  BY <1>1
<1> QED
  BY <1>1, <1>2, <1>3 DEF OrderShape

LEMMA ProposeStep == ASSUME KInv, Propose PROVE KInv'
<1>1. PICK a \in Assets, side \in Sides, q \in Quantities :
          orders' = Append(orders,
              [asset |-> a, side |-> side, qty |-> q, price |-> market[a],
               eval |-> NotEvaluated, decided |-> FALSE])
  BY DEF Propose
<1> DEFINE o == [asset |-> a, side |-> side, qty |-> q, price |-> market[a],
                 eval |-> NotEvaluated, decided |-> FALSE]
<1>2. OrderShape(o)
  BY DEF OrderShape
<1>3. EvalSound(o, snapshots)
  BY DEF EvalSound, NotEvaluated, Approved, KillState
<1>4. UNCHANGED <<fills, snapshots>>
  BY DEF Propose
<1> HIDE DEF o
<1> QED
  BY <1>1, <1>2, <1>3, <1>4, OrderStep DEF o

LEMMA EvaluateStep == ASSUME KInv, Evaluate PROVE KInv'
<1>1. PICK i \in DOMAIN orders, causal \in BOOLEAN, admissible \in BOOLEAN :
          orders' = [orders EXCEPT ![i] = [@ EXCEPT !.eval =
                        EvaluateOrder(orders[i], account, causal, admissible)]]
  BY DEF Evaluate
<1>2. PICK e : e = EvaluateOrder(orders[i], account, causal, admissible)
  OBVIOUS
<1>3. PICK o : o = [orders[i] EXCEPT !.eval = e]
  OBVIOUS
<1>4. i \in 1..Len(orders) /\ Len(snapshots) \in 1..Len(snapshots)
  BY DEF KInv, Sequences3
<1>5. OrderShape(orders[i]) /\ account.kill \in KillState
  BY <1>4 DEF KInv, OrdersSound, SnapshotsSound, account
<1>6. OrderShape(o) /\ o.eval = e /\ o.side = orders[i].side
  <2>1. PICK r : r = orders[i]
    OBVIOUS
  <2>2. OrderShape(r) /\ o = [r EXCEPT !.eval = e]
    BY <1>3, <1>5, <2>1
  <2> QED
    BY <2>1, <2>2, EvaluatedOrder
<1>7. /\ e.kill \in KillState
      /\ Approved(e) => e.basis = Len(snapshots) /\ Tightens(e, orders[i].side, account)
  <2>1. PICK p, s : p = orders[i] /\ s = account
    OBVIOUS
  <2>2. e = EvaluateOrder(p, s, causal, admissible) /\ p.side \in Sides /\ s.kill \in KillState
    BY <1>2, <1>5, <2>1 DEF OrderShape
  <2>3. /\ e.kill \in KillState
        /\ Approved(e) => e.basis = Len(snapshots) /\ Tightens(e, p.side, s)
    BY <2>2, EvaluationTightens
  <2> QED
    BY <2>1, <2>3
<1>8. EvalSound(o, snapshots)
  BY <1>4, <1>6, <1>7 DEF EvalSound, account
<1>9. orders' = [orders EXCEPT ![i] = o] /\ UNCHANGED <<fills, snapshots>>
  BY <1>1, <1>2, <1>3 DEF Evaluate
<1> QED
  BY <1>4, <1>6, <1>8, <1>9, OrderStep

LEMMA DeclineStep == ASSUME KInv, Decline PROVE KInv'
<1>1. PICK i \in Awaiting : orders' = [orders EXCEPT ![i] = [@ EXCEPT !.decided = TRUE]]
  BY DEF Decline
<1>2. PICK o, t : t = TRUE /\ o = [orders[i] EXCEPT !.decided = t]
  OBVIOUS
<1>3. i \in 1..Len(orders)
  BY DEF Awaiting, KInv, Sequences3
<1>4. OrderShape(o) /\ o.eval = orders[i].eval /\ o.side = orders[i].side
  <2>1. PICK r : r = orders[i]
    OBVIOUS
  <2>2. OrderShape(r) /\ o = [r EXCEPT !.decided = t]
    BY <1>2, <1>3, <2>1 DEF KInv, OrdersSound
  <2> QED
    BY <2>1, <2>2, DecidedOrder
<1>5. EvalSound(o, snapshots)
  BY <1>3, <1>4 DEF KInv, OrdersSound, EvalSound
<1>6. orders' = [orders EXCEPT ![i] = o] /\ UNCHANGED <<fills, snapshots>>
  BY <1>1, <1>2 DEF Decline
<1> QED
  BY <1>3, <1>4, <1>5, <1>6, OrderStep

\* apply_fill takes the kill state of the evaluation.
LEMMA FillStep ==
    ASSUME KInv, Fill
    PROVE  /\ KInv'
           /\ \A i \in DOMAIN orders : FreshFill(i) =>
                 /\ Rank[account'.kill] >= Rank[account.kill]
                 /\ DrawdownReaches(account, Policy.restricted) \/ account.kill # "normal"
                       => orders[i].side = "sell" /\ account'.kill # "normal"
<1>1. PICK i \in Awaiting, known \in SUBSET Assets :
          LET o == orders[i]
              q == o.eval.qty
              p == market[o.asset]
              marks == [a \in known |-> market[a]]
          IN  /\ o.eval.action \in {"approved", "resized"}
              /\ orders' = [orders EXCEPT ![i] = [@ EXCEPT !.decided = TRUE]]
              /\ fills' = Append(fills,
                    [order |-> i, asset |-> o.asset, side |-> o.side, qty |-> q,
                     price |-> p, cost |-> Cost(q * p), at |-> now])
              /\ snapshots' = Append(snapshots,
                    ApplyFill(account, o, q, p, marks, o.eval.kill))
  BY DEF Fill
<1>2. PICK f : fills' = Append(fills, f) /\ f.order = i
  BY <1>1
<1>3. PICK n : snapshots' = Append(snapshots, n) /\ n.kill = orders[i].eval.kill
  <2>1. PICK k, marks : /\ k = orders[i].eval.kill
                        /\ snapshots' = Append(snapshots, ApplyFill(account, orders[i],
                              orders[i].eval.qty, market[orders[i].asset], marks, k))
    BY <1>1
  <2>2. ApplyFill(account, orders[i], orders[i].eval.qty, market[orders[i].asset],
                  marks, k).kill = k
    BY DEF ApplyFill
  <2> QED
    BY <2>1, <2>2
<1>4. PICK o, t : t = TRUE /\ o = [orders[i] EXCEPT !.decided = t]
  OBVIOUS
<1>5. orders' = [orders EXCEPT ![i] = o]
  BY <1>1, <1>4
<1>6. i \in 1..Len(orders)
  BY DEF Awaiting, KInv, Sequences3
<1>7. OrderShape(o) /\ o.eval = orders[i].eval /\ o.side = orders[i].side
  <2>1. PICK r : r = orders[i]
    OBVIOUS
  <2>2. OrderShape(r) /\ o = [r EXCEPT !.decided = t]
    BY <1>4, <1>6, <2>1 DEF KInv, OrdersSound
  <2> QED
    BY <2>1, <2>2, DecidedOrder
\* The snapshots and the fills each have one more element.
<1>8. /\ \E T : snapshots' \in Seq(T)
      /\ Len(snapshots) \in Nat /\ Len(snapshots) >= 1
      /\ Len(snapshots') = Len(snapshots) + 1
      /\ snapshots'[Len(snapshots) + 1] = n
      /\ \A k \in 1..Len(snapshots) : snapshots'[k] = snapshots[k]
  <2>1. PICK s : s = snapshots
    OBVIOUS
  <2>2. \E S : s \in Seq(S)
    BY <2>1 DEF KInv, Sequences3
  <2>3. Longer(Append(s, n), s, n)
    BY <2>2, AppendFacts
  <2>4. Longer(snapshots', snapshots, n)
    BY <1>3, <2>1, <2>3
  <2> QED
    BY <2>4 DEF Longer, KInv, Sequences3
<1>9. /\ \E T : fills' \in Seq(T)
      /\ Len(fills') = Len(fills) + 1
      /\ Len(fills) \in Nat
      /\ fills'[Len(fills) + 1] = f
  <2>1. PICK s : s = fills
    OBVIOUS
  <2>2. \E S : s \in Seq(S)
    BY <2>1 DEF KInv, Sequences3
  <2>3. Longer(Append(s, f), s, f)
    BY <2>2, AppendFacts
  <2>4. Longer(fills', fills, f)
    BY <1>2, <2>1, <2>3
  <2> QED
    BY <2>4 DEF Longer
<1>10. KInv'
  <2>1. /\ \E T : orders' \in Seq(T)
        /\ \A j \in 1..Len(orders') :
              orders'[j] = o \/ (j \in 1..Len(orders) /\ orders'[j] = orders[j])
    BY <1>5, <1>6, OrderReplaced
  <2>2. Sequences3'
    BY <1>8, <1>9, <2>1 DEF Sequences3
  <2>3. EvalSound(orders[i], snapshots)
    BY <1>6 DEF KInv, OrdersSound
  <2>4. SnapshotsSound'
    <3>1. n.kill \in KillState
      BY <1>3, <2>3 DEF EvalSound
    <3> QED
      BY <1>8, <3>1 DEF KInv, SnapshotsSound
  <2>5. ASSUME NEW q, EvalSound(q, snapshots)
        PROVE  EvalSound(q, snapshots')
    BY <1>8, <2>5, EvaluationsStaySound
  <2>6. OrderShape(o) /\ EvalSound(o, snapshots')
    <3>1. EvalSound(o, snapshots)
      BY <1>7, <2>3 DEF EvalSound
    <3> QED
      BY <1>7, <2>5, <3>1
  <2>7. \A j \in 1..Len(orders) : OrderShape(orders[j]) /\ EvalSound(orders[j], snapshots')
    BY <2>5 DEF KInv, OrdersSound
  <2>8. OrdersSound'
    BY <2>1, <2>6, <2>7 DEF OrdersSound
  <2> QED
    BY <2>2, <2>4, <2>8 DEF KInv
<1>11. ASSUME NEW j \in DOMAIN orders, FreshFill(j)
       PROVE  /\ Rank[account'.kill] >= Rank[account.kill]
              /\ DrawdownReaches(account, Policy.restricted) \/ account.kill # "normal"
                    => orders[j].side = "sell" /\ account'.kill # "normal"
  <2>1. j = i
    BY <1>2, <1>9, <1>11 DEF FreshFill
  <2>2. Approved(orders[i].eval) /\ orders[i].eval.basis = Len(snapshots)
    BY <1>1, <1>11, <2>1 DEF Approved, FreshFill
  <2>3. Tightens(orders[i].eval, orders[i].side, account)
    BY <1>6, <2>2 DEF KInv, OrdersSound, EvalSound, account
  <2>4. account'.kill = orders[i].eval.kill
    BY <1>3, <1>8 DEF account
  <2> QED
    BY <2>1, <2>3, <2>4 DEF Tightens
<1> QED
  BY <1>10, <1>11

-----------------------------------------------------------------------------

\* The orders, evaluations and snapshots stay sound.
THEOREM KillInvariance == Spec => []KInv
<1>1. KInv /\ [Next]_vars => KInv'
  <2> SUFFICES ASSUME KInv, [Next]_vars PROVE KInv'
    OBVIOUS
  <2>1. CASE UNCHANGED <<orders, fills, snapshots>>
    BY <2>1 DEF KInv, Sequences3, OrdersSound, SnapshotsSound
  <2>2. CASE Tick \/ MarketMoves \/ UNCHANGED vars
    BY <2>1, <2>2 DEF Tick, MarketMoves, vars
  <2>3. CASE Propose
    BY <2>3, ProposeStep
  <2>4. CASE Evaluate
    BY <2>4, EvaluateStep
  <2>5. CASE Decline
    BY <2>5, DeclineStep
  <2>6. CASE Fill
    BY <2>6, FillStep
  <2> QED
    BY <2>2, <2>3, <2>4, <2>5, <2>6 DEF Next
<1> QED
  BY InitKInv, <1>1, PTL DEF Spec

\* An evaluation of the present snapshot never lets a fill relax the kill state,
\* nor buy while the portfolio or its drawdown is restricted: the state that
\* apply_fill takes from a fresh evaluation is at least that of the account.
THEOREM FreshFillsObeyKillState == Spec => FreshFillObeysKillState
<1>1. KInv /\ [Next]_vars =>
        [\A i \in DOMAIN orders :
          FreshFill(i) =>
             /\ Rank[account'.kill] >= Rank[account.kill]
             /\ DrawdownReaches(account, Policy.restricted) \/ account.kill # "normal"
                   => orders[i].side = "sell" /\ account'.kill # "normal"]_vars
  <2> SUFFICES ASSUME KInv, [Next]_vars, NEW i \in DOMAIN orders, FreshFill(i)
               PROVE  /\ Rank[account'.kill] >= Rank[account.kill]
                      /\ DrawdownReaches(account, Policy.restricted)
                            \/ account.kill # "normal"
                            => orders[i].side = "sell" /\ account'.kill # "normal"
    OBVIOUS
  <2>1. CASE UNCHANGED fills
    <3>1. Len(fills) \in Nat
      BY DEF KInv, Sequences3
    <3> QED
      BY <2>1, <3>1 DEF FreshFill
  <2>2. CASE Fill
    BY <2>2, FillStep
  <2> QED
    BY <2>1, <2>2 DEF Next, vars, Tick, MarketMoves, Propose, Evaluate, Decline
<1> QED
  BY KillInvariance, <1>1, PTL DEF Spec, FreshFillObeysKillState

-----------------------------------------------------------------------------
(* Sums over a finite set.  MapThenSumSet takes the elements of the set in *)
(* an order of its own; what it adds up to does not depend on it.  The     *)
(* inductions on the size of the set look at the least size that fails.    *)

LEMMA LeastOf ==
    ASSUME NEW S, S \subseteq Nat, S # {}
    PROVE  \E x \in S : \A y \in S : x <= y
<1>1. PICK x \in S : \A y \in S : ~(<<y, x>> \in OpToRel(<, Nat))
  BY NatLessThanWellFounded, WFMin
<1>2. ASSUME NEW y \in S, ~(x <= y) PROVE FALSE
  <2>1. <<y, x>> \in Nat \X Nat /\ y < x
    BY <1>2
  <2>2. <<y, x>> \in OpToRel(<, Nat)
    BY <2>1 DEF OpToRel
  <2> QED
    BY <1>1, <2>2
<1> QED
  BY <1>2

\* The element that MapThenSumSet takes first, and the function it goes by.
Taken(s) == CHOOSE x \in s : TRUE
Sums(f, v, S) == f = [s \in SUBSET S |-> IF s = {} THEN 0 ELSE v[Taken(s)] + f[s \ {Taken(s)}]]

LEMMA WithoutTaken ==
    ASSUME NEW S, IsFiniteSet(S), NEW T \in SUBSET S, T # {}, NEW x \in T
    PROVE  /\ Taken(T) \in T /\ T \ {x} \in SUBSET S
           /\ Cardinality(T) \in Nat /\ Cardinality(T \ {x}) \in Nat
           /\ Cardinality(T \ {x}) = Cardinality(T) - 1
<1>1. IsFiniteSet(T)
  BY FS_Subset
<1>2. Taken(T) \in T
  BY DEF Taken
<1>3. Cardinality(T) \in Nat
  BY <1>1, FS_CardinalityType
<1>4. IsFiniteSet(T \ {x}) /\ Cardinality(T \ {x}) = Cardinality(T) - 1
  BY <1>1, FS_RemoveElement
<1>5. Cardinality(T \ {x}) \in Nat
  BY <1>4, FS_CardinalityType
<1> QED
  BY <1>2, <1>3, <1>4, <1>5

LEMMA SumsExist ==
    ASSUME NEW S, IsFiniteSet(S), NEW v
    PROVE  \E f : Sums(f, v, S)
<1> DEFINE upto(n) == {T \in SUBSET S : Cardinality(T) <= n}
           some(n) == \E g : g = [T \in upto(n) |-> IF T = {} THEN 0
                                                    ELSE v[Taken(T)] + g[T \ {Taken(T)}]]
           bad == {n \in Nat : ~some(n)}
<1>1. ASSUME NEW T \in SUBSET S
      PROVE  Cardinality(T) \in Nat /\ (Cardinality(T) = 0 => T = {})
  <2>1. IsFiniteSet(T)
    BY FS_Subset
  <2> QED
    BY <2>1, FS_CardinalityType, FS_EmptySet
<1>2. some(0)
  <2>1. upto(0) \subseteq {{}}
    BY <1>1
  <2>2. PICK g : g = [T \in upto(0) |-> 0]
    OBVIOUS
  <2>3. g = [T \in upto(0) |-> IF T = {} THEN 0 ELSE v[Taken(T)] + g[T \ {Taken(T)}]]
    BY <2>1, <2>2
  <2> QED
    BY <2>3
<1>3. ASSUME NEW n \in Nat, some(n) PROVE some(n + 1)
  <2>1. PICK g : g = [T \in upto(n) |-> IF T = {} THEN 0 ELSE v[Taken(T)] + g[T \ {Taken(T)}]]
    BY <1>3
  <2>2. PICK h : h = [T \in upto(n + 1) |-> IF T = {} THEN 0 ELSE v[Taken(T)] + g[T \ {Taken(T)}]]
    OBVIOUS
  <2>3. upto(n) \subseteq upto(n + 1)
    BY <1>1
  <2>4. \A T \in upto(n) : h[T] = g[T]
    BY <2>1, <2>2, <2>3
  <2>5. \A T \in upto(n + 1) : T # {} => T \ {Taken(T)} \in upto(n)
    <3> TAKE T \in upto(n + 1)
    <3> HAVE T # {}
    <3>1. Taken(T) \in T
      BY DEF Taken
    <3>2. /\ T \ {Taken(T)} \in SUBSET S /\ Cardinality(T) \in Nat
          /\ Cardinality(T \ {Taken(T)}) = Cardinality(T) - 1
      BY <3>1, WithoutTaken
    <3> QED
      BY <3>2
  <2>6. h = [T \in upto(n + 1) |-> IF T = {} THEN 0 ELSE v[Taken(T)] + h[T \ {Taken(T)}]]
    <3> HIDE DEF upto
    <3> QED
      BY <2>2, <2>4, <2>5
  <2> QED
    BY <2>6
<1>4. \A n \in Nat : some(n)
  <2> SUFFICES ASSUME bad # {} PROVE FALSE
    OBVIOUS
  <2>1. PICK n \in bad : \A m \in bad : n <= m
    <3>1. bad \subseteq Nat
      OBVIOUS
    <3> HIDE DEF bad
    <3> QED
      BY <3>1, LeastOf
  <2>2. n \in Nat /\ n # 0 /\ ~some(n)
    <3> HIDE DEF some
    <3> QED
      BY <1>2
  <2>3. n - 1 \in Nat /\ n - 1 \notin bad
    <3> HIDE DEF bad
    <3> QED
      BY <2>1, <2>2
  <2>4. some(n - 1)
    <3> HIDE DEF some
    <3> QED
      BY <2>3
  <2>5. some((n - 1) + 1)
    <3> HIDE DEF some
    <3> QED
      BY <1>3, <2>3, <2>4
  <2>6. (n - 1) + 1 = n
    BY <2>2
  <2> QED
    <3> HIDE DEF some
    <3> QED
      BY <2>2, <2>5, <2>6
<1>5. Cardinality(S) \in Nat /\ upto(Cardinality(S)) = SUBSET S
  BY FS_CardinalityType, FS_Subset
<1>6. some(Cardinality(S))
  <2> HIDE DEF some
  <2> QED
    BY <1>4, <1>5
<1> QED
  BY <1>5, <1>6 DEF Sums

\* Any element may be taken first.
Adds(f, v, S) ==
    /\ f[{}] = 0
    /\ \A T \in SUBSET S : f[T] \in Int /\ \A x \in T : f[T] = v[x] + f[T \ {x}]

LEMMA SumLaw ==
    ASSUME NEW S, IsFiniteSet(S), NEW v \in [S -> Int], NEW f, Sums(f, v, S)
    PROVE  Adds(f, v, S)
<1> DEFINE fine(T) == f[T] \in Int /\ \A x \in T : f[T] = v[x] + f[T \ {x}]
           bad == {n \in Nat : \E T \in SUBSET S : Cardinality(T) = n /\ ~fine(T)}
<1>1. f[{}] = 0
  BY DEF Sums
<1>2. ASSUME NEW T \in SUBSET S, T # {} PROVE f[T] = v[Taken(T)] + f[T \ {Taken(T)}]
  BY <1>2 DEF Sums
<1>3. bad = {}
  <2> SUFFICES ASSUME bad # {} PROVE FALSE
    OBVIOUS
  <2>1. PICK n \in bad : \A m \in bad : n <= m
    <3>1. bad \subseteq Nat
      OBVIOUS
    <3> HIDE DEF bad
    <3> QED
      BY <3>1, LeastOf
  <2>2. PICK T \in SUBSET S : Cardinality(T) = n /\ ~fine(T)
    OBVIOUS
  <2>3. T # {}
    BY <1>1, <2>2
  <2>4. ASSUME NEW U \in SUBSET S, Cardinality(U) \in Nat, Cardinality(U) = n - 1 PROVE fine(U)
    <3> SUFFICES ASSUME ~fine(U) PROVE FALSE
      OBVIOUS
    <3>1. n - 1 \in bad
      <4> HIDE DEF fine
      <4> QED
        BY <2>4
    <3> HIDE DEF bad
    <3>2. n \in Nat
      BY <2>2, <2>3, WithoutTaken
    <3> QED
      BY <2>1, <3>1, <3>2
  <2>5. PICK y : y = Taken(T)
    OBVIOUS
  <2>6. /\ y \in T /\ T \ {y} \in SUBSET S /\ Cardinality(T \ {y}) \in Nat
        /\ Cardinality(T \ {y}) = n - 1
    <3>1. y \in T
      BY <2>3, <2>5 DEF Taken
    <3> QED
      BY <2>2, <2>3, <3>1, WithoutTaken
  <2>7. f[T] = v[y] + f[T \ {y}]
    BY <1>2, <2>3, <2>5
  <2>8. fine(T \ {y})
    BY <2>4, <2>6
  <2>9. ASSUME NEW x \in T PROVE f[T] = v[x] + f[T \ {x}]
    <3>1. CASE x = y
      BY <2>7, <3>1
    <3>2. CASE x # y
      <4>1. T \ {x} \in SUBSET S /\ Cardinality(T \ {x}) \in Nat /\ Cardinality(T \ {x}) = n - 1
        BY <2>2, <2>3, WithoutTaken
      <4>2. fine(T \ {x})
        BY <2>4, <4>1
      <4>3. f[T \ {y}] = v[x] + f[(T \ {y}) \ {x}]
        BY <2>8, <3>2
      <4>4. f[T \ {x}] = v[y] + f[(T \ {x}) \ {y}]
        BY <2>6, <3>2, <4>2
      <4>5. (T \ {x}) \ {y} = (T \ {y}) \ {x}
        OBVIOUS
      <4>6. PICK rest : rest = f[(T \ {y}) \ {x}]
        OBVIOUS
      <4>7. fine((T \ {y}) \ {x})
        <5>1. T \ {y} # {} /\ x \in T \ {y}
          BY <3>2
        <5>2. (T \ {y}) \ {x} \in SUBSET S
          OBVIOUS
        <5> QED
          <6>1. ASSUME ~fine((T \ {y}) \ {x}) PROVE FALSE
            <7>1. /\ Cardinality((T \ {y}) \ {x}) \in Nat
                  /\ Cardinality((T \ {y}) \ {x}) = n - 2
              BY <2>6, <5>1, WithoutTaken
            <7>2. n - 2 \in bad
              <8> HIDE DEF fine
              <8> QED
                BY <5>2, <6>1, <7>1
            <7>3. n \in Nat
              BY <2>2, <2>3, WithoutTaken
            <7> HIDE DEF bad
            <7> QED
              BY <2>1, <7>1, <7>2, <7>3
          <6> QED
            BY <6>1
      <4>8. rest \in Int /\ v[x] \in Int /\ v[y] \in Int
        BY <2>6, <4>6, <4>7
      <4>9. f[T] = v[y] + (v[x] + rest) /\ f[T \ {x}] = v[y] + rest
        BY <2>7, <4>3, <4>4, <4>5, <4>6
      <4> QED
        BY <4>8, <4>9
    <3> QED
      BY <3>1, <3>2
  <2>10. f[T] \in Int
    BY <2>6, <2>7, <2>8
  <2> QED
    BY <2>2, <2>9, <2>10
<1>4. \A T \in SUBSET S : fine(T)
  <2> TAKE T \in SUBSET S
  <2>1. Cardinality(T) \in Nat
    BY FS_Subset, FS_CardinalityType
  <2> HIDE DEF fine
  <2> QED
    BY <1>3, <2>1
<1> QED
  BY <1>1, <1>4 DEF Adds

LEMMA SumIsNat ==
    ASSUME NEW S, IsFiniteSet(S), NEW v \in [S -> Nat], NEW f, Sums(f, v, S)
    PROVE  f[S] \in Nat
<1> DEFINE bad == {n \in Nat : \E T \in SUBSET S : Cardinality(T) = n /\ f[T] \notin Nat}
<1>1. /\ f[{}] = 0
      /\ \A T \in SUBSET S : f[T] \in Int /\ \A x \in T : f[T] = v[x] + f[T \ {x}]
  <2>1. v \in [S -> Int]
    OBVIOUS
  <2> QED
    BY <2>1, SumLaw DEF Adds
<1>2. bad = {}
  <2> SUFFICES ASSUME bad # {} PROVE FALSE
    OBVIOUS
  <2>1. PICK n \in bad : \A m \in bad : n <= m
    <3>1. bad \subseteq Nat
      OBVIOUS
    <3> HIDE DEF bad
    <3> QED
      BY <3>1, LeastOf
  <2>2. PICK T \in SUBSET S : Cardinality(T) = n /\ f[T] \notin Nat
    OBVIOUS
  <2>3. PICK x : x \in T
    <3>1. f[{}] \in Nat
      BY <1>1
    <3>2. T # {}
      BY <2>2, <3>1
    <3> QED
      BY <3>2
  <2>4. T \ {x} \in SUBSET S /\ Cardinality(T \ {x}) \in Nat /\ Cardinality(T \ {x}) = n - 1 /\ n \in Nat
    BY <2>2, <2>3, WithoutTaken
  <2>5. f[T \ {x}] \in Nat
    <3> SUFFICES ASSUME f[T \ {x}] \notin Nat PROVE FALSE
      OBVIOUS
    <3>1. n - 1 \in bad
      BY <2>4
    <3> HIDE DEF bad
    <3> QED
      BY <2>1, <2>4, <3>1
  <2> QED
    BY <1>1, <2>2, <2>3, <2>5
<1>3. Cardinality(S) \in Nat
  BY FS_CardinalityType
<1> QED
  BY <1>2, <1>3

\* c is a running total of the first n of v.
Totals(c, v, n) ==
    /\ v \in [1..n -> Int]
    /\ c[0] = 0
    /\ \A k \in 1..n : c[k] = c[k - 1] + v[k]

\* The sum of the first n is what a running total has come to.
LEMMA RunningTotal ==
    ASSUME NEW n \in Nat, NEW v, NEW f, Sums(f, v, 1..n), NEW c, Totals(c, v, n)
    PROVE  f[1..n] = c[n]
<1>0. v \in [1..n -> Int] /\ c[0] = 0 /\ \A k \in 1..n : c[k] = c[k - 1] + v[k]
  BY DEF Totals
<1> DEFINE bad == {k \in 0..n : f[1..k] # c[k]}
<1>1. Adds(f, v, 1..n)
  <2>1. IsFiniteSet(1..n)
    BY FS_Interval
  <2> QED
    BY <1>0, <2>1, SumLaw
<1>2. /\ f[{}] = 0
      /\ \A T \in SUBSET (1..n) : f[T] \in Int /\ \A x \in T : f[T] = v[x] + f[T \ {x}]
  BY <1>1 DEF Adds
<1>3. bad = {}
  <2> SUFFICES ASSUME bad # {} PROVE FALSE
    OBVIOUS
  <2>1. PICK k \in bad : \A m \in bad : k <= m
    <3>1. bad \subseteq Nat
      OBVIOUS
    <3> HIDE DEF bad
    <3> QED
      BY <3>1, LeastOf
  <2>2. k \in 0..n /\ f[1..k] # c[k]
    OBVIOUS
  <2>3. k # 0
    <3>1. 1..0 = {}
      OBVIOUS
    <3> QED
      BY <1>0, <1>2, <2>2, <3>1
  <2>4. k \in 1..k /\ 1..k \in SUBSET (1..n) /\ (1..k) \ {k} = 1..(k - 1)
    BY <2>2, <2>3
  <2>5. f[1..k] = v[k] + f[1..(k - 1)] /\ f[1..(k - 1)] \in Int
    <3>1. f[1..k] = v[k] + f[(1..k) \ {k}]
      BY <1>2, <2>4
    <3>2. 1..(k - 1) \in SUBSET (1..n)
      BY <2>2
    <3> QED
      BY <1>2, <2>4, <3>1, <3>2
  <2>6. f[1..(k - 1)] = c[k - 1]
    <3>1. k - 1 \in 0..n /\ k - 1 \notin bad
      <4> HIDE DEF bad
      <4> QED
        BY <2>1, <2>2, <2>3
    <3> QED
      BY <3>1
  <2>7. v[k] \in Int /\ c[k] = c[k - 1] + v[k]
    BY <1>0, <2>2, <2>3
  <2> QED
    BY <2>2, <2>5, <2>6, <2>7
<1>4. n \in 0..n
  OBVIOUS
<1> QED
  BY <1>3, <1>4

-----------------------------------------------------------------------------
(* Types of what the account is reckoned with.                             *)

LEMMA LimitsAreNaturals ==
    /\ Policy.order \in Nat /\ Policy.position \in Nat /\ Policy.gross \in Nat /\ Policy.sector \in Nat
    /\ Policy.turnover \in Nat /\ Policy.reserve \in Nat
    /\ MinCommission \in Nat /\ CommissionPct \in Nat /\ SpreadPct \in Nat /\ Prices \subseteq Nat /\ Quantities \subseteq Nat
BY PaperAssumption DEF PolicyLimits

LEMMA ProductIsNatural ==
    ASSUME NEW x \in Nat, NEW y \in Nat
    PROVE  x * y \in Nat
OBVIOUS

LEMMA ProductGrows ==
    ASSUME NEW x \in Nat, NEW y \in Nat, NEW z \in Nat, y <= z
    PROVE  x * y <= x * z
<1>1. PICK d \in Nat : z = y + d
  OBVIOUS
<1>2. x * z = x * y + x * d
  BY <1>1
<1>3. x * y \in Nat /\ x * d \in Nat
  BY ProductIsNatural
<1> QED
  BY <1>2, <1>3

LEMMA PctIsNatural ==
    ASSUME NEW rate \in Nat, NEW amount \in Nat
    PROVE  Pct(rate, amount) \in Nat
<1>1. PICK m \in Nat : m = rate * amount
  BY ProductIsNatural
<1>2. m \div 100 \in Nat
  OBVIOUS
<1> QED
  BY <1>1, <1>2 DEF Pct

LEMMA PctGrows ==
    ASSUME NEW rate \in Nat, NEW less \in Nat, NEW more \in Nat, less <= more
    PROVE  Pct(rate, less) <= Pct(rate, more)
<1>1. PICK x \in Nat, y \in Nat : x = rate * less /\ y = rate * more /\ x <= y
  BY ProductIsNatural, ProductGrows
<1>2. x \div 100 <= y \div 100
  BY <1>1
<1> QED
  BY <1>1, <1>2 DEF Pct

LEMMA LargerOfTwo ==
    ASSUME NEW x \in Int, NEW y \in Int
    PROVE  Max({x, y}) = IF x < y THEN y ELSE x
<1>1. PICK m : m = IF x < y THEN y ELSE x
  OBVIOUS
<1>2. m \in {x, y} /\ \A z \in {x, y} : m >= z
  BY <1>1
<1>3. Max({x, y}) \in {x, y} /\ \A z \in {x, y} : Max({x, y}) >= z
  BY <1>2 DEF Max
<1> QED
  BY <1>1, <1>2, <1>3

LEMMA CostGrows ==
    ASSUME NEW less \in Nat, NEW more \in Nat, less <= more
    PROVE  Cost(less) \in Nat /\ Cost(more) \in Nat /\ Cost(less) <= Cost(more)
<1>1. PICK x \in Nat, y \in Nat : x = Pct(CommissionPct, less) /\ y = Pct(CommissionPct, more) /\ x <= y
  BY LimitsAreNaturals, PctIsNatural, PctGrows
<1>2. PICK v, w : v = Pct(SpreadPct, less) /\ w = Pct(SpreadPct, more)
  OBVIOUS
<1>3. v \in Nat /\ w \in Nat /\ v <= w
  BY <1>2, LimitsAreNaturals, PctIsNatural, PctGrows
<1>4. /\ Cost(less) = (IF MinCommission < x THEN x ELSE MinCommission) + v
      /\ Cost(more) = (IF MinCommission < y THEN y ELSE MinCommission) + w
  BY <1>1, <1>2, LimitsAreNaturals, LargerOfTwo DEF Cost
<1> QED
  BY <1>1, <1>3, <1>4, LimitsAreNaturals

\* The least of a set is found one element after the other.
HasLeast(S) == S \subseteq Int /\ \E x \in S : \A y \in S : x <= y

LEMMA OneMore ==
    ASSUME NEW S, HasLeast(S), NEW n \in Int
    PROVE  HasLeast(S \cup {n})
<1>1. PICK x \in S : S \subseteq Int /\ \A y \in S : x <= y
  BY DEF HasLeast
<1>2. CASE x <= n
  BY <1>1, <1>2 DEF HasLeast
<1>3. CASE ~(x <= n)
  <2>1. \A y \in S \cup {n} : n <= y
    BY <1>1, <1>3
  <2> QED
    BY <1>1, <2>1 DEF HasLeast
<1> QED
  BY <1>2, <1>3

LEMMA LeastOfSix ==
    ASSUME NEW a \in Int, NEW b \in Int, NEW c \in Int, NEW d \in Int, NEW e \in Int, NEW f \in Int
    PROVE  LET S == {a, b, c, d, e, f} IN Min(S) \in Int /\ \A y \in S : Min(S) <= y
<1> DEFINE S == {a, b, c, d, e, f}
<1>1. HasLeast({a})
  BY DEF HasLeast
<1>2. HasLeast((((({a} \cup {b}) \cup {c}) \cup {d}) \cup {e}) \cup {f})
  BY <1>1, OneMore
<1>3. (((({a} \cup {b}) \cup {c}) \cup {d}) \cup {e}) \cup {f} = S
  OBVIOUS
<1>4. HasLeast(S)
  BY <1>2, <1>3
<1> HIDE DEF S
<1>5. Min(S) \in S /\ \A y \in S : Min(S) <= y
  BY <1>4 DEF HasLeast, Min
<1>6. S \subseteq Int
  BY <1>4 DEF HasLeast
<1> QED
  BY <1>5, <1>6 DEF S

\* The turnover of the day is a sum of naturals.
LEMMA TurnoverIsNatural == ASSUME fills \in Seq(FillRow) PROVE Turnover \in Nat
<1> DEFINE S == DOMAIN fills
           v == [i \in S |-> fills[i].qty * fills[i].price]
           step(f, s) == IF s = {} THEN 0
                         ELSE LET x == CHOOSE x \in s : TRUE
                              IN  fills[x].qty * fills[x].price + f[s \ {x}]
           iter == CHOOSE f : f = [s \in SUBSET S |-> step(f, s)]
<1>1. Turnover = iter[S]
  BY Zenon DEF Turnover, MapThenSumSet, MapThenFoldSet
<1>2. ASSUME NEW f PROVE [s \in SUBSET S |-> step(f, s)] =
                         [s \in SUBSET S |-> IF s = {} THEN 0 ELSE v[Taken(s)] + f[s \ {Taken(s)}]]
  <2>1. \A s \in SUBSET S : step(f, s) = IF s = {} THEN 0 ELSE v[Taken(s)] + f[s \ {Taken(s)}]
    BY DEF Taken
  <2> HIDE DEF step
  <2> QED
    BY <2>1
<1>3. IsFiniteSet(S) /\ v \in [S -> Nat]
  <2>1. S = 1..Len(fills) /\ Len(fills) \in Nat
    OBVIOUS
  <2>2. \A i \in S : fills[i].qty \in Nat /\ fills[i].price \in Nat
    <3>1. \A i \in S : fills[i] \in FillRow
      OBVIOUS
    <3>2. \A r \in FillRow : r.qty \in Nat /\ r.price \in Nat
      BY LimitsAreNaturals DEF FillRow
    <3> HIDE DEF S
    <3> QED
      BY <3>1, <3>2
  <2>3. \A i \in S : fills[i].qty * fills[i].price \in Nat
    BY <2>2, ProductIsNatural
  <2>4. IsFiniteSet(S)
    BY <2>1, FS_Interval
  <2> QED
    BY <2>3, <2>4
<1> HIDE DEF S, v, step
<1>4. \E f : f = [s \in SUBSET S |-> step(f, s)]
  <2>1. PICK f : Sums(f, v, S)
    BY <1>3, SumsExist
  <2>2. f = [s \in SUBSET S |-> IF s = {} THEN 0 ELSE v[Taken(s)] + f[s \ {Taken(s)}]]
    BY <2>1 DEF Sums
  <2>3. [s \in SUBSET S |-> step(f, s)] =
        [s \in SUBSET S |-> IF s = {} THEN 0 ELSE v[Taken(s)] + f[s \ {Taken(s)}]]
    BY <1>2
  <2> QED
    BY <2>2, <2>3
<1>5. iter = [s \in SUBSET S |-> step(iter, s)]
  BY <1>4, Zenon
<1> HIDE DEF iter
<1>6. Sums(iter, v, S)
  BY <1>2, <1>5 DEF Sums
<1> QED
  BY <1>1, <1>3, <1>6, SumIsNat

LEMMA SnapshotIsNatural ==
    ASSUME NEW s \in Snapshot
    PROVE  /\ s.cash \in Nat /\ s.value \in Nat /\ Nav(s) \in Nat
           /\ s.peak \in Nat /\ s.kill \in KillState
           /\ s.pos \in [Assets -> Position]
           /\ \A a \in Assets : s.pos[a].qty \in Nat /\ s.pos[a].mark \in Nat
BY DEF Snapshot, Nav, Position

LEMMA Differences ==
    ASSUME NEW x \in Nat, NEW y \in Nat, NEW z \in Nat
    PROVE  x \in Int /\ x - y \in Int /\ x - y - z \in Int
OBVIOUS

\* What the caps leave is an integer, no more than the cash above the reserve and the costs.
LEMMA CapsLeave ==
    ASSUME fills \in Seq(FillRow), NEW s \in Snapshot, NEW cost \in Nat
    PROVE  /\ Min(Caps(s, cost)) \in Int
           /\ Pct(Policy.reserve, Nav(s)) \in Nat
           /\ Min(Caps(s, cost)) <= s.cash - Pct(Policy.reserve, Nav(s)) - cost
<1>1. s.cash \in Nat /\ s.value \in Nat /\ Nav(s) \in Nat
  BY SnapshotIsNatural
<1>2. Turnover \in Nat
  BY TurnoverIsNatural
<1>3. /\ Pct(Policy.position, Nav(s)) \in Nat /\ Pct(Policy.gross, Nav(s)) \in Nat
      /\ Pct(Policy.reserve, Nav(s)) \in Nat /\ Pct(Policy.turnover, Nav(s)) \in Nat
      /\ Pct(Policy.sector, Nav(s)) \in Nat
  BY <1>1, LimitsAreNaturals, PctIsNatural
<1>4. PICK a \in Int, b \in Int, c \in Int, d \in Int, e \in Int, f \in Int :
          /\ a = Policy.order /\ b = Pct(Policy.position, Nav(s))
          /\ c = Pct(Policy.gross, Nav(s)) - s.value
          /\ d = s.cash - Pct(Policy.reserve, Nav(s)) - cost
          /\ e = Pct(Policy.turnover, Nav(s)) - Turnover
          /\ f = Pct(Policy.sector, Nav(s))
  <2>1. Policy.order \in Int
    BY LimitsAreNaturals
  <2>2. /\ Pct(Policy.position, Nav(s)) \in Int
        /\ Pct(Policy.gross, Nav(s)) - s.value \in Int
        /\ s.cash - Pct(Policy.reserve, Nav(s)) - cost \in Int
        /\ Pct(Policy.turnover, Nav(s)) - Turnover \in Int
        /\ Pct(Policy.sector, Nav(s)) \in Int
    <3>1. Pct(Policy.position, Nav(s)) \in Int /\ Pct(Policy.sector, Nav(s)) \in Int
      BY <1>3, Differences
    <3>2. Pct(Policy.gross, Nav(s)) - s.value \in Int
      BY <1>1, <1>3, Differences
    <3>3. s.cash - Pct(Policy.reserve, Nav(s)) - cost \in Int
      BY <1>1, <1>3, Differences
    <3>4. Pct(Policy.turnover, Nav(s)) - Turnover \in Int
      BY <1>2, <1>3, Differences
    <3> QED
      BY <3>1, <3>2, <3>3, <3>4
  <2> QED
    BY <2>1, <2>2, Zenon
<1>5. Caps(s, cost) = {a, b, c, d, e, f}
  BY <1>4 DEF Caps
<1>6. /\ Min({a, b, c, d, e, f}) \in Int
      /\ \A y \in {a, b, c, d, e, f} : Min({a, b, c, d, e, f}) <= y
  BY LeastOfSix
<1>7. Min({a, b, c, d, e, f}) <= d
  BY <1>6
<1> QED
  BY <1>3, <1>4, <1>5, <1>6, <1>7

\* A quantity that is cut to what the caps leave costs no more than they leave.
LEMMA CutQuantity ==
    ASSUME NEW qty \in Nat, NEW price \in Nat, NEW left \in Nat, left < qty * price
    PROVE  /\ (qty * left) \div (qty * price) \in Nat
           /\ ((qty * left) \div (qty * price)) * price <= left
<1>1. PICK asked \in Nat, over \in Nat : asked = qty * price /\ over = qty * left
  BY ProductIsNatural
<1>2. asked > 0
  BY <1>1
<1>3. PICK d \in Nat : d = over \div asked /\ asked * d <= over
  BY <1>1, <1>2
<1>4. PICK spent \in Nat : spent = d * price
  BY ProductIsNatural
<1>5. qty * spent = asked * d
  BY <1>1, <1>4
<1>6. spent <= left
  <2> SUFFICES ASSUME left + 1 <= spent PROVE FALSE
    BY <1>4
  <2>1. qty * (left + 1) <= qty * spent
    BY ProductGrows
  <2>2. qty * (left + 1) = over + qty
    BY <1>1
  <2>3. qty > 0
    BY <1>1, <1>2
  <2>4. PICK all \in Nat : all = qty * spent
    BY ProductIsNatural
  <2> QED
    BY <1>1, <1>3, <1>5, <2>1, <2>2, <2>3, <2>4
<1> QED
  BY <1>1, <1>3, <1>4, <1>6

\* The quantity that the limits leave, and the reserve that a purchase of it keeps.
LEMMA SizeIsSound ==
    ASSUME fills \in Seq(FillRow), NEW o \in Order, NEW s \in Snapshot, NEW size, size = Sized(o, s)
    PROVE  /\ size.qty \in Nat /\ size.notional \in Nat
           /\ o.side = "buy" /\ size.notional # 0 =>
                 size.qty * o.price + Cost(size.qty * o.price) <= s.cash - Pct(Policy.reserve, Nav(s))
<1>1. PICK price \in Nat, qty \in Nat, side \in Sides, held \in Nat :
          price = o.price /\ qty = o.qty /\ side = o.side /\ held = s.pos[o.asset].qty
  BY SnapshotIsNatural, LimitsAreNaturals DEF Order
<1>2. PICK asked \in Nat : asked = qty * price
  BY ProductIsNatural
<1>3. Cost(asked) \in Nat
  BY CostGrows
<1>4. PICK allowed \in Int, reserve \in Nat :
          /\ allowed = Min(Caps(s, Cost(asked))) /\ reserve = Pct(Policy.reserve, Nav(s))
          /\ allowed <= s.cash - reserve - Cost(asked)
  BY <1>3, CapsLeave
<1>5. s.cash \in Nat
  BY SnapshotIsNatural
<1>6. size = CASE side = "sell" /\ held > 0 /\ qty > held ->
                      [qty |-> held, notional |-> held * price, cut |-> TRUE]
               [] side = "sell" /\ held = 0 ->
                      [qty |-> qty, notional |-> asked, cut |-> TRUE]
               [] side = "buy" /\ allowed < asked /\ allowed > 0 ->
                      [qty |-> (qty * allowed) \div asked, notional |-> allowed, cut |-> TRUE]
               [] side = "buy" /\ allowed < asked /\ allowed <= 0 ->
                      [qty |-> 0, notional |-> 0, cut |-> TRUE]
               [] OTHER -> [qty |-> qty, notional |-> asked, cut |-> FALSE]
  BY <1>1, <1>2, <1>4 DEF Sized
<1>7. CASE side = "sell"
  <2>1. held * price \in Nat
    BY ProductIsNatural
  <2>2. \/ size.qty = held /\ size.notional = held * price
        \/ size.qty = qty /\ size.notional = asked
    <3>1. \/ size = [qty |-> held, notional |-> held * price, cut |-> TRUE]
          \/ size = [qty |-> qty, notional |-> asked, cut |-> TRUE]
          \/ size = [qty |-> qty, notional |-> asked, cut |-> FALSE]
      BY <1>6, <1>7
    <3> QED
      BY <3>1
  <2> QED
    BY <1>1, <1>7, <2>1, <2>2
<1>8. CASE side = "buy" /\ allowed < asked /\ allowed > 0
  <2>1. size = [qty |-> (qty * allowed) \div asked, notional |-> allowed, cut |-> TRUE]
    BY <1>6, <1>8
  <2>2. size.qty = (qty * allowed) \div asked /\ size.notional = allowed
    BY <2>1
  <2>3. allowed \in Nat
    BY <1>8
  <2>4. size.qty \in Nat /\ size.qty * price <= allowed
    BY <1>2, <1>8, <2>2, <2>3, CutQuantity
  <2>5. PICK spent \in Nat : spent = size.qty * price
    BY <2>4, ProductIsNatural
  <2>6. spent <= asked
    BY <1>8, <2>4, <2>5
  <2>7. Cost(spent) \in Nat /\ Cost(spent) <= Cost(asked)
    BY <2>6, CostGrows
  <2>8. spent + Cost(spent) <= s.cash - reserve
    BY <1>3, <1>4, <1>5, <2>4, <2>5, <2>7
  <2> QED
    BY <1>1, <1>4, <2>2, <2>3, <2>4, <2>5, <2>8
<1>9. CASE side = "buy" /\ allowed < asked /\ allowed <= 0
  <2>1. size = [qty |-> 0, notional |-> 0, cut |-> TRUE]
    BY <1>6, <1>9
  <2> QED
    BY <2>1
<1>10. CASE side = "buy" /\ ~(allowed < asked)
  <2>1. size = [qty |-> qty, notional |-> asked, cut |-> FALSE]
    BY <1>6, <1>10
  <2>2. size.qty = qty /\ size.notional = asked
    BY <2>1
  <2>3. asked + Cost(asked) <= s.cash - reserve
    BY <1>3, <1>4, <1>5, <1>10
  <2> QED
    BY <1>1, <1>2, <1>4, <2>2, <2>3
<1> QED
  BY <1>1, <1>7, <1>8, <1>9, <1>10 DEF Sides

\* evaluate_order: the quantity it approves leaves the reserve, at the price of the order.
LEMMA EvaluationIsSound ==
    ASSUME fills \in Seq(FillRow), Len(snapshots) \in Nat, NEW o \in Order, NEW s \in Snapshot,
           NEW causal \in BOOLEAN, NEW admissible \in BOOLEAN,
           NEW e, e = EvaluateOrder(o, s, causal, admissible)
    PROVE  /\ e \in Evaluation
           /\ Approved(e) => e.basis = Len(snapshots)
           /\ Approved(e) /\ o.side = "buy" =>
                 e.qty * o.price + Cost(e.qty * o.price) <= s.cash - Pct(Policy.reserve, Nav(s))
<1>1. PICK size : size = Sized(o, s)
  OBVIOUS
<1>2. /\ size.qty \in Nat /\ size.notional \in Nat
      /\ o.side = "buy" /\ size.notional # 0 =>
            size.qty * o.price + Cost(size.qty * o.price) <= s.cash - Pct(Policy.reserve, Nav(s))
  BY <1>1, SizeIsSound
<1>3. s.kill \in KillState
  BY SnapshotIsNatural
<1>4. \/ \E a \in {"rejected", "portfolio_halted"}, kill \in KillState : e = Verdict(a, 0, 0, kill)
      \/ /\ size.notional # 0
         /\ \E a \in {"approved", "resized"}, kill \in KillState :
               e = Verdict(a, size.qty, size.notional, kill)
  <2> DEFINE restricts == DrawdownReaches(s, Policy.restricted)
             barred == \/ s.kill \in {"paused", "halted"}
                       \/ (s.kill = "entry_restricted" /\ o.side = "buy")
             refused == TooCostly(o, s, size.notional) \/ (restricts /\ o.side = "buy")
             kill == IF restricts THEN "entry_restricted" ELSE s.kill
             word == IF size.cut \/ OverCount(o, s) THEN "resized" ELSE "approved"
  <2>1. \/ e = Verdict("portfolio_halted", 0, 0, "halted")
        \/ e = Verdict("rejected", 0, 0, s.kill)
        \/ e = IF refused THEN Verdict("rejected", 0, 0, kill)
               ELSE Verdict(word, size.qty, size.notional, kill)
    BY <1>1 DEF EvaluateOrder
  <2>2. kill \in KillState /\ "halted" \in KillState
    BY <1>3 DEF KillState
  <2>3. word \in {"approved", "resized"}
    OBVIOUS
  <2>4. ~refused => size.notional # 0
    BY DEF TooCostly
  <2> HIDE DEF refused, kill, word
  <2> QED
    BY <1>3, <2>1, <2>2, <2>3, <2>4
<1>5. CASE \E a \in {"rejected", "portfolio_halted"}, kill \in KillState : e = Verdict(a, 0, 0, kill)
  <2>1. PICK a \in {"rejected", "portfolio_halted"}, kill \in KillState : e = Verdict(a, 0, 0, kill)
    BY <1>5
  <2>2. e = [action |-> a, qty |-> 0, notional |-> 0, kill |-> kill, basis |-> Len(snapshots)]
    BY <2>1 DEF Verdict
  <2> QED
    BY <2>1, <2>2 DEF Evaluation, Action, Approved
<1>6. CASE /\ size.notional # 0
           /\ \E a \in {"approved", "resized"}, kill \in KillState :
                 e = Verdict(a, size.qty, size.notional, kill)
  <2>1. PICK a \in {"approved", "resized"}, kill \in KillState :
            e = Verdict(a, size.qty, size.notional, kill)
    BY <1>6
  <2>2. e = [action |-> a, qty |-> size.qty, notional |-> size.notional, kill |-> kill,
             basis |-> Len(snapshots)]
    BY <2>1 DEF Verdict
  <2>3. e \in Evaluation
    BY <1>2, <2>1, <2>2 DEF Evaluation, Action
  <2>4. e.qty = size.qty /\ e.basis = Len(snapshots)
    BY <2>2
  <2> QED
    BY <1>2, <1>6, <2>3, <2>4
<1> QED
  BY <1>4, <1>5, <1>6

-----------------------------------------------------------------------------
(* The account as a ledger: the recorded snapshots follow from the fills,  *)
(* and an approved purchase leaves the reserve of the snapshot it was      *)
(* evaluated against.                                                      *)

CashMove(row) ==
    (IF row.side = "buy" THEN -1 ELSE 1) * row.qty * row.price - row.cost

ShareMove(row, a) ==
    IF row.asset # a THEN 0 ELSE IF row.side = "buy" THEN row.qty ELSE -row.qty

\* Snapshot next is what the fill of this row makes of snapshot last.
Follows(next, last, row) ==
    /\ next.cash = last.cash + CashMove(row)
    /\ \A a \in Assets : next.pos[a].qty = last.pos[a].qty + ShareMove(row, a)

LedgerSteps ==
    /\ snapshots[1].cash = InitialCash
    /\ \A a \in Assets : snapshots[1].pos[a].qty = 0
    /\ \A k \in 1..Len(fills) : Follows(snapshots[k + 1], snapshots[k], fills[k])

\* An approved purchase leaves the reserve of the snapshot it was evaluated against.
KeepsReserve(o, snaps) ==
    Approved(o.eval) =>
        /\ o.eval.basis \in 1..Len(snaps)
        /\ LET s == snaps[o.eval.basis]
               spent == o.eval.qty * o.price
           IN  o.side = "buy" => spent + Cost(spent) <= s.cash - Pct(Policy.reserve, Nav(s))

Reserves == \A i \in 1..Len(orders) : KeepsReserve(orders[i], snapshots)

PaperInv == TypeOK /\ LedgerSteps /\ Reserves

\* apply_fill, its value written as a finite sum: the snapshot after the fill, and
\* the position it leaves of the traded asset.
LEMMA FillGivesSnapshot ==
    ASSUME now \in 0..MaxTime, NEW s \in Snapshot, NEW o \in Order, NEW q \in Nat, NEW p \in Nat,
           NEW known, NEW marks \in [known -> Prices], NEW kill \in KillState,
           Reconciles(s, o, q, p), NEW n, n = ApplyFill(s, o, q, p, marks, kill)
    PROVE  /\ n \in Snapshot
           /\ n.cash = CashAfter(s, o.side, q, p)
           /\ n.kill = kill
           /\ n.pos[o.asset].qty = HeldAfter(s, o, q)
           /\ \A a \in Assets : a # o.asset => n.pos[a].qty = s.pos[a].qty
<1> DEFINE left == HeldAfter(s, o, q)
           traded == IF left = 0 THEN NoPosition
                     ELSE [qty |-> left,
                           mark |-> IF o.asset \in DOMAIN marks THEN marks[o.asset] ELSE p]
           pos == [s.pos EXCEPT ![o.asset] = traded]
           worth(a) == pos[a].qty * (IF a \in DOMAIN marks THEN marks[a] ELSE pos[a].mark)
           v == [a \in Assets |-> worth(a)]
           step(f, S) == IF S = {} THEN 0
                         ELSE LET x == CHOOSE x \in S : TRUE IN worth(x) + f[S \ {x}]
           iter == CHOOSE f : f = [S \in SUBSET Assets |-> step(f, S)]
           cash == CashAfter(s, o.side, q, p)
<1>1. n = [time |-> now, cash |-> cash, value |-> iter[Assets],
           peak |-> Max({s.peak, cash + iter[Assets]}), pos |-> pos, kill |-> kill]
  BY Zenon DEF ApplyFill, MapThenSumSet, MapThenFoldSet
<1>2. cash \in Nat /\ left \in Nat
  <2>1. s.cash \in Nat /\ s.pos[o.asset].qty \in Nat /\ o.asset \in Assets
    BY SnapshotIsNatural DEF Order
  <2>2. PICK price \in Nat : price = q * p
    BY ProductIsNatural
  <2>3. Cost(price) \in Nat
    BY <2>2, CostGrows
  <2>4. cash \in Int /\ left \in Int
    <3> HIDE DEF v, step, iter
    <3> QED
      BY <2>1, <2>2, <2>3 DEF CashAfter, HeldAfter
  <2>5. cash >= 0 /\ left >= 0
    BY DEF Reconciles
  <2> HIDE DEF cash, left
  <2> QED
    BY <2>4, <2>5
<1>3. \A a \in known : marks[a] \in Nat
  BY LimitsAreNaturals
<1>4. DOMAIN marks = known
  OBVIOUS
<1>5. traded \in Position /\ traded.qty = left
  <2>1. CASE left = 0
    BY <2>1 DEF NoPosition, Position
  <2>2. CASE left # 0
    <3>1. PICK m \in Nat : m = IF o.asset \in DOMAIN marks THEN marks[o.asset] ELSE p
      BY <1>3, <1>4
    <3>2. traded = [qty |-> left, mark |-> m]
      BY <2>2, <3>1
    <3> HIDE DEF traded, left
    <3> QED
      BY <1>2, <3>2 DEF Position
  <2> QED
    BY <2>1, <2>2
<1> HIDE DEF traded, left, cash
<1>6. /\ s.pos \in [Assets -> Position] /\ o.asset \in Assets
      /\ pos \in [Assets -> Position] /\ pos[o.asset] = traded
      /\ \A a \in Assets : a # o.asset => pos[a] = s.pos[a]
  <2>1. s.pos \in [Assets -> Position] /\ o.asset \in Assets
    BY SnapshotIsNatural DEF Order
  <2>2. PICK before, x : before = s.pos /\ x = o.asset
    OBVIOUS
  <2>3. [before EXCEPT ![x] = traded] \in [Assets -> Position]
    BY <1>5, <2>1, <2>2
  <2>4. pos = [before EXCEPT ![x] = traded]
    BY <2>2
  <2> HIDE DEF pos
  <2> QED
    BY <1>5, <2>1, <2>2, <2>3, <2>4
<1> HIDE DEF pos
<1>7. v \in [Assets -> Nat]
  <2>1. ASSUME NEW a \in Assets PROVE worth(a) \in Nat
    <3>1. pos[a].qty \in Nat /\ pos[a].mark \in Nat
      BY <1>6 DEF Position
    <3>2. PICK m \in Nat : m = IF a \in DOMAIN marks THEN marks[a] ELSE pos[a].mark
      BY <1>3, <1>4, <3>1
    <3>3. pos[a].qty * m \in Nat
      BY <3>1, ProductIsNatural
    <3> QED
      BY <3>2, <3>3
  <2> HIDE DEF worth
  <2> QED
    BY <2>1
<1>8. ASSUME NEW f PROVE [S \in SUBSET Assets |-> step(f, S)] =
                         [S \in SUBSET Assets |-> IF S = {} THEN 0 ELSE v[Taken(S)] + f[S \ {Taken(S)}]]
  <2>1. \A S \in SUBSET Assets : step(f, S) = IF S = {} THEN 0 ELSE v[Taken(S)] + f[S \ {Taken(S)}]
    <3> HIDE DEF worth
    <3> QED
      BY DEF Taken
  <2> HIDE DEF step
  <2> QED
    BY <2>1
<1> HIDE DEF v, step
<1>9. \E f : f = [S \in SUBSET Assets |-> step(f, S)]
  <2>1. PICK f : Sums(f, v, Assets)
    BY <1>7, PaperAssumption, SumsExist
  <2>2. f = [S \in SUBSET Assets |-> IF S = {} THEN 0 ELSE v[Taken(S)] + f[S \ {Taken(S)}]]
    BY <2>1 DEF Sums
  <2>3. [S \in SUBSET Assets |-> step(f, S)] =
        [S \in SUBSET Assets |-> IF S = {} THEN 0 ELSE v[Taken(S)] + f[S \ {Taken(S)}]]
    BY <1>8
  <2> QED
    BY <2>2, <2>3
<1>10. iter = [S \in SUBSET Assets |-> step(iter, S)]
  BY <1>9, Zenon
<1> HIDE DEF iter
<1>11. iter[Assets] \in Nat
  <2>1. Sums(iter, v, Assets)
    BY <1>8, <1>10 DEF Sums
  <2> QED
    BY <1>7, <2>1, PaperAssumption, SumIsNat
<1>12. Max({s.peak, cash + iter[Assets]}) \in Nat
  <2>1. PICK x \in Nat, y \in Nat : x = s.peak /\ y = cash + iter[Assets]
    BY <1>2, <1>11, SnapshotIsNatural
  <2>2. Max({x, y}) = IF x < y THEN y ELSE x
    BY LargerOfTwo
  <2> QED
    BY <2>1, <2>2
<1>13. PICK worthAll \in Nat, peak \in Nat :
           n = [time |-> now, cash |-> cash, value |-> worthAll, peak |-> peak, pos |-> pos,
                kill |-> kill]
  BY <1>1, <1>11, <1>12
<1>14. n \in Snapshot
  BY <1>2, <1>6, <1>13 DEF Snapshot
<1>15. n.cash = cash /\ n.pos = pos /\ n.kill = kill
  BY <1>13
<1> QED
  BY <1>5, <1>6, <1>14, <1>15 DEF cash, left

-----------------------------------------------------------------------------

LEMMA InitPaperInv == Init => PaperInv
<1> SUFFICES ASSUME Init PROVE PaperInv
  OBVIOUS
<1>1. orders = <<>> /\ fills = <<>> /\ snapshots = <<InitialSnapshot>>
  BY DEF Init
<1>2. InitialSnapshot \in Snapshot
  <2>1. 0 \in 0..MaxTime /\ InitialCash \in Nat
    BY PaperAssumption
  <2>2. [a \in Assets |-> NoPosition] \in [Assets -> Position]
    BY DEF NoPosition, Position
  <2> QED
    BY <2>1, <2>2 DEF InitialSnapshot, Snapshot, KillState
<1>3. Len(orders) = 0 /\ Len(fills) = 0 /\ Len(snapshots) = 1
  BY <1>1
<1>4. TypeOK
  <2>1. snapshots \in Seq(Snapshot)
    BY <1>1, <1>2
  <2>2. orders \in Seq(Order) /\ fills \in Seq(FillRow)
    BY <1>1
  <2>3. now \in 0..MaxTime /\ market \in [Assets -> Prices]
    BY PaperAssumption DEF Init
  <2> QED
    BY <1>3, <2>1, <2>2, <2>3 DEF TypeOK
<1>5. LedgerSteps
  <2>1. snapshots[1] = InitialSnapshot
    BY <1>1
  <2>2. InitialSnapshot.cash = InitialCash /\ \A a \in Assets : InitialSnapshot.pos[a].qty = 0
    BY DEF InitialSnapshot, NoPosition
  <2> QED
    BY <1>3, <2>1, <2>2 DEF LedgerSteps
<1>6. Reserves
  BY <1>3 DEF Reserves
<1> QED
  BY <1>4, <1>5, <1>6 DEF PaperInv

\* An order with another evaluation is the order otherwise.
LEMMA OrderWithEvaluation ==
    ASSUME NEW r \in Order, NEW e \in Evaluation, NEW o, o = [r EXCEPT !.eval = e]
    PROVE  o \in Order /\ o.eval = e /\ o.side = r.side /\ o.price = r.price
<1>1. PICK a, b, c, d, f, g :
          /\ a \in Assets /\ b \in Sides /\ c \in Nat /\ d \in Prices /\ g \in BOOLEAN
          /\ r = [asset |-> a, side |-> b, qty |-> c, price |-> d, eval |-> f, decided |-> g]
  BY DEF Order
<1>2. o = [asset |-> a, side |-> b, qty |-> c, price |-> d, eval |-> e, decided |-> g]
  BY <1>1
<1> QED
  BY <1>1, <1>2 DEF Order

\* An order that is decided keeps its evaluation, and with it the reserve.
LEMMA DecidedKeeps ==
    ASSUME NEW r \in Order, NEW snaps, KeepsReserve(r, snaps), NEW o, o = [r EXCEPT !.decided = TRUE]
    PROVE  o \in Order /\ KeepsReserve(o, snaps)
<1>1. PICK a, b, c, d, f, g :
          /\ a \in Assets /\ b \in Sides /\ c \in Nat /\ d \in Prices /\ f \in Evaluation
          /\ r = [asset |-> a, side |-> b, qty |-> c, price |-> d, eval |-> f, decided |-> g]
  BY DEF Order
<1>2. o = [asset |-> a, side |-> b, qty |-> c, price |-> d, eval |-> f, decided |-> TRUE]
  BY <1>1
<1>3. o \in Order
  BY <1>1, <1>2 DEF Order
<1>4. o.eval = r.eval /\ o.side = r.side /\ o.price = r.price
  BY <1>1, <1>2
<1> QED
  BY <1>3, <1>4 DEF KeepsReserve

\* Replacing an element of a sequence leaves the others.
LEMMA ElementReplaced ==
    ASSUME NEW S, NEW s \in Seq(S), NEW i \in 1..Len(s), NEW e \in S, NEW t, t = [s EXCEPT ![i] = e]
    PROVE  /\ t \in Seq(S) /\ Len(t) = Len(s)
           /\ t[i] = e /\ \A j \in 1..Len(s) : j # i => t[j] = s[j]
<1>1. t \in Seq(S) /\ Len(t) = Len(s)
  OBVIOUS
<1>2. t[i] = e /\ \A j \in 1..Len(s) : j # i => t[j] = s[j]
  OBVIOUS
<1> QED
  BY <1>1, <1>2

\* A step that changes one order at most, to one that keeps the reserve, and leaves the
\* account alone keeps the invariant.
LEMMA OrdersOnly ==
    ASSUME PaperInv, UNCHANGED <<fills, snapshots>>, now' \in 0..MaxTime, market' \in [Assets -> Prices],
           NEW o \in Order, KeepsReserve(o, snapshots),
           \/ UNCHANGED orders
           \/ orders' = Append(orders, o)
           \/ \E i \in 1..Len(orders) : orders' = [orders EXCEPT ![i] = o]
    PROVE  PaperInv'
<1>1. PICK s : s = orders /\ s \in Seq(Order)
  BY DEF PaperInv, TypeOK
<1>2. /\ orders' \in Seq(Order)
      /\ \A i \in 1..Len(orders') :
            orders'[i] = o \/ (i \in 1..Len(orders) /\ orders'[i] = orders[i])
  <2>1. CASE UNCHANGED orders
    BY <1>1, <2>1
  <2>2. CASE orders' = Append(orders, o)
    <3>1. /\ Append(s, o) \in Seq(Order) /\ Len(Append(s, o)) = Len(s) + 1 /\ Len(s) \in Nat
          /\ Append(s, o)[Len(s) + 1] = o
          /\ \A i \in 1..Len(s) : Append(s, o)[i] = s[i]
      BY <1>1
    <3> QED
      BY <1>1, <2>2, <3>1
  <2>3. CASE \E i \in 1..Len(orders) : orders' = [orders EXCEPT ![i] = o]
    <3>1. PICK i \in 1..Len(s) : orders' = [s EXCEPT ![i] = o]
      BY <1>1, <2>3
    <3>2. PICK t : t = [s EXCEPT ![i] = o]
      OBVIOUS
    <3>3. /\ t \in Seq(Order) /\ Len(t) = Len(s)
          /\ t[i] = o /\ \A j \in 1..Len(s) : j # i => t[j] = s[j]
      BY <1>1, <3>2, ElementReplaced
    <3> QED
      BY <1>1, <3>1, <3>2, <3>3
  <2> QED
    BY <2>1, <2>2, <2>3
<1>3. TypeOK' /\ LedgerSteps'
  BY <1>2 DEF PaperInv, TypeOK, LedgerSteps
<1>4. Reserves'
  <2>1. \A i \in 1..Len(orders) : KeepsReserve(orders[i], snapshots)
    BY DEF PaperInv, Reserves
  <2>2. snapshots' = snapshots
    OBVIOUS
  <2>3. ASSUME NEW i \in 1..Len(orders') PROVE KeepsReserve(orders'[i], snapshots)
    BY <1>2, <2>1
  <2> QED
    BY <2>2, <2>3 DEF Reserves
<1> QED
  BY <1>3, <1>4 DEF PaperInv

LEMMA PaperPropose == ASSUME PaperInv, Propose PROVE PaperInv'
<1>1. PICK a, side, q, o :
          /\ a \in Assets /\ side \in Sides /\ q \in Quantities
          /\ o = [asset |-> a, side |-> side, qty |-> q, price |-> market[a],
                  eval |-> NotEvaluated, decided |-> FALSE]
          /\ orders' = Append(orders, o)
  BY DEF Propose
<1>2. market[a] \in Prices /\ q \in Nat
  BY <1>1, LimitsAreNaturals DEF PaperInv, TypeOK
<1>3. NotEvaluated \in Evaluation /\ ~Approved(NotEvaluated)
  BY DEF NotEvaluated, Evaluation, Action, KillState, Approved
<1>4. o \in Order /\ o.eval = NotEvaluated
  BY <1>1, <1>2, <1>3 DEF Order
<1>5. KeepsReserve(o, snapshots)
  BY <1>3, <1>4 DEF KeepsReserve
<1>6. now' \in 0..MaxTime /\ market' \in [Assets -> Prices] /\ UNCHANGED <<fills, snapshots>>
  BY DEF PaperInv, TypeOK, Propose
<1> QED
  BY <1>1, <1>4, <1>5, <1>6, OrdersOnly

LEMMA AccountIsSnapshot ==
    ASSUME TypeOK
    PROVE  account \in Snapshot /\ Len(snapshots) \in Nat /\ Len(snapshots) \in 1..Len(snapshots)
BY DEF TypeOK, account

LEMMA PaperEvaluate == ASSUME PaperInv, Evaluate PROVE PaperInv'
<1>1. PICK i \in DOMAIN orders, causal \in BOOLEAN, admissible \in BOOLEAN :
          orders' = [orders EXCEPT ![i] = [@ EXCEPT !.eval =
                        EvaluateOrder(orders[i], account, causal, admissible)]]
  BY DEF Evaluate
<1>2. PICK r, s, e, o : r = orders[i] /\ s = account /\ e = EvaluateOrder(r, s, causal, admissible)
                        /\ o = [r EXCEPT !.eval = e]
  OBVIOUS
<1>3. TypeOK /\ fills \in Seq(FillRow)
  BY DEF PaperInv, TypeOK
<1>4. i \in 1..Len(orders) /\ r \in Order
  BY <1>2, <1>3 DEF TypeOK
<1>5. s \in Snapshot /\ Len(snapshots) \in Nat /\ Len(snapshots) \in 1..Len(snapshots)
  BY <1>2, <1>3, AccountIsSnapshot
<1>6. /\ e \in Evaluation
      /\ Approved(e) => e.basis = Len(snapshots)
      /\ Approved(e) /\ r.side = "buy" =>
            e.qty * r.price + Cost(e.qty * r.price) <= s.cash - Pct(Policy.reserve, Nav(s))
  BY <1>2, <1>3, <1>4, <1>5, EvaluationIsSound
<1>7. o \in Order /\ o.eval = e /\ o.side = r.side /\ o.price = r.price
  BY <1>2, <1>4, <1>6, OrderWithEvaluation
<1>8. KeepsReserve(o, snapshots)
  <2>1. s = snapshots[Len(snapshots)]
    BY <1>2 DEF account
  <2> QED
    BY <1>5, <1>6, <1>7, <2>1 DEF KeepsReserve
<1>9. orders' = [orders EXCEPT ![i] = o]
  BY <1>1, <1>2
<1>10. now' \in 0..MaxTime /\ market' \in [Assets -> Prices] /\ UNCHANGED <<fills, snapshots>>
  BY <1>3 DEF TypeOK, Evaluate
<1> QED
  BY <1>4, <1>7, <1>8, <1>9, <1>10, OrdersOnly

LEMMA PaperDecline == ASSUME PaperInv, Decline PROVE PaperInv'
<1>1. PICK i \in Awaiting : orders' = [orders EXCEPT ![i] = [@ EXCEPT !.decided = TRUE]]
  BY DEF Decline
<1>2. PICK r, o : r = orders[i] /\ o = [r EXCEPT !.decided = TRUE]
  OBVIOUS
<1>3. i \in 1..Len(orders) /\ r \in Order
  BY <1>2 DEF PaperInv, TypeOK, Awaiting
<1>4. KeepsReserve(r, snapshots)
  BY <1>2, <1>3 DEF PaperInv, Reserves
<1>5. o \in Order /\ KeepsReserve(o, snapshots)
  BY <1>2, <1>3, <1>4, DecidedKeeps
<1>6. orders' = [orders EXCEPT ![i] = o]
  BY <1>1, <1>2
<1>7. now' \in 0..MaxTime /\ market' \in [Assets -> Prices] /\ UNCHANGED <<fills, snapshots>>
  BY DEF PaperInv, TypeOK, Decline
<1> QED
  BY <1>3, <1>5, <1>6, <1>7, OrdersOnly

\* What a fill moves: the price of the quantity and the costs, and the quantity.
LEMMA MoveOfFill ==
    ASSUME NEW row \in FillRow
    PROVE  /\ CashMove(row) \in Int
           /\ CashMove(row) = IF row.side = "buy" THEN -(row.qty * row.price) - row.cost
                              ELSE row.qty * row.price - row.cost
           /\ \A a \in Assets : ShareMove(row, a) \in Int
<1>1. PICK q \in Nat, p \in Nat, c \in Nat, side \in Sides :
          q = row.qty /\ p = row.price /\ c = row.cost /\ side = row.side
  BY LimitsAreNaturals DEF FillRow
<1>2. PICK w \in Nat : w = q * p
  BY ProductIsNatural
<1>3. (-1) * q * p = -w
  <2>1. (-1) * q = -q
    OBVIOUS
  <2>2. (-q) * p = -(q * p)
    OBVIOUS
  <2> QED
    BY <1>2, <2>1, <2>2
<1>4. 1 * q * p = w
  <2>1. 1 * q = q
    OBVIOUS
  <2> QED
    BY <1>2, <2>1
<1>5. CashMove(row) = IF side = "buy" THEN -w - c ELSE w - c
  <2>1. CASE side = "buy"
    <3>1. CashMove(row) = (-1) * q * p - c
      BY <1>1, <2>1 DEF CashMove
    <3> QED
      BY <1>3, <2>1, <3>1
  <2>2. CASE side # "buy"
    <3>1. CashMove(row) = 1 * q * p - c
      BY <1>1, <2>2 DEF CashMove
    <3> QED
      BY <1>4, <2>2, <3>1
  <2> QED
    BY <2>1, <2>2
<1>6. \A a \in Assets : ShareMove(row, a) \in Int
  BY <1>1 DEF ShareMove
<1> QED
  BY <1>1, <1>2, <1>5, <1>6

\* What a fill records, the snapshot it leaves, and the reserve a fresh purchase keeps.
LEMMA FillRecords ==
    ASSUME PaperInv, Fill
    PROVE  \E i \in 1..Len(orders), row \in FillRow, n \in Snapshot :
              /\ row.order = i
              /\ orders' = [orders EXCEPT ![i] = [@ EXCEPT !.decided = TRUE]]
              /\ fills' = Append(fills, row)
              /\ snapshots' = Append(snapshots, n)
              /\ Follows(n, account, row)
              /\ orders[i].side = "buy" /\ market[orders[i].asset] = orders[i].price
                    /\ orders[i].eval.basis = Len(snapshots)
                  => n.cash >= Pct(Policy.reserve, Nav(account))
<1>1. PICK i, known :
          /\ i \in Awaiting /\ known \in SUBSET Assets
          /\ orders[i].eval.action \in {"approved", "resized"}
          /\ Reconciles(account, orders[i], orders[i].eval.qty, market[orders[i].asset])
          /\ orders' = [orders EXCEPT ![i] = [@ EXCEPT !.decided = TRUE]]
          /\ fills' = Append(fills,
                [order |-> i, asset |-> orders[i].asset, side |-> orders[i].side,
                 qty |-> orders[i].eval.qty, price |-> market[orders[i].asset],
                 cost |-> Cost(orders[i].eval.qty * market[orders[i].asset]), at |-> now])
          /\ snapshots' = Append(snapshots,
                ApplyFill(account, orders[i], orders[i].eval.qty, market[orders[i].asset],
                          [a \in known |-> market[a]], orders[i].eval.kill))
  BY DEF Fill
<1>2. PICK o, s, q, p, marks, kill, row, n :
          /\ o = orders[i] /\ s = account /\ q = o.eval.qty /\ p = market[o.asset]
          /\ marks = [a \in known |-> market[a]] /\ kill = o.eval.kill
          /\ row = [order |-> i, asset |-> o.asset, side |-> o.side, qty |-> q, price |-> p,
                    cost |-> Cost(q * p), at |-> now]
          /\ n = ApplyFill(s, o, q, p, marks, kill)
          /\ fills' = Append(fills, row) /\ snapshots' = Append(snapshots, n)
  BY <1>1
<1>3. TypeOK
  BY DEF PaperInv
<1>4. i \in 1..Len(orders) /\ o \in Order /\ now \in 0..MaxTime /\ market \in [Assets -> Prices]
  BY <1>1, <1>2, <1>3 DEF TypeOK, Awaiting
<1>5. s \in Snapshot /\ Len(snapshots) \in 1..Len(snapshots) /\ Len(snapshots) \in Nat
  BY <1>2, <1>3, AccountIsSnapshot
<1>6. /\ o.asset \in Assets /\ o.side \in Sides /\ o.eval \in Evaluation
      /\ p \in Prices /\ p \in Nat /\ i \in Nat
  <2>1. o.asset \in Assets /\ o.side \in Sides /\ o.eval \in Evaluation
    BY <1>4 DEF Order
  <2>2. p \in Prices
    BY <1>2, <1>4, <2>1
  <2>3. Len(orders) \in Nat
    BY <1>3 DEF TypeOK
  <2> QED
    BY <1>4, <2>1, <2>2, <2>3, LimitsAreNaturals
<1>7. q \in Nat /\ kill \in KillState
  BY <1>2, <1>6 DEF Evaluation
<1>8. PICK w \in Nat : w = q * p
  BY <1>6, <1>7, ProductIsNatural
<1>9. Cost(w) \in Nat
  BY CostGrows
<1>10. row \in FillRow
  BY <1>2, <1>4, <1>6, <1>7, <1>8, <1>9 DEF FillRow
<1>11. row.order = i /\ row.asset = o.asset /\ row.side = o.side /\ row.qty = q /\ row.price = p
       /\ row.cost = Cost(w)
  BY <1>2, <1>8
<1>12. Reconciles(s, o, q, p)
  BY <1>1, <1>2
<1>13. /\ n \in Snapshot
       /\ n.cash = CashAfter(s, o.side, q, p)
       /\ n.pos[o.asset].qty = HeldAfter(s, o, q)
       /\ \A a \in Assets : a # o.asset => n.pos[a].qty = s.pos[a].qty
  <2>1. n = ApplyFill(s, o, q, p, marks, kill)
    BY <1>2
  <2>2. marks \in [known -> Prices] /\ now \in 0..MaxTime
    BY <1>1, <1>2, <1>4
  <2>3. o \in Order /\ s \in Snapshot /\ q \in Nat /\ p \in Nat /\ kill \in KillState
    BY <1>4, <1>5, <1>6, <1>7
  <2> QED
    BY <1>12, <2>1, <2>2, <2>3, FillGivesSnapshot
<1>14. s.cash \in Nat /\ \A a \in Assets : s.pos[a].qty \in Nat
  BY <1>5, SnapshotIsNatural
<1>15. n.cash = IF o.side = "buy" THEN s.cash - w - Cost(w) ELSE s.cash + w - Cost(w)
  BY <1>8, <1>13 DEF CashAfter
<1>16. Follows(n, s, row)
  <2>1. n.cash = s.cash + CashMove(row)
    <3>1. CashMove(row) = IF o.side = "buy" THEN -w - Cost(w) ELSE w - Cost(w)
      BY <1>8, <1>10, <1>11, MoveOfFill
    <3> QED
      BY <1>9, <1>14, <1>15, <3>1
  <2>2. ASSUME NEW a \in Assets PROVE n.pos[a].qty = s.pos[a].qty + ShareMove(row, a)
    <3>1. CASE a = o.asset
      BY <1>6, <1>7, <1>11, <1>13, <1>14, <3>1 DEF ShareMove, HeldAfter
    <3>2. CASE a # o.asset
      BY <1>11, <1>13, <1>14, <3>2 DEF ShareMove
    <3> QED
      BY <3>1, <3>2
  <2> QED
    BY <2>1, <2>2 DEF Follows
<1>17. ASSUME o.side = "buy", p = o.price, o.eval.basis = Len(snapshots)
       PROVE  n.cash >= Pct(Policy.reserve, Nav(s))
  <2>1. KeepsReserve(o, snapshots) /\ Approved(o.eval)
    BY <1>1, <1>2, <1>4 DEF PaperInv, Reserves, Approved
  <2>2. s = snapshots[o.eval.basis]
    BY <1>2, <1>17 DEF account
  <2>3. w + Cost(w) <= s.cash - Pct(Policy.reserve, Nav(s))
    BY <1>2, <1>8, <1>17, <2>1, <2>2 DEF KeepsReserve
  <2>4. n.cash = s.cash - w - Cost(w)
    BY <1>15, <1>17
  <2>5. Pct(Policy.reserve, Nav(s)) \in Nat
    BY <1>5, SnapshotIsNatural, LimitsAreNaturals, PctIsNatural
  <2> QED
    BY <1>9, <1>14, <2>3, <2>4, <2>5
<1> QED
  BY <1>1, <1>2, <1>4, <1>10, <1>11, <1>13, <1>16, <1>17

LEMMA PaperFill == ASSUME PaperInv, Fill PROVE PaperInv'
<1>1. PICK i, row, n :
          /\ i \in 1..Len(orders) /\ row \in FillRow /\ n \in Snapshot
          /\ orders' = [orders EXCEPT ![i] = [@ EXCEPT !.decided = TRUE]]
          /\ fills' = Append(fills, row)
          /\ snapshots' = Append(snapshots, n)
          /\ Follows(n, account, row)
  BY FillRecords
<1>2. PICK r, o : r = orders[i] /\ o = [r EXCEPT !.decided = TRUE]
  OBVIOUS
<1>3. PICK os, fs, ss :
          /\ os = orders /\ fs = fills /\ ss = snapshots
          /\ os \in Seq(Order) /\ fs \in Seq(FillRow) /\ ss \in Seq(Snapshot)
          /\ Len(ss) = Len(fs) + 1
  BY DEF PaperInv, TypeOK
<1>4. r \in Order /\ KeepsReserve(r, snapshots)
  BY <1>1, <1>2, <1>3 DEF PaperInv, Reserves
<1>5. o \in Order /\ KeepsReserve(o, snapshots)
  BY <1>2, <1>4, DecidedKeeps
<1>6. /\ orders' \in Seq(Order) /\ Len(orders') = Len(orders)
      /\ orders'[i] = o /\ \A j \in 1..Len(orders) : j # i => orders'[j] = orders[j]
  <2>1. PICK new : new = [os EXCEPT ![i] = o]
    OBVIOUS
  <2>2. i \in 1..Len(os) /\ os \in Seq(Order) /\ o \in Order
    BY <1>1, <1>3, <1>5
  <2>3. /\ new \in Seq(Order) /\ Len(new) = Len(os)
        /\ new[i] = o /\ \A j \in 1..Len(os) : j # i => new[j] = os[j]
    BY <2>1, <2>2, ElementReplaced
  <2>4. orders' = new
    BY <1>1, <1>2, <1>3, <2>1
  <2> QED
    BY <1>3, <2>3, <2>4
<1>7. /\ fills' \in Seq(FillRow) /\ Len(fills') = Len(fills) + 1 /\ Len(fills) \in Nat
      /\ fills'[Len(fills) + 1] = row
      /\ \A k \in 1..Len(fills) : fills'[k] = fills[k]
  <2>1. /\ Append(fs, row) \in Seq(FillRow) /\ Len(Append(fs, row)) = Len(fs) + 1 /\ Len(fs) \in Nat
        /\ Append(fs, row)[Len(fs) + 1] = row
        /\ \A k \in 1..Len(fs) : Append(fs, row)[k] = fs[k]
    BY <1>1, <1>3
  <2> QED
    BY <1>1, <1>3, <2>1
<1>8. /\ snapshots' \in Seq(Snapshot) /\ Len(snapshots') = Len(snapshots) + 1
      /\ Len(snapshots) = Len(fills) + 1
      /\ snapshots'[Len(snapshots) + 1] = n
      /\ \A k \in 1..Len(snapshots) : snapshots'[k] = snapshots[k]
  <2>1. /\ Append(ss, n) \in Seq(Snapshot) /\ Len(Append(ss, n)) = Len(ss) + 1
        /\ Append(ss, n)[Len(ss) + 1] = n
        /\ \A k \in 1..Len(ss) : Append(ss, n)[k] = ss[k]
    BY <1>1, <1>3
  <2> QED
    BY <1>1, <1>3, <2>1
<1>9. TypeOK'
  <2>1. now' = now /\ market' = market
    BY DEF Fill
  <2> QED
    BY <1>6, <1>7, <1>8, <2>1 DEF PaperInv, TypeOK
<1>10. LedgerSteps'
  <2>1. LedgerSteps
    BY DEF PaperInv
  <2>2. 1 \in 1..Len(snapshots) /\ snapshots'[1] = snapshots[1]
    BY <1>7, <1>8
  <2>3. ASSUME NEW k \in 1..Len(fills') PROVE Follows(snapshots'[k + 1], snapshots'[k], fills'[k])
    <3>1. CASE k = Len(fills) + 1
      <4>1. snapshots'[k + 1] = n /\ snapshots'[k] = account /\ fills'[k] = row
        BY <1>7, <1>8, <3>1 DEF account
      <4> QED
        BY <1>1, <4>1
    <3>2. CASE k # Len(fills) + 1
      <4>1. k \in 1..Len(fills) /\ k \in 1..Len(snapshots) /\ k + 1 \in 1..Len(snapshots)
        BY <1>7, <1>8, <2>3, <3>2
      <4>2. snapshots'[k + 1] = snapshots[k + 1] /\ snapshots'[k] = snapshots[k] /\ fills'[k] = fills[k]
        BY <1>7, <1>8, <4>1
      <4> QED
        BY <2>1, <4>1, <4>2 DEF LedgerSteps
    <3> QED
      BY <3>1, <3>2
  <2> QED
    BY <2>1, <2>2, <2>3 DEF LedgerSteps
<1>11. Reserves'
  <2>1. ASSUME NEW x, KeepsReserve(x, snapshots) PROVE KeepsReserve(x, snapshots')
    <3>1. ASSUME Approved(x.eval)
          PROVE  /\ x.eval.basis \in 1..Len(snapshots) /\ x.eval.basis \in 1..Len(snapshots')
                 /\ snapshots'[x.eval.basis] = snapshots[x.eval.basis]
      BY <1>7, <1>8, <2>1, <3>1 DEF KeepsReserve
    <3> QED
      BY <2>1, <3>1 DEF KeepsReserve
  <2>2. ASSUME NEW j \in 1..Len(orders') PROVE KeepsReserve(orders'[j], snapshots)
    BY <1>1, <1>5, <1>6, <2>2 DEF PaperInv, Reserves
  <2> QED
    BY <2>1, <2>2 DEF Reserves
<1> QED
  BY <1>9, <1>10, <1>11 DEF PaperInv

\* The clock and the market leave the account alone.
LEMMA PaperClock == ASSUME PaperInv, Tick \/ MarketMoves \/ UNCHANGED vars PROVE PaperInv'
<1>1. UNCHANGED <<orders, fills, snapshots>>
  BY DEF Tick, MarketMoves, vars
<1>2. now' \in 0..MaxTime
  BY PaperAssumption DEF PaperInv, TypeOK, Tick, MarketMoves, vars
<1>3. market' \in [Assets -> Prices]
  <2>1. CASE MarketMoves
    <3>1. PICK a \in Assets, p \in Prices : market' = [market EXCEPT ![a] = p]
      BY <2>1 DEF MarketMoves
    <3> QED
      BY <3>1 DEF PaperInv, TypeOK
  <2>2. CASE Tick \/ UNCHANGED vars
    BY <2>2 DEF PaperInv, TypeOK, Tick, vars
  <2> QED
    BY <2>1, <2>2
<1> QED
  BY <1>1, <1>2, <1>3 DEF PaperInv, TypeOK, LedgerSteps, Reserves

\* The account is a ledger of its fills, and approved purchases leave the reserve.
THEOREM PaperInductive == Spec => []PaperInv
<1>1. Init => PaperInv
  BY InitPaperInv
<1>2. PaperInv /\ [Next]_vars => PaperInv'
  BY PaperPropose, PaperEvaluate, PaperDecline, PaperFill, PaperClock DEF Next
<1> QED
  BY <1>1, <1>2, PTL DEF Spec

\* Orders, evaluations, fills and snapshots keep their types, and there is one snapshot
\* more than fills: no fill leaves a negative cash balance, a short position or a
\* negative market value.
THEOREM AccountsAreTyped == Spec => []TypeOK
<1>1. PaperInv => TypeOK
  BY DEF PaperInv
<1> QED
  BY <1>1, PaperInductive, PTL

\* A purchase that is filled on the snapshot and at the price it was evaluated at leaves
\* the cash reserve, its costs included.
THEOREM FreshPurchasesKeepTheReserve == Spec => FreshPurchaseKeepsReserve
<1>1. PaperInv /\ [Next]_vars =>
        [\A i \in DOMAIN orders :
            FreshFill(i) /\ orders[i].side = "buy" /\ market[orders[i].asset] = orders[i].price
               => account'.cash >= Pct(Policy.reserve, Nav(account))]_vars
  <2> SUFFICES ASSUME PaperInv, Next, NEW j \in DOMAIN orders, FreshFill(j),
                      orders[j].side = "buy", market[orders[j].asset] = orders[j].price
               PROVE  account'.cash >= Pct(Policy.reserve, Nav(account))
    OBVIOUS
  <2>1. TypeOK /\ Len(fills) \in Nat
    BY DEF PaperInv, TypeOK
  <2>2. Fill
    <3>1. ~UNCHANGED fills
      BY <2>1 DEF FreshFill
    <3> QED
      BY <3>1 DEF Next, Tick, MarketMoves, Propose, Evaluate, Decline
  <2>3. PICK i, row, n :
            /\ row.order = i
            /\ fills' = Append(fills, row)
            /\ snapshots' = Append(snapshots, n)
            /\ orders[i].side = "buy" /\ market[orders[i].asset] = orders[i].price
                  /\ orders[i].eval.basis = Len(snapshots)
                => n.cash >= Pct(Policy.reserve, Nav(account))
    BY <2>2, FillRecords
  <2>4. fills'[Len(fills')] = row
    <3>1. fills \in Seq(FillRow)
      BY <2>1 DEF TypeOK
    <3>2. Longer(fills', fills, row)
      BY <2>3, <3>1, AppendFacts
    <3> QED
      BY <3>2 DEF Longer
  <2>5. i = j
    BY <2>3, <2>4 DEF FreshFill
  <2>6. account' = n
    <3>1. snapshots \in Seq(Snapshot)
      BY <2>1 DEF TypeOK
    <3>2. Longer(snapshots', snapshots, n)
      BY <2>3, <3>1, AppendFacts
    <3> QED
      BY <3>2 DEF Longer, account
  <2> QED
    BY <2>3, <2>5, <2>6 DEF FreshFill
<1> QED
  BY <1>1, PaperInductive, PTL DEF Spec, FreshPurchaseKeepsReserve

\* The cash the first fills leave is the running total of what they move.
LEMMA CashIsTotal ==
    ASSUME fills \in Seq(FillRow), NEW k \in 0..Len(fills), NEW c, c[0] = 0,
           \A j \in 1..k : c[j] = c[j - 1] + CashMove(fills[j])
    PROVE  CashOf(k) = InitialCash + c[k]
<1> DEFINE S == 1..k
           v == [i \in S |-> CashMove(fills[i])]
           step(f, s) == IF s = {} THEN 0
                         ELSE LET x == CHOOSE x \in s : TRUE
                              IN  (IF fills[x].side = "buy" THEN -1 ELSE 1)
                                     * fills[x].qty * fills[x].price - fills[x].cost + f[s \ {x}]
           iter == CHOOSE f : f = [s \in SUBSET S |-> step(f, s)]
<1>1. CashOf(k) = InitialCash + iter[1..k]
  BY Zenon DEF CashOf, MapThenSumSet, MapThenFoldSet
<1>2. \A i \in S : CashMove(fills[i]) \in Int
  <2>1. \A i \in S : fills[i] \in FillRow
    OBVIOUS
  <2> HIDE DEF S
  <2> QED
    BY <2>1, MoveOfFill
<1>3. ASSUME NEW f PROVE [s \in SUBSET S |-> step(f, s)] =
                         [s \in SUBSET S |-> IF s = {} THEN 0 ELSE v[Taken(s)] + f[s \ {Taken(s)}]]
  <2>1. ASSUME NEW s \in SUBSET S
        PROVE  step(f, s) = IF s = {} THEN 0 ELSE v[Taken(s)] + f[s \ {Taken(s)}]
    <3>1. CASE s = {}
      BY <3>1
    <3>2. CASE s # {}
      <4>1. PICK x \in S : x = Taken(s)
        BY <3>2 DEF Taken
      <4>2. step(f, s) = CashMove(fills[x]) + f[s \ {x}]
        BY <3>2, <4>1 DEF Taken, CashMove
      <4>3. v[x] = CashMove(fills[x])
        OBVIOUS
      <4> HIDE DEF step, v
      <4> QED
        BY <3>2, <4>1, <4>2, <4>3
    <3> QED
      BY <3>1, <3>2
  <2> HIDE DEF step
  <2> QED
    BY <2>1
<1>4. v \in [1..k -> Int] /\ k \in Nat
  BY <1>2
<1>5. Totals(c, v, k)
  BY <1>4 DEF Totals
<1> HIDE DEF v, step
<1>6. \E f : f = [s \in SUBSET S |-> step(f, s)]
  <2>1. IsFiniteSet(S)
    BY <1>4, FS_Interval
  <2>2. PICK f : Sums(f, v, S)
    BY <1>4, <2>1, SumsExist
  <2>3. f = [s \in SUBSET S |-> IF s = {} THEN 0 ELSE v[Taken(s)] + f[s \ {Taken(s)}]]
    BY <2>2 DEF Sums
  <2>4. [s \in SUBSET S |-> step(f, s)] =
        [s \in SUBSET S |-> IF s = {} THEN 0 ELSE v[Taken(s)] + f[s \ {Taken(s)}]]
    BY <1>3
  <2> QED
    BY <2>3, <2>4
<1>7. iter = [s \in SUBSET S |-> step(iter, s)]
  BY <1>6, Zenon
<1> HIDE DEF iter
<1>8. Sums(iter, v, 1..k)
  BY <1>3, <1>7 DEF Sums
<1>9. iter[1..k] = c[k]
  BY <1>4, <1>5, <1>8, RunningTotal
<1> QED
  BY <1>1, <1>9

\* The shares the first fills leave are the running total of what they move.
LEMMA SharesAreTotal ==
    ASSUME fills \in Seq(FillRow), NEW k \in 0..Len(fills), NEW a \in Assets, NEW c, c[0] = 0,
           \A j \in 1..k : c[j] = c[j - 1] + ShareMove(fills[j], a)
    PROVE  SharesOf(a, k) = c[k]
<1> DEFINE S == 1..k
           v == [i \in S |-> ShareMove(fills[i], a)]
           step(f, s) == IF s = {} THEN 0
                         ELSE LET x == CHOOSE x \in s : TRUE
                              IN  (IF fills[x].asset # a THEN 0
                                   ELSE IF fills[x].side = "buy" THEN fills[x].qty
                                   ELSE -fills[x].qty) + f[s \ {x}]
           iter == CHOOSE f : f = [s \in SUBSET S |-> step(f, s)]
<1>1. SharesOf(a, k) = iter[1..k]
  BY Zenon DEF SharesOf, MapThenSumSet, MapThenFoldSet
<1>2. \A i \in S : ShareMove(fills[i], a) \in Int
  <2>1. \A i \in S : fills[i] \in FillRow
    OBVIOUS
  <2> HIDE DEF S
  <2> QED
    BY <2>1, MoveOfFill
<1>3. ASSUME NEW f PROVE [s \in SUBSET S |-> step(f, s)] =
                         [s \in SUBSET S |-> IF s = {} THEN 0 ELSE v[Taken(s)] + f[s \ {Taken(s)}]]
  <2>1. ASSUME NEW s \in SUBSET S
        PROVE  step(f, s) = IF s = {} THEN 0 ELSE v[Taken(s)] + f[s \ {Taken(s)}]
    <3>1. CASE s = {}
      BY <3>1
    <3>2. CASE s # {}
      <4>1. PICK x \in S : x = Taken(s)
        BY <3>2 DEF Taken
      <4>2. step(f, s) = ShareMove(fills[x], a) + f[s \ {x}]
        BY <3>2, <4>1 DEF Taken, ShareMove
      <4>3. v[x] = ShareMove(fills[x], a)
        OBVIOUS
      <4> HIDE DEF step, v
      <4> QED
        BY <3>2, <4>1, <4>2, <4>3
    <3> QED
      BY <3>1, <3>2
  <2> HIDE DEF step
  <2> QED
    BY <2>1
<1>4. v \in [1..k -> Int] /\ k \in Nat
  BY <1>2
<1>5. Totals(c, v, k)
  BY <1>4 DEF Totals
<1> HIDE DEF v, step
<1>6. \E f : f = [s \in SUBSET S |-> step(f, s)]
  <2>1. IsFiniteSet(S)
    BY <1>4, FS_Interval
  <2>2. PICK f : Sums(f, v, S)
    BY <1>4, <2>1, SumsExist
  <2>3. f = [s \in SUBSET S |-> IF s = {} THEN 0 ELSE v[Taken(s)] + f[s \ {Taken(s)}]]
    BY <2>2 DEF Sums
  <2>4. [s \in SUBSET S |-> step(f, s)] =
        [s \in SUBSET S |-> IF s = {} THEN 0 ELSE v[Taken(s)] + f[s \ {Taken(s)}]]
    BY <1>3
  <2> QED
    BY <2>3, <2>4
<1>7. iter = [s \in SUBSET S |-> step(iter, s)]
  BY <1>6, Zenon
<1> HIDE DEF iter
<1>8. Sums(iter, v, 1..k)
  BY <1>3, <1>7 DEF Sums
<1>9. iter[1..k] = c[k]
  BY <1>4, <1>5, <1>8, RunningTotal
<1> QED
  BY <1>1, <1>9

\* Replaying the recorded fills gives the cash and the holdings of every recorded
\* snapshot, whichever evaluations were stale when they were filled.
THEOREM LedgersAlwaysReconcile == Spec => []LedgerReconciles
<1>1. PaperInv => LedgerReconciles
  <2> SUFFICES ASSUME PaperInv, NEW k \in 0..Len(fills)
               PROVE  /\ snapshots[k + 1].cash = CashOf(k)
                      /\ \A a \in Assets : snapshots[k + 1].pos[a].qty = SharesOf(a, k)
    BY DEF LedgerReconciles
  <2>1. fills \in Seq(FillRow) /\ Len(fills) \in Nat
    BY DEF PaperInv, TypeOK
  <2>2. /\ snapshots[1].cash = InitialCash /\ \A a \in Assets : snapshots[1].pos[a].qty = 0
        /\ \A j \in 1..Len(fills) : Follows(snapshots[j + 1], snapshots[j], fills[j])
    BY DEF PaperInv, LedgerSteps
  <2>3. \A j \in 1..Len(snapshots) :
            snapshots[j].cash \in Nat /\ \A a \in Assets : snapshots[j].pos[a].qty \in Nat
    <3>1. \A j \in 1..Len(snapshots) : snapshots[j] \in Snapshot
      BY DEF PaperInv, TypeOK
    <3> QED
      BY <3>1, SnapshotIsNatural
  <2>4. Len(snapshots) = Len(fills) + 1
    BY DEF PaperInv, TypeOK
  <2>5. \A j \in 1..Len(fills) : /\ CashMove(fills[j]) \in Int
                                 /\ \A a \in Assets : ShareMove(fills[j], a) \in Int
    <3>1. \A j \in 1..Len(fills) : fills[j] \in FillRow
      BY <2>1
    <3> QED
      BY <3>1, MoveOfFill
  <2>6. snapshots[k + 1].cash = CashOf(k)
    <3> DEFINE c == [j \in 0..k |-> snapshots[j + 1].cash - InitialCash]
    <3>1. InitialCash \in Nat
      BY PaperAssumption
    <3>2. c[0] = 0
      BY <2>1, <2>2, <3>1
    <3>3. ASSUME NEW j \in 1..k PROVE c[j] = c[j - 1] + CashMove(fills[j])
      <4>1. j \in 1..Len(fills) /\ j \in 0..k /\ j - 1 \in 0..k /\ (j - 1) + 1 = j
        BY <2>1
      <4>2. c[j] = snapshots[j + 1].cash - InitialCash /\ c[j - 1] = snapshots[j].cash - InitialCash
        BY <4>1
      <4>3. snapshots[j + 1].cash = snapshots[j].cash + CashMove(fills[j])
        BY <2>2, <4>1 DEF Follows
      <4>4. snapshots[j].cash \in Nat /\ CashMove(fills[j]) \in Int
        BY <2>3, <2>4, <2>5, <4>1
      <4> HIDE DEF c
      <4> QED
        BY <3>1, <4>2, <4>3, <4>4
    <3>4. c[k] = snapshots[k + 1].cash - InitialCash /\ snapshots[k + 1].cash \in Nat
      BY <2>1, <2>3, <2>4
    <3> HIDE DEF c
    <3>5. CashOf(k) = InitialCash + c[k]
      BY <2>1, <3>2, <3>3, CashIsTotal
    <3> QED
      BY <3>1, <3>4, <3>5
  <2>7. ASSUME NEW a \in Assets PROVE snapshots[k + 1].pos[a].qty = SharesOf(a, k)
    <3> DEFINE c == [j \in 0..k |-> snapshots[j + 1].pos[a].qty]
    <3>1. c[0] = 0
      BY <2>1, <2>2
    <3>2. ASSUME NEW j \in 1..k PROVE c[j] = c[j - 1] + ShareMove(fills[j], a)
      <4>1. j \in 1..Len(fills) /\ j \in 0..k /\ j - 1 \in 0..k /\ (j - 1) + 1 = j
        BY <2>1
      <4>2. c[j] = snapshots[j + 1].pos[a].qty /\ c[j - 1] = snapshots[j].pos[a].qty
        BY <4>1
      <4>3. snapshots[j + 1].pos[a].qty = snapshots[j].pos[a].qty + ShareMove(fills[j], a)
        BY <2>2, <4>1 DEF Follows
      <4> HIDE DEF c
      <4> QED
        BY <4>2, <4>3
    <3>3. c[k] = snapshots[k + 1].pos[a].qty
      BY <2>1
    <3> HIDE DEF c
    <3>4. SharesOf(a, k) = c[k]
      BY <2>1, <3>1, <3>2, SharesAreTotal
    <3> QED
      BY <3>3, <3>4
  <2> QED
    BY <2>6, <2>7
<1> QED
  BY <1>1, PaperInductive, PTL

=============================================================================
