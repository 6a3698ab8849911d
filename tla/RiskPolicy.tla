----------------------------- MODULE RiskPolicy -----------------------------
(***************************************************************************)
(* core/risk.py, the ordered rules of RiskManager._approve_locked as       *)
(* operators: what one order gets from one portfolio snapshot.             *)
(*                                                                         *)
(* Decimals are integers.  The fractions of the code are compared after    *)
(* multiplying by the denominator.  A value the code refuses as missing,   *)
(* not finite or out of range is 0 here, also a limit missing from the     *)
(* configuration and a quote missing from the snapshot.                    *)
(***************************************************************************)
EXTENDS Integers, Sequences, FiniteSetsExt

CONSTANTS
  PositionCap,     \* per instrument, absolute quantity; 0 when not configured
  StrategyCap,     \* per strategy, notional
  VenueCap,        \* per venue, notional
  NotionalPercent, \* max_order_notional_fraction, in percent
  StaleAfter       \* staleness threshold of the asset class

ASSUME LimitsAssumption ==
  {PositionCap, StrategyCap, VenueCap, NotionalPercent, StaleAfter} \subseteq Nat

RiskOrder(Ids) ==
  [id: Ids, side: {"BUY", "SELL"}, quantity: Int, price: Int, exit: BOOLEAN]

PortfolioSnapshot ==
  [equity: Int, dayStart: Int, weekStart: Int, peak: Int, position: Int,
   strategyUsed: Int, venueUsed: Int, price: Int, age: Int]

Magnitude(n) == IF n < 0 THEN -n ELSE n

Signed(order) == IF order.side = "BUY" THEN order.quantity ELSE -order.quantity

Projected(order, snap) == snap.position + Signed(order)

Notional(order) == order.quantity * order.price

NumericInputsValid(order, snap) ==
  \A value \in {order.quantity, order.price, snap.equity, snap.dayStart,
                snap.weekStart, snap.peak, snap.price, NotionalPercent} : value > 0

\* The position gets smaller and keeps its sign.
RiskReducing(order, snap) ==
  LET projected == Projected(order, snap) IN
  /\ snap.position # 0
  /\ Magnitude(projected) < Magnitude(snap.position)
  /\ \/ projected = 0
     \/ snap.position > 0 /\ projected > 0
     \/ snap.position < 0 /\ projected < 0

\* value - base is a loss of at least percent of the base.
LostAtLeast(percent, value, base) == (value - base) * 100 <= -percent * base

Drawdown(snap) == LostAtLeast(15, snap.equity, snap.peak)

-----------------------------------------------------------------------------
(* The rules in the order the code applies them, named as in RiskReason but  *)
(* for MISSING_RISK_LIMIT and STALE_DATA, which several rules share.         *)

\* Mutant: the halts are forgotten.
MutRuleOrder ==
  <<"execution_mode_gate", "invalid_numeric_input", "invalid_exit",
    "position_limit", "position_cap", "strategy_limit", "strategy_allocation_cap",
    "venue_limit", "venue_capital_cap",
    "order_notional_vs_equity", "price_deviation", "duplicate_order",
    "stale_limit", "negative_age", "stale_data">>

RuleOrder ==
  <<"execution_mode_gate", "invalid_numeric_input", "invalid_exit",
    "position_limit", "position_cap", "strategy_limit", "strategy_allocation_cap",
    "venue_limit", "venue_capital_cap",
    "daily_loss_halt", "weekly_loss_halt", "hwm_kill_switch",
    "order_notional_vs_equity", "price_deviation", "duplicate_order",
    "stale_limit", "negative_age", "stale_data">>

\* The kill switch is looked at after this many rules have passed.
RulesBeforeSwitch == 9

\* Whether an order breaks a rule; gateShut and known are what the manager
\* says of the LIVE gate and of the ids it approved before.
Breaks(rule, order, snap, gateShut, known) ==
  LET free == RiskReducing(order, snap)
  IN CASE rule = "execution_mode_gate"   -> gateShut
       [] rule = "invalid_numeric_input" -> ~NumericInputsValid(order, snap)
       [] rule = "invalid_exit"     -> order.exit /\ ~free
       [] rule = "position_limit"   -> ~free /\ PositionCap = 0
       [] rule = "position_cap"     -> ~free /\ Magnitude(Projected(order, snap)) > PositionCap
       [] rule = "strategy_limit"   -> ~free /\ (StrategyCap = 0 \/ snap.strategyUsed < 0)
       [] rule = "strategy_allocation_cap" ->
            ~free /\ snap.strategyUsed + Notional(order) > StrategyCap
       [] rule = "venue_limit"      -> ~free /\ (VenueCap = 0 \/ snap.venueUsed < 0)
       [] rule = "venue_capital_cap" -> ~free /\ snap.venueUsed + Notional(order) > VenueCap
       [] rule = "daily_loss_halt"  -> ~free /\ LostAtLeast(2, snap.equity, snap.dayStart)
       [] rule = "weekly_loss_halt" -> ~free /\ LostAtLeast(5, snap.equity, snap.weekStart)
       [] rule = "hwm_kill_switch"  -> ~free /\ Drawdown(snap)
       [] rule = "order_notional_vs_equity" ->
            ~free /\ Notional(order) * 100 > snap.equity * NotionalPercent
       [] rule = "price_deviation"  ->
            Magnitude(order.price - snap.price) * 100 > 2 * snap.price
       [] rule = "duplicate_order"  -> order.id \in known
       [] rule = "stale_limit"      -> StaleAfter = 0
       [] rule = "negative_age"     -> snap.age < 0
       [] rule = "stale_data"       -> ~order.exit /\ snap.age >= StaleAfter

\* The rules among the first n that the order breaks.
Broken(n, order, snap, gateShut, known) ==
  {i \in 1..n : Breaks(RuleOrder[i], order, snap, gateShut, known)}

\* What approve() returns: the first rule the order breaks, if there is one.
Verdict(order, snap, gateShut, known) ==
  LET broken == Broken(Len(RuleOrder), order, snap, gateShut, known)
  IN IF broken = {} THEN "approved" ELSE RuleOrder[Min(broken)]

\* Whether approve() gets as far as the kill switch, and finds it tripped.
TripsSwitch(order, snap, gateShut, known) ==
  /\ Broken(RulesBeforeSwitch, order, snap, gateShut, known) = {}
  /\ Drawdown(snap)

-----------------------------------------------------------------------------
(* What the README's table promises, in no order.                          *)

WithinExposure(order, snap) ==
  /\ Magnitude(Projected(order, snap)) \in 0..PositionCap
  /\ snap.strategyUsed >= 0 /\ snap.strategyUsed + Notional(order) <= StrategyCap
  /\ snap.venueUsed >= 0 /\ snap.venueUsed + Notional(order) <= VenueCap
  /\ Notional(order) * 100 <= snap.equity * NotionalPercent

NoHalt(snap) ==
  /\ (snap.dayStart - snap.equity) * 50 < snap.dayStart
  /\ (snap.weekStart - snap.equity) * 20 < snap.weekStart
  /\ (snap.peak - snap.equity) * 20 < 3 * snap.peak

FairPrice(order, snap) ==
  98 * snap.price <= 100 * order.price /\ 100 * order.price <= 102 * snap.price

\* Moving the position towards zero and not beyond it.
Shrinks(order, snap) ==
  \/ order.side = "SELL" /\ 0 < order.quantity /\ order.quantity <= snap.position
  \/ order.side = "BUY" /\ 0 < order.quantity /\ order.quantity <= -snap.position

Admissible(order, snap) ==
  /\ NumericInputsValid(order, snap)
  /\ FairPrice(order, snap)
  /\ snap.age >= 0 /\ StaleAfter > 0
  /\ order.exit \/ snap.age < StaleAfter
  /\ Shrinks(order, snap) \/ (~order.exit /\ WithinExposure(order, snap) /\ NoHalt(snap))
=============================================================================
