------------------------- MODULE RiskManagerProofs -------------------------
(***************************************************************************)
(* The kill switch holds for every set of orders, snapshots and limits:    *)
(* proofs about RiskManager.                                               *)
(***************************************************************************)
EXTENDS RiskManager, WellFoundedInduction, TLAPS

-----------------------------------------------------------------------------
(* The policy.                                                             *)

\* A nonempty set of naturals holds its minimum.
LEMMA MinInSet ==
  ASSUME NEW S \in SUBSET Nat, S # {}
  PROVE  Min(S) \in S
<1>1. PICK x \in S : \A y \in S : ~ (<<y, x>> \in OpToRel(<, Nat))
  BY NatLessThanWellFounded, WFMin
<1>2. ASSUME NEW y \in S PROVE x <= y
  <2>1. <<y, x>> \in Nat \X Nat /\ <<y, x>>[1] = y /\ <<y, x>>[2] = x
    OBVIOUS
  <2>2. ~ (<<y, x>>[1] < <<y, x>>[2])
    BY <1>1, <2>1, Zenon DEF OpToRel
  <2> QED
    BY <2>1, <2>2
<1> QED
  BY <1>2 DEF Min

\* A verdict is one of the reasons, and never "none".
LEMMA VerdictType ==
  ASSUME NEW order, NEW snap, NEW gateShut, NEW ids
  PROVE  /\ Verdict(order, snap, gateShut, ids) \in Reasons
         /\ Verdict(order, snap, gateShut, ids) # "none"
<1> DEFINE broken == Broken(Len(RuleOrder), order, snap, gateShut, ids)
<1>1. broken \in SUBSET Nat /\ broken \subseteq 1..Len(RuleOrder)
  BY DEF Broken, RuleOrder
<1>2. \A i \in 1..Len(RuleOrder) : RuleOrder[i] # "none"
  BY DEF RuleOrder
<1>3. CASE broken = {}
  BY <1>3 DEF Verdict, Reasons
<1>4. CASE broken # {}
  <2>1. Min(broken) \in 1..Len(RuleOrder)
    BY <1>1, <1>4, MinInSet
  <2>2. Verdict(order, snap, gateShut, ids) = RuleOrder[Min(broken)]
    BY <1>4 DEF Verdict
  <2> HIDE DEF broken
  <2> QED
    BY <2>1, <2>2, <1>2 DEF Reasons
<1> QED
  BY <1>3, <1>4

\* An approved order breaks no rule.
LEMMA ApprovedBreaksNothing ==
  ASSUME NEW order, NEW snap, NEW gateShut, NEW ids,
         Verdict(order, snap, gateShut, ids) = "approved",
         NEW i \in 1..Len(RuleOrder)
  PROVE  ~Breaks(RuleOrder[i], order, snap, gateShut, ids)
<1> DEFINE broken == Broken(Len(RuleOrder), order, snap, gateShut, ids)
<1>1. broken \in SUBSET Nat /\ broken \subseteq 1..Len(RuleOrder)
  BY DEF Broken, RuleOrder
<1>2. \A j \in 1..Len(RuleOrder) : RuleOrder[j] # "approved"
  BY DEF RuleOrder
<1>3. broken = {}
  <2> SUFFICES ASSUME broken # {} PROVE FALSE
    OBVIOUS
  <2>1. Min(broken) \in 1..Len(RuleOrder)
    BY <1>1, MinInSet
  <2>2. RuleOrder[Min(broken)] = "approved"
    BY DEF Verdict
  <2> HIDE DEF broken
  <2> QED
    BY <2>1, <2>2, <1>2
<1> QED
  BY <1>3 DEF Broken

\* The rules this development reasons about, by name.
LEMMA ApprovedPassesTheGateAndTheSwitch ==
  ASSUME NEW order, NEW snap, NEW gateShut, NEW ids,
         Verdict(order, snap, gateShut, ids) = "approved"
  PROVE  /\ ~gateShut
         /\ NumericInputsValid(order, snap)
         /\ order.exit => RiskReducing(order, snap)
         /\ Drawdown(snap) => RiskReducing(order, snap)
<1>1. ~Breaks("execution_mode_gate", order, snap, gateShut, ids)
  BY ApprovedBreaksNothing, RuleOrder[1] = "execution_mode_gate", 1 \in 1..Len(RuleOrder)
     DEF RuleOrder
<1>2. ~Breaks("invalid_numeric_input", order, snap, gateShut, ids)
  BY ApprovedBreaksNothing, RuleOrder[2] = "invalid_numeric_input", 2 \in 1..Len(RuleOrder)
     DEF RuleOrder
<1>3. ~Breaks("invalid_exit", order, snap, gateShut, ids)
  BY ApprovedBreaksNothing, RuleOrder[3] = "invalid_exit", 3 \in 1..Len(RuleOrder) DEF RuleOrder
<1>4. ~Breaks("hwm_kill_switch", order, snap, gateShut, ids)
  BY ApprovedBreaksNothing, RuleOrder[12] = "hwm_kill_switch", 12 \in 1..Len(RuleOrder)
     DEF RuleOrder
<1> QED
  BY <1>1, <1>2, <1>3, <1>4 DEF Breaks

\* The code's test for a smaller position is the signed comparison it means.
LEMMA ReducingShrinks ==
  ASSUME NEW order \in RiskOrder(Ids), NEW snap \in PortfolioSnapshot,
         NumericInputsValid(order, snap), RiskReducing(order, snap)
  PROVE  Shrinks(order, snap)
<1>1. order.quantity \in Int /\ snap.position \in Int /\ order.side \in {"BUY", "SELL"}
  BY DEF RiskOrder, PortfolioSnapshot
<1>2. order.quantity > 0
  BY DEF NumericInputsValid
<1> QED
  BY <1>1, <1>2 DEF RiskReducing, Projected, Signed, Magnitude, Shrinks
-----------------------------------------------------------------------------
(* The manager.                                                            *)

\* The manager begins with the switch not thrown.
LEMMA InitKill == Init => KillInv
<1> SUFFICES ASSUME Init PROVE KillInv
  OBVIOUS
<1> USE DEF Init
<1>1. liveEnabled \in BOOLEAN /\ edits \in 0..MaxEdits /\ reason \in Reasons
  BY RequestsAssumption DEF Reasons
<1>2. TypeOK
  BY <1>1 DEF TypeOK
<1>3. TripRemembered /\ KillHolds
  BY DEF TripRemembered, KillHolds
<1> QED
  BY <1>2, <1>3 DEF KillInv

\* How a call ends, with the verdict for an order and a snapshot.
LEMMA SettleType ==
  ASSUME TypeOK, NEW order \in Orders, NEW snap \in Snapshots,
         NEW gateShut,
         Settle(order, snap, Verdict(order, snap, gateShut, known))
  PROVE  /\ request' = [order |-> order, snap |-> snap]
         /\ request' \in Request /\ request' # None
         /\ reason' \in Reasons /\ reason' # "none"
         /\ known' \subseteq Ids
         /\ step' \in {"ready", "vetoing"}
         /\ reason' = "approved" => step' = "ready"
<1>1. order.id \in Ids
  BY RequestsAssumption DEF RiskOrder
<1>2. [order |-> order, snap |-> snap] \in Request
  BY DEF Request
<1> QED
  BY <1>1, <1>2, VerdictType, NoneAssumption DEF Settle, TypeOK

\* A decision that throws no switch keeps the invariant.
LEMMA ApproveKill ==
  ASSUME KillInv, NEW order \in Orders, NEW snap \in Snapshots, Approve(order, snap)
  PROVE  KillInv'
<1> USE DEF KillInv
<1> DEFINE verdict == Verdict(order, snap, GateShut(order), known)
<1>1. Settle(order, snap, verdict)
  BY DEF Approve
<1>2. /\ request' = [order |-> order, snap |-> snap]
      /\ request' \in Request /\ request' # None
      /\ reason' \in Reasons /\ reason' # "none"
      /\ known' \subseteq Ids
      /\ step' \in {"ready", "vetoing"}
      /\ reason' = "approved" => step' = "ready"
  BY <1>1, SettleType
<1>3. TypeOK'
  BY <1>2 DEF TypeOK, Approve
<1>4. TripRemembered'
  BY <1>2 DEF TripRemembered, Approve
<1>5. KillHolds'
  <2> SUFFICES ASSUME Live, tripped', reason' = "approved"
               PROVE  Shrinks(order, snap)
    BY <1>2 DEF KillHolds
  <2>1. verdict = "approved"
    BY <1>1 DEF Settle
  <2>2. /\ ~GateShut(order)
        /\ NumericInputsValid(order, snap)
        /\ order.exit => RiskReducing(order, snap)
    BY <2>1, ApprovedPassesTheGateAndTheSwitch
  <2>3. killed \/ ~liveEnabled
    BY DEF TripRemembered, Approve
  <2>4. order.exit
    BY <2>2, <2>3 DEF GateShut, LivePermitted
  <2> QED
    BY <2>2, <2>4, ReducingShrinks, RequestsAssumption
<1> QED
  BY <1>3, <1>4, <1>5

\* So does the first step of one that throws it.
LEMMA ApproveTripsKill ==
  ASSUME KillInv, NEW order \in Orders, NEW snap \in Snapshots, ApproveTrips(order, snap)
  PROVE  KillInv'
<1> USE DEF KillInv
<1>1. request' \in Request /\ request' # None /\ Drawdown(request'.snap)
  BY NoneAssumption DEF ApproveTrips, TripsSwitch, Request
<1>2. TypeOK'
  BY <1>1 DEF TypeOK, ApproveTrips, Reasons
<1>3. TripRemembered'
  BY <1>1 DEF TripRemembered, ApproveTrips
<1>4. KillHolds'
  BY DEF KillHolds, ApproveTrips
<1> QED
  BY <1>2, <1>3, <1>4

\* And the last: the switch is latched and the order is decided.
LEMMA LatchKill ==
  ASSUME KillInv, Latch
  PROVE  KillInv'
<1> USE DEF KillInv
<1> DEFINE verdict == Verdict(request.order, request.snap, FALSE, known)
<1>1. /\ request \in Request /\ request.order \in Orders /\ request.snap \in Snapshots
      /\ Drawdown(request.snap)
  BY DEF TypeOK, TripRemembered, Latch, Request
<1>2. Settle(request.order, request.snap, verdict)
  BY DEF Latch
<1>3. /\ request' = [order |-> request.order, snap |-> request.snap]
      /\ request' \in Request /\ request' # None
      /\ reason' \in Reasons /\ reason' # "none"
      /\ known' \subseteq Ids
      /\ step' \in {"ready", "vetoing"}
      /\ reason' = "approved" => step' = "ready"
  BY <1>1, <1>2, SettleType
<1>4. TypeOK'
  BY <1>3 DEF TypeOK, Latch
<1>5. TripRemembered'
  BY <1>3 DEF TripRemembered, Latch
<1>6. KillHolds'
  <2> SUFFICES ASSUME reason' = "approved"
               PROVE  Shrinks(request.order, request.snap)
    BY <1>3 DEF KillHolds
  <2>1. verdict = "approved"
    BY <1>2 DEF Settle
  <2>2. /\ NumericInputsValid(request.order, request.snap)
        /\ RiskReducing(request.order, request.snap)
    BY <1>1, <2>1, ApprovedPassesTheGateAndTheSwitch
  <2> QED
    BY <1>1, <2>2, ReducingShrinks, RequestsAssumption
<1> QED
  BY <1>4, <1>5, <1>6

\* The steps that give no verdict.
LEMMA OtherKill ==
  ASSUME KillInv,
         \/ RewriteDocument \/ RewriteFails \/ JournalVeto \/ TouchArmFile
         \/ \E content \in {"enabled", "disabled", "broken"} : EditDocument(content)
         \/ Crash \/ Restart
         \/ UNCHANGED vars
  PROVE  KillInv'
<1> USE DEF KillInv
<1>1. CASE RewriteDocument
  BY <1>1 DEF RewriteDocument, TypeOK, TripRemembered, KillHolds
<1>2. CASE RewriteFails
  BY <1>2 DEF RewriteFails, TypeOK, TripRemembered, KillHolds
<1>3. CASE JournalVeto
  <2>1. reason' = reason /\ reason # "approved"
    BY <1>3 DEF JournalVeto, TripRemembered
  <2> QED
    BY <1>3, <2>1 DEF JournalVeto, TypeOK, TripRemembered, KillHolds
<1>4. CASE TouchArmFile
  BY <1>4 DEF TouchArmFile, TypeOK, TripRemembered, KillHolds
<1>5. CASE \E content \in {"enabled", "disabled", "broken"} : EditDocument(content)
  BY <1>5, RequestsAssumption DEF EditDocument, TypeOK, TripRemembered, KillHolds
<1>6. CASE Crash
  BY <1>6 DEF Crash, TypeOK, TripRemembered, KillHolds, Reasons
<1>7. CASE Restart
  <2>1. /\ liveEnabled' \in BOOLEAN /\ tripped' \in BOOLEAN
        /\ tripped' => tripped /\ ~liveEnabled'
    BY <1>7, Zenon DEF Restart, TypeOK, TripRemembered
  <2>2. reason # "approved"
    BY <1>7 DEF Restart, TripRemembered
  <2> QED
    BY <1>7, <2>1, <2>2 DEF Restart, TypeOK, TripRemembered, KillHolds
<1>8. CASE UNCHANGED vars
  BY <1>8 DEF vars, TypeOK, TripRemembered, KillHolds
<1> QED
  BY <1>1, <1>2, <1>3, <1>4, <1>5, <1>6, <1>7, <1>8

\* KillInv is inductive.
THEOREM KillSwitchInvariant == Spec => []KillInv
<1>1. Init => KillInv
  BY InitKill
<1>2. KillInv /\ [Next]_vars => KillInv'
  BY ApproveKill, ApproveTripsKill, LatchKill, OtherKill DEF Next
<1> QED
  BY <1>1, <1>2, PTL DEF Spec

\* After the drawdown rewrote the configuration LIVE approves only what shrinks
\* a position, until a person has enabled it and restarted the process.
THEOREM KillSwitchHolds == Spec => []KillHolds
<1>1. KillInv => KillHolds
  BY DEF KillInv
<1> QED
  BY <1>1, KillSwitchInvariant, PTL

\* The manager keeps the shape of its variables.
THEOREM RiskTypeCorrect == Spec => []TypeOK
<1>1. KillInv => TypeOK
  BY DEF KillInv
<1> QED
  BY <1>1, KillSwitchInvariant, PTL

-----------------------------------------------------------------------------
(* The ordered rules add up to the table.                                  *)

\* RiskReducing and Shrinks agree on valid orders.
LEMMA ShrinkingReduces ==
  ASSUME NEW order \in RiskOrder(Ids), NEW snap \in PortfolioSnapshot,
         NumericInputsValid(order, snap), Shrinks(order, snap)
  PROVE  RiskReducing(order, snap)
<1>1. order.quantity \in Int /\ snap.position \in Int /\ order.side \in {"BUY", "SELL"}
  BY DEF RiskOrder, PortfolioSnapshot
<1> QED
  BY <1>1 DEF RiskReducing, Projected, Signed, Magnitude, Shrinks

\* The numbers of an order and a snapshot.
LEMMA Numbers ==
  ASSUME NEW order \in RiskOrder(Ids), NEW snap \in PortfolioSnapshot
  PROVE  /\ order.quantity \in Int /\ order.price \in Int /\ order.side \in {"BUY", "SELL"}
         /\ snap.equity \in Int /\ snap.dayStart \in Int /\ snap.weekStart \in Int
         /\ snap.peak \in Int /\ snap.position \in Int /\ snap.strategyUsed \in Int
         /\ snap.venueUsed \in Int /\ snap.price \in Int /\ snap.age \in Int
         /\ PositionCap \in Nat /\ StrategyCap \in Nat /\ VenueCap \in Nat
         /\ NotionalPercent \in Nat /\ StaleAfter \in Nat
         /\ Notional(order) \in Int
         /\ Projected(order, snap) \in Int
         /\ Magnitude(Projected(order, snap)) \in Nat
BY LimitsAssumption DEF RiskOrder, PortfolioSnapshot, Notional, Projected, Signed, Magnitude

\* What an order breaks no rule of is admissible.
LEMMA ApprovedIsAdmissible ==
  ASSUME NEW order \in RiskOrder(Ids), NEW snap \in PortfolioSnapshot,
         NEW gateShut, NEW ids,
         Verdict(order, snap, gateShut, ids) = "approved"
  PROVE  Admissible(order, snap)
<1> USE Numbers
<1>1. \A i \in 1..18 : ~Breaks(RuleOrder[i], order, snap, gateShut, ids)
  BY ApprovedBreaksNothing, Len(RuleOrder) = 18 DEF RuleOrder
<1>2. NumericInputsValid(order, snap)
  BY ApprovedPassesTheGateAndTheSwitch
<1>3. FairPrice(order, snap)
  <2>1. ~Breaks("price_deviation", order, snap, gateShut, ids)
    BY <1>1, RuleOrder[14] = "price_deviation" DEF RuleOrder
  <2> QED
    BY <2>1 DEF Breaks, Magnitude, FairPrice
<1>4. snap.age >= 0 /\ StaleAfter > 0 /\ (order.exit \/ snap.age < StaleAfter)
  <2>1. ~Breaks("stale_limit", order, snap, gateShut, ids)
    BY <1>1, RuleOrder[16] = "stale_limit" DEF RuleOrder
  <2>2. ~Breaks("negative_age", order, snap, gateShut, ids)
    BY <1>1, RuleOrder[17] = "negative_age" DEF RuleOrder
  <2>3. ~Breaks("stale_data", order, snap, gateShut, ids)
    BY <1>1, RuleOrder[18] = "stale_data" DEF RuleOrder
  <2> QED
    BY <2>1, <2>2, <2>3 DEF Breaks
<1>5. CASE RiskReducing(order, snap)
  BY <1>2, <1>3, <1>4, <1>5, ReducingShrinks DEF Admissible
<1>6. CASE ~RiskReducing(order, snap)
  <2>1. ~order.exit
    BY <1>6, ApprovedPassesTheGateAndTheSwitch
  <2>2. /\ ~Breaks("position_cap", order, snap, gateShut, ids)
        /\ ~Breaks("strategy_limit", order, snap, gateShut, ids)
        /\ ~Breaks("strategy_allocation_cap", order, snap, gateShut, ids)
        /\ ~Breaks("venue_limit", order, snap, gateShut, ids)
        /\ ~Breaks("venue_capital_cap", order, snap, gateShut, ids)
    BY <1>1, RuleOrder[5] = "position_cap", RuleOrder[6] = "strategy_limit",
       RuleOrder[7] = "strategy_allocation_cap", RuleOrder[8] = "venue_limit",
       RuleOrder[9] = "venue_capital_cap" DEF RuleOrder
  <2>3. /\ ~Breaks("daily_loss_halt", order, snap, gateShut, ids)
        /\ ~Breaks("weekly_loss_halt", order, snap, gateShut, ids)
        /\ ~Breaks("hwm_kill_switch", order, snap, gateShut, ids)
        /\ ~Breaks("order_notional_vs_equity", order, snap, gateShut, ids)
    BY <1>1, RuleOrder[10] = "daily_loss_halt", RuleOrder[11] = "weekly_loss_halt",
       RuleOrder[12] = "hwm_kill_switch", RuleOrder[13] = "order_notional_vs_equity" DEF RuleOrder
  <2>4. ~(Notional(order) * 100 > snap.equity * NotionalPercent)
    BY <1>6, <2>3 DEF Breaks
  <2>5. WithinExposure(order, snap)
    BY <1>6, <2>2, <2>4 DEF Breaks, WithinExposure
  <2>6. NoHalt(snap)
    BY <1>6, <2>3 DEF Breaks, NoHalt, LostAtLeast, Drawdown
  <2> QED
    BY <1>2, <1>3, <1>4, <2>1, <2>5, <2>6 DEF Admissible
<1> QED
  BY <1>5, <1>6

\* A veto names a rule the order breaks.
LEMMA VerdictIsBroken ==
  ASSUME NEW order, NEW snap, NEW gateShut, NEW ids,
         Verdict(order, snap, gateShut, ids) # "approved"
  PROVE  LET verdict == Verdict(order, snap, gateShut, ids)
         IN /\ verdict \in {RuleOrder[i] : i \in 1..Len(RuleOrder)}
            /\ Breaks(verdict, order, snap, gateShut, ids)
<1> DEFINE broken == Broken(Len(RuleOrder), order, snap, gateShut, ids)
           m == Min(broken)
<1>1. broken \in SUBSET Nat
  BY DEF Broken, RuleOrder
<1>2. broken # {} /\ Verdict(order, snap, gateShut, ids) = RuleOrder[m]
  BY DEF Verdict
<1>3. m \in broken
  BY <1>1, <1>2, MinInSet
<1>4. m \in 1..Len(RuleOrder) /\ Breaks(RuleOrder[m], order, snap, gateShut, ids)
  BY <1>3 DEF Broken
<1> HIDE DEF m
<1> QED
  BY <1>2, <1>4

\* An admissible order breaks no rule but, perhaps, the gate and the repeated id.
LEMMA AdmissibleBreaksNothing ==
  ASSUME NEW order \in RiskOrder(Ids), NEW snap \in PortfolioSnapshot,
         NEW gateShut, NEW ids, Admissible(order, snap)
  PROVE  \A i \in 1..Len(RuleOrder) :
           RuleOrder[i] \notin {"execution_mode_gate", "duplicate_order"}
             => ~Breaks(RuleOrder[i], order, snap, gateShut, ids)
<1> DEFINE Broke(rule) == Breaks(rule, order, snap, gateShut, ids)
<1>0. /\ order.quantity \in Int /\ order.price \in Int
      /\ snap.equity \in Int /\ snap.dayStart \in Int /\ snap.weekStart \in Int
      /\ snap.peak \in Int /\ snap.position \in Int /\ snap.strategyUsed \in Int
      /\ snap.venueUsed \in Int /\ snap.price \in Int /\ snap.age \in Int
      /\ StrategyCap \in Nat /\ VenueCap \in Nat /\ StaleAfter \in Nat
      /\ Notional(order) \in Int
  BY Numbers
<1>1. /\ NumericInputsValid(order, snap) /\ FairPrice(order, snap)
      /\ snap.age >= 0 /\ StaleAfter > 0 /\ (order.exit \/ snap.age < StaleAfter)
  BY DEF Admissible
<1>2. Notional(order) > 0
  <2>1. order.quantity > 0 /\ order.price > 0
    BY <1>1 DEF NumericInputsValid
  <2> QED
    BY <1>0, <2>1 DEF Notional
<1>3. ~Broke("invalid_numeric_input")
  BY <1>1 DEF Breaks
<1>4. ~Broke("price_deviation")
  BY <1>0, <1>1 DEF Breaks, Magnitude, FairPrice
<1>5. ~Broke("stale_limit")
  BY <1>0, <1>1 DEF Breaks
<1>6. ~Broke("negative_age")
  BY <1>0, <1>1 DEF Breaks
<1>7. ~Broke("stale_data")
  BY <1>0, <1>1 DEF Breaks
<1>8. CASE RiskReducing(order, snap)
  <2>1. /\ ~Broke("invalid_exit")
        /\ ~Broke("position_limit") /\ ~Broke("position_cap")
        /\ ~Broke("strategy_limit") /\ ~Broke("strategy_allocation_cap")
        /\ ~Broke("venue_limit") /\ ~Broke("venue_capital_cap")
        /\ ~Broke("daily_loss_halt") /\ ~Broke("weekly_loss_halt")
        /\ ~Broke("hwm_kill_switch") /\ ~Broke("order_notional_vs_equity")
    BY <1>8 DEF Breaks
  <2> QED
    BY <1>3, <1>4, <1>5, <1>6, <1>7, <2>1 DEF RuleOrder
<1>9. CASE ~RiskReducing(order, snap)
  <2>0. ~order.exit /\ WithinExposure(order, snap) /\ NoHalt(snap)
    BY <1>1, <1>9, ShrinkingReduces DEF Admissible
  <2>1. ~Broke("invalid_exit")
    BY <2>0 DEF Breaks
  <2>2. ~Broke("position_limit") /\ ~Broke("position_cap")
    <3>1. Projected(order, snap) # 0
      <4>1. order.quantity > 0
        BY <1>1 DEF NumericInputsValid
      <4> QED
        BY <1>0, <1>9, <4>1 DEF RiskReducing, Projected, Signed, Magnitude
    <3>2. Magnitude(Projected(order, snap)) \in Nat \ {0}
      BY <1>0, <3>1, Numbers DEF Magnitude
    <3>3. Magnitude(Projected(order, snap)) \in 0..PositionCap
      BY <2>0 DEF WithinExposure
    <3> HIDE DEF Magnitude, Projected
    <3>4. ~Broke("position_limit")
      BY <3>2, <3>3 DEF Breaks
    <3>5. ~Broke("position_cap")
      BY <3>2, <3>3, LimitsAssumption DEF Breaks
    <3> QED
      BY <3>4, <3>5
  <2>3. /\ ~Broke("strategy_limit") /\ ~Broke("strategy_allocation_cap")
         /\ ~Broke("venue_limit") /\ ~Broke("venue_capital_cap")
    <3>1. /\ snap.strategyUsed >= 0 /\ snap.strategyUsed + Notional(order) <= StrategyCap
          /\ snap.venueUsed >= 0 /\ snap.venueUsed + Notional(order) <= VenueCap
      BY <2>0 DEF WithinExposure
    <3>2. StrategyCap # 0 /\ VenueCap # 0
      BY <1>0, <1>2, <3>1
    <3>3. ~Broke("strategy_limit") /\ ~Broke("venue_limit")
      BY <1>0, <3>1, <3>2 DEF Breaks
    <3>4. ~Broke("strategy_allocation_cap")
      BY <1>0, <3>1 DEF Breaks
    <3>5. ~Broke("venue_capital_cap")
      BY <1>0, <3>1 DEF Breaks
    <3> QED
      BY <3>3, <3>4, <3>5
  <2>4. ~Broke("daily_loss_halt")
    BY <1>0, <2>0 DEF Breaks, NoHalt, LostAtLeast
  <2>5. ~Broke("weekly_loss_halt")
    BY <1>0, <2>0 DEF Breaks, NoHalt, LostAtLeast
  <2>6. ~Broke("hwm_kill_switch")
    BY <1>0, <2>0 DEF Breaks, NoHalt, LostAtLeast, Drawdown
  <2>7. ~Broke("order_notional_vs_equity")
    <3>1. Notional(order) * 100 <= snap.equity * NotionalPercent
      BY <2>0 DEF WithinExposure
    <3>2. snap.equity * NotionalPercent \in Int
      BY <1>0, LimitsAssumption
    <3> QED
      BY <1>0, <3>1, <3>2 DEF Breaks
  <2> QED
    BY <1>3, <1>4, <1>5, <1>6, <1>7, <2>1, <2>2, <2>3, <2>4, <2>5, <2>6, <2>7 DEF RuleOrder
<1> QED
  BY <1>8, <1>9

\* Every call ends with a verdict that agrees with the table.
LEMMA SettleIsTheTable ==
  ASSUME TypeOK, NEW order \in Orders, NEW snap \in Snapshots, NEW gateShut,
         Settle(order, snap, Verdict(order, snap, gateShut, known))
  PROVE  VerdictIsTheTable'
<1>1. order \in RiskOrder(Ids) /\ snap \in PortfolioSnapshot
  BY RequestsAssumption
<1>2. /\ reason' = Verdict(order, snap, gateShut, known)
      /\ request'.order = order /\ request'.snap = snap
  BY DEF Settle
<1>3. reason' = "approved" => Admissible(order, snap)
  BY <1>1, <1>2, ApprovedIsAdmissible
<1>4. step' = "vetoing" => reason' # "approved"
  BY <1>2 DEF Settle
<1>5. reason' \notin {"approved", "execution_mode_gate", "duplicate_order"}
        => ~Admissible(order, snap)
  <2> DEFINE verdict == Verdict(order, snap, gateShut, known)
  <2> SUFFICES ASSUME verdict \notin {"approved", "execution_mode_gate", "duplicate_order"}
               PROVE  ~Admissible(order, snap)
    BY <1>2
  <2>1. PICK i \in 1..Len(RuleOrder) : /\ verdict = RuleOrder[i]
                                       /\ Breaks(RuleOrder[i], order, snap, gateShut, known)
    BY VerdictIsBroken
  <2> HIDE DEF verdict
  <2> QED
    BY <1>1, <2>1, AdmissibleBreaksNothing
<1> QED
  BY <1>2, <1>3, <1>4, <1>5 DEF VerdictIsTheTable

\* For all orders, snapshots and limits, the ordered evaluation with its
\* bypasses approves exactly what the table of rules allows.
THEOREM VerdictsAreTheTable == Spec => []VerdictIsTheTable
<1>1. Init => VerdictIsTheTable
  BY DEF Init, VerdictIsTheTable
<1>2. KillInv /\ VerdictIsTheTable /\ [Next]_vars => VerdictIsTheTable'
  <2> SUFFICES ASSUME KillInv, VerdictIsTheTable, [Next]_vars
               PROVE  VerdictIsTheTable'
    OBVIOUS
  <2>1. TypeOK /\ TripRemembered
    BY DEF KillInv
  <2>2. ASSUME NEW order \in Orders, NEW snap \in Snapshots, Approve(order, snap)
        PROVE  VerdictIsTheTable'
    BY <2>1, <2>2, SettleIsTheTable DEF Approve
  <2>3. ASSUME NEW order \in Orders, NEW snap \in Snapshots, ApproveTrips(order, snap)
        PROVE  VerdictIsTheTable'
    BY <2>3 DEF ApproveTrips, VerdictIsTheTable
  <2>4. CASE Latch
    <3>1. request.order \in Orders /\ request.snap \in Snapshots
      BY <2>1, <2>4 DEF TypeOK, TripRemembered, Latch, Request
    <3> QED
      BY <2>1, <2>4, <3>1, SettleIsTheTable DEF Latch
  <2>5. CASE RewriteDocument \/ RewriteFails \/ JournalVeto
    BY <2>1, <2>5
    DEF RewriteDocument, RewriteFails, JournalVeto, TripRemembered, VerdictIsTheTable
  <2>6. CASE \/ TouchArmFile \/ Crash \/ Restart \/ UNCHANGED vars
             \/ \E content \in {"enabled", "disabled", "broken"} : EditDocument(content)
    BY <2>1, <2>6
    DEF TouchArmFile, Crash, Restart, EditDocument, TripRemembered, VerdictIsTheTable, vars
  <2> QED
    BY <2>2, <2>3, <2>4, <2>5, <2>6 DEF Next
<1> QED
  BY <1>1, <1>2, KillSwitchInvariant, PTL DEF Spec
-----------------------------------------------------------------------------
(* The flatten window.                                                     *)

\* Once the switch is latched, no exit is refused for the gate.
WindowOpen ==
  step = "vetoing" /\ killed /\ request.order.exit => reason # "execution_mode_gate"

\* An open gate is nobody's reason.
LEMMA OpenGateIsNoReason ==
  ASSUME NEW order, NEW snap, NEW ids
  PROVE  Verdict(order, snap, FALSE, ids) # "execution_mode_gate"
<1> DEFINE verdict == Verdict(order, snap, FALSE, ids)
<1> SUFFICES ASSUME verdict = "execution_mode_gate" PROVE FALSE
  OBVIOUS
<1>1. PICK i \in 1..Len(RuleOrder) : /\ verdict = RuleOrder[i]
                                     /\ Breaks(RuleOrder[i], order, snap, FALSE, ids)
  BY VerdictIsBroken
<1> HIDE DEF verdict
<1>2. Breaks("execution_mode_gate", order, snap, FALSE, ids)
  BY <1>1
<1> QED
  BY <1>2 DEF Breaks

\* In the process that tripped the switch an admissible exit is refused as a repeated
\* id only, for all orders, limits, crashes and edits of the files.
THEOREM ExitsStayPossible == Spec => []FlattenWindow
<1>1. Init => WindowOpen
  BY DEF Init, WindowOpen
<1>2. KillInv /\ WindowOpen /\ [Next]_vars => WindowOpen'
  <2> SUFFICES ASSUME KillInv, WindowOpen, [Next]_vars PROVE WindowOpen'
    OBVIOUS
  <2>1. ASSUME NEW order \in Orders, NEW snap \in Snapshots, Approve(order, snap)
        PROVE  WindowOpen'
    <3> SUFFICES ASSUME killed, order.exit PROVE reason' # "execution_mode_gate"
      BY <2>1 DEF WindowOpen, Approve, Settle
    <3>1. reason' = Verdict(order, snap, GateShut(order), known)
      BY <2>1 DEF Approve, Settle
    <3>2. GateShut(order) = FALSE
      BY DEF GateShut
    <3> QED
      BY <3>1, <3>2, OpenGateIsNoReason
  <2>2. CASE Latch
    <3>1. reason' = Verdict(request.order, request.snap, FALSE, known)
      BY <2>2 DEF Latch, Settle
    <3> QED
      BY <3>1, OpenGateIsNoReason DEF WindowOpen
  <2>3. CASE \E order \in Orders, snap \in Snapshots : ApproveTrips(order, snap)
    BY <2>3 DEF ApproveTrips, WindowOpen
  <2>4. CASE RewriteDocument \/ RewriteFails \/ JournalVeto
    BY <2>4 DEF RewriteDocument, RewriteFails, JournalVeto, WindowOpen
  <2>5. CASE \/ TouchArmFile \/ Crash \/ Restart \/ UNCHANGED vars
             \/ \E content \in {"enabled", "disabled", "broken"} : EditDocument(content)
    BY <2>5 DEF TouchArmFile, Crash, Restart, EditDocument, WindowOpen, vars
  <2> QED
    BY <2>1, <2>2, <2>3, <2>4, <2>5 DEF Next
<1>3. WindowOpen /\ VerdictIsTheTable => FlattenWindow
  BY DEF WindowOpen, VerdictIsTheTable, FlattenWindow
<1> QED
  BY <1>1, <1>2, <1>3, KillSwitchInvariant, VerdictsAreTheTable, PTL DEF Spec
=============================================================================
