--------------------------- MODULE MCRiskManager ---------------------------
(* Orders and snapshots at the boundaries of the rules.                    *)
EXTENDS RiskManager

MCOrders ==
  [id: Ids, side: {"BUY", "SELL"}, quantity: {1, 3}, price: {100}, exit: BOOLEAN]
  \cup {[id |-> CHOOSE i \in Ids : TRUE, side |-> "SELL", quantity |-> 2,
         price |-> p, exit |-> TRUE] : p \in {0, 97, 98}}

Healthy == [equity |-> 2000, dayStart |-> 2000, weekStart |-> 2000, peak |-> 2000,
            position |-> 2, strategyUsed |-> 200, venueUsed |-> 200,
            price |-> 100, age |-> 0]

MCSnapshots ==
  {Healthy,
   [Healthy EXCEPT !.position = -2],
   [Healthy EXCEPT !.position = 0, !.strategyUsed = 0, !.venueUsed = 0, !.age = 5],
   [Healthy EXCEPT !.age = -1],
   [Healthy EXCEPT !.age = 9, !.equity = 1961],
   [Healthy EXCEPT !.equity = 1960],
   [Healthy EXCEPT !.equity = 1900, !.dayStart = 1920],
   [Healthy EXCEPT !.equity = 1700, !.dayStart = 1700, !.weekStart = 1700],
   [Healthy EXCEPT !.equity = 1700, !.dayStart = 1700, !.weekStart = 1700, !.position = -2],
   [Healthy EXCEPT !.equity = 1600, !.strategyUsed = 900],
   [Healthy EXCEPT !.price = 0]}
=============================================================================
