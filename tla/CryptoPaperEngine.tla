------------------------- MODULE CryptoPaperEngine -------------------------
(***************************************************************************)
(* engines/crypto_paper_engine.py in PAPER mode: the daily cycle that      *)
(* turns strategy targets into approved, routed and submitted orders, the  *)
(* quote loop that fills them, the clock, and the death of the process.    *)
(*                                                                         *)
(* It is built from the other parts.  approve() is RiskPolicy's Verdict.   *)
(* The order path is the registry that OrderLifecycle implements: an id is *)
(* placed at most once, atomically with respect to crashes, and then       *)
(* finishes.  The strategy's target and the price of the day are inputs;   *)
(* every symbol has price 1, so a quantity is its own notional.            *)
(*                                                                         *)
(* The engine measures its positions at Coinbase only, whichever venue an  *)
(* order was routed to, and nothing but a fill ends an order that rests.   *)
(*                                                                         *)
(* An action ends where the daily task awaits something that really        *)
(* suspends (threads, the alert transport): there the quote loop runs.     *)
(***************************************************************************)
EXTENDS RiskPolicy, SequencesExt

CONSTANTS
  Symbols,      \* SYMBOLS, a sequence
  Targets,      \* the target quantities the strategy may come to
  Equities,     \* the equity a cycle may find
  StartEquity,  \* day and week start equity and high-water mark
  Routable,     \* the venues route() may find healthy first
  Reruns,       \* whether an operator may run the cycle command after a death
  MaxDays,      \* bound: days
  MaxCrashes,   \* bound: process deaths
  None          \* no order

ASSUME EngineAssumption ==
  /\ Symbols \in Seq(STRING)
  /\ \A i, j \in 1..Len(Symbols) : Symbols[i] = Symbols[j] => i = j
  /\ Targets \subseteq Int /\ Equities \subseteq Nat /\ StartEquity \in Nat
  /\ Routable \subseteq {"coinbase", "kraken"} /\ Routable # {}
  /\ Reruns \in BOOLEAN
  /\ MaxDays \in Nat \ {0} /\ MaxCrashes \in Nat

Symbol == {Symbols[i] : i \in 1..Len(Symbols)}

Days == 1..MaxDays

\* client_order_id: strategy, symbol and date, with a suffix when the router
\* fitted the order to the position.
OrderIds == {"trend", "fit-flat"} \X Symbol \X Days

Venues == {"coinbase", "kraken"}

\* An order at a venue.
Orders == [venue : Venues, quantity : Int, status : {"OPEN", "FILLED"}]

ASSUME NoneAssumption == None \notin Orders

VARIABLES
  day, morning, \* the clock: the date, and whether 00:05 is still to come
  task,         \* where the daily task stands
  timer,        \* the date whose 00:05 it sleeps for
  oneShot,      \* whether this process is the cycle command
  cycleDay,     \* the date of the cycle in progress
  left,         \* symbols the cycle has still to treat, in order
  seen,         \* current_positions, read once per cycle
  equity,       \* equity, read once per cycle
  approved,     \* RiskManager._approved_client_ids
  cycle,        \* durable: the status record per date
  placed,       \* durable: the orders of all venues
  overlooked,   \* history: symbols that had a resting order when a cycle read the positions
  crashes       \* number of process deaths so far

clock == <<day, morning>>
inCycle == <<cycleDay, left, seen, equity>>
process == <<task, timer, oneShot, approved>>
durable == <<cycle, placed>>
vars == <<clock, inCycle, process, durable, overlooked, crashes>>

\* A position is what the filled orders of a venue add up to.
Position(venue, symbol) ==
  MapThenSumSet(LAMBDA id : placed[id].quantity,
    {id \in OrderIds : /\ placed[id] # None /\ id[2] = symbol
                       /\ placed[id].venue = venue /\ placed[id].status = "FILLED"})

Resting == {id \in OrderIds : placed[id] # None /\ placed[id].status = "OPEN"}

\* The orders whose fills the engine will see in its positions.
RestingAt(venue, symbol) == {id \in Resting : id[2] = symbol /\ placed[id].venue = venue}

\* Mutant: the day that is added when 00:05 is over is added twice.
MutNextTimer == IF morning THEN day ELSE day + 2

\* _seconds_until the next 00:05.
NextTimer == IF morning THEN day ELSE day + 1

Due == day > timer \/ (day = timer /\ ~morning)

Init ==
  /\ day = 1 /\ morning = TRUE
  /\ task = "sleeping" /\ timer = 1 /\ oneShot = FALSE
  /\ cycleDay = 1 /\ left = <<>>
  /\ seen = [symbol \in Symbol |-> 0] /\ equity = StartEquity
  /\ approved = {}
  /\ cycle = [d \in Days |-> "NONE"]
  /\ placed = [id \in OrderIds |-> None]
  /\ overlooked = {}
  /\ crashes = 0

-----------------------------------------------------------------------------
(* The daily cycle.                                                        *)

\* run_daily_cycle up to its first await: the PREPARED record.
BeginCycle ==
  /\ cycleDay' = day
  /\ cycle' = [cycle EXCEPT ![day] = "PREPARED"]
  /\ task' = "fetching"
  /\ UNCHANGED <<left, seen, equity, placed>>

\* The sleep of _daily_loop ends and the day has no COMPLETED record.
Wake ==
  /\ task = "sleeping" /\ Due
  /\ cycle[day] # "COMPLETED"
  /\ BeginCycle
  /\ UNCHANGED <<clock, timer, oneShot, approved, overlooked, crashes>>

\* A completed day is answered from its record.
WakeCompleted ==
  /\ task = "sleeping" /\ Due
  /\ cycle[day] = "COMPLETED"
  /\ timer' = NextTimer
  /\ UNCHANGED <<clock, inCycle, task, oneShot, approved, durable, overlooked, crashes>>

\* Bars and quotes arrived; positions, cash and equity are read once.  Orders that
\* rest are neither counted nor cancelled.
Snapshot ==
  /\ task = "fetching"
  /\ seen' = [symbol \in Symbol |-> Position("coinbase", symbol)]
  /\ overlooked' = overlooked \cup {symbol \in Symbol : RestingAt("coinbase", symbol) # {}}
  /\ equity' \in Equities
  /\ left' = Symbols
  /\ task' = "deciding"
  /\ UNCHANGED <<clock, cycleDay, timer, oneShot, approved, durable, crashes>>

\* _portfolio: the coinbase positions, valued, are the allocation of the
\* strategy and of the venue.
Portfolio(symbol) ==
  LET allocation == MapThenSumSet(LAMBDA s : Magnitude(seen[s]), Symbol)
  IN [equity |-> equity, dayStart |-> StartEquity, weekStart |-> StartEquity,
      peak |-> StartEquity, position |-> seen[symbol],
      strategyUsed |-> allocation, venueUsed |-> allocation, price |-> 1, age |-> 0]

OrderFor(id, delta, exit) ==
  [id |-> id, side |-> IF delta > 0 THEN "BUY" ELSE "SELL",
   quantity |-> Magnitude(delta), price |-> 1, exit |-> exit]

\* _target_order, an exit if it makes the position smaller.
TargetOrder(symbol, target) ==
  LET current == seen[symbol]
      sameSide == target = 0 \/ (current > 0 /\ target > 0) \/ (current < 0 /\ target < 0)
  IN OrderFor(<<"trend", symbol, cycleDay>>, target - current,
              current # 0 /\ Magnitude(target) < Magnitude(current) /\ sameSide)

\* route() replaces an order that would end short by one that ends flat.
FitFlat(symbol) == OrderFor(<<"fit-flat", symbol, cycleDay>>, -seen[symbol], TRUE)

\* The rebalance band: no order for a change below a quarter of the position.
WorthTrading(symbol, target) ==
  /\ target # seen[symbol]
  /\ seen[symbol] # 0 => Magnitude(target - seen[symbol]) * 4 >= Magnitude(seen[symbol])

\* Mutant: the snapshot has no positions.
MutRiskVerdict(order, portfolio, ids) ==
  Verdict(order, [portfolio EXCEPT !.position = 0], FALSE, ids)

\* approve() in PAPER mode, whose LIVE gate is not looked at.
RiskVerdict(order, portfolio, ids) == Verdict(order, portfolio, FALSE, ids)

NextSymbol == left' = Tail(left)

\* The symbol's target needs no order.
Hold(symbol, target) ==
  /\ ~WorthTrading(symbol, target)
  /\ NextSymbol
  /\ UNCHANGED <<clock, cycleDay, seen, equity, process, durable, overlooked, crashes>>

\* The RiskManager says no, and the alert is awaited before the next symbol.
Veto(symbol, target, portfolio) ==
  LET order == TargetOrder(symbol, target) IN
  /\ WorthTrading(symbol, target)
  /\ RiskVerdict(order, portfolio, approved) # "approved"
  /\ task' = "alerting"
  /\ NextSymbol
  /\ UNCHANGED <<clock, cycleDay, seen, equity, timer, oneShot, approved, durable, overlooked, crashes>>

\* The order would end short: it is approved, fitted and approved again, or
\* dropped when there is nothing to sell.
Fit(symbol, target, portfolio) ==
  LET order == TargetOrder(symbol, target)
      fitted == FitFlat(symbol)
      first == approved \cup {order.id}
  IN
  /\ WorthTrading(symbol, target)
  /\ RiskVerdict(order, portfolio, approved) = "approved"
  /\ target < 0
  /\ NextSymbol
  /\ \/ /\ seen[symbol] <= 0
        /\ approved' = first
        /\ UNCHANGED <<task, placed>>
     \/ /\ seen[symbol] > 0
        /\ RiskVerdict(fitted, portfolio, first) # "approved"
        /\ approved' = first
        /\ task' = "alerting"
        /\ UNCHANGED placed
     \/ /\ seen[symbol] > 0
        /\ RiskVerdict(fitted, portfolio, first) = "approved"
        /\ approved' = first \cup {fitted.id}
        /\ UNCHANGED task
        /\ \/ UNCHANGED placed
           \/ \E venue \in Routable :
                placed' = IF placed[fitted.id] # None THEN placed
                          ELSE [placed EXCEPT ![fitted.id] =
                                 [venue |-> venue, quantity |-> -seen[symbol], status |-> "OPEN"]]
  /\ UNCHANGED <<clock, cycleDay, seen, equity, timer, oneShot, cycle, overlooked, crashes>>

\* Mutant: spot is sold short.
MutSubmitShort(symbol, target, portfolio) ==
  LET order == TargetOrder(symbol, target) IN
  /\ WorthTrading(symbol, target)
  /\ RiskVerdict(order, portfolio, approved) = "approved"
  /\ approved' = approved \cup {order.id}
  /\ \E venue \in Routable :
       placed' = IF placed[order.id] # None THEN placed
                 ELSE [placed EXCEPT ![order.id] =
                        [venue |-> venue, quantity |-> target - seen[symbol], status |-> "OPEN"]]
  /\ NextSymbol
  /\ UNCHANGED <<clock, cycleDay, seen, equity, task, timer, oneShot, cycle, overlooked, crashes>>

\* The order is approved, routed to the first healthy venue if there is one,
\* and submitted; an id that is already placed is not placed again.
Submit(symbol, target, portfolio) ==
  LET order == TargetOrder(symbol, target) IN
  /\ WorthTrading(symbol, target)
  /\ RiskVerdict(order, portfolio, approved) = "approved"
  /\ target >= 0
  /\ approved' = approved \cup {order.id}
  /\ \/ UNCHANGED placed
     \/ \E venue \in Routable :
          placed' = IF placed[order.id] # None THEN placed
                    ELSE [placed EXCEPT ![order.id] =
                           [venue |-> venue, quantity |-> target - seen[symbol], status |-> "OPEN"]]
  /\ NextSymbol
  /\ UNCHANGED <<clock, cycleDay, seen, equity, task, timer, oneShot, cycle, overlooked, crashes>>

\* The body of the loop for the next symbol, up to the next await.
Decide ==
  /\ task = "deciding" /\ left # <<>>
  /\ \E target \in Targets, portfolio \in {Portfolio(Head(left))} :
       \/ Hold(Head(left), target)
       \/ Veto(Head(left), target, portfolio)
       \/ Fit(Head(left), target, portfolio)
       \/ Submit(Head(left), target, portfolio)

Alerted ==
  /\ task = "alerting"
  /\ task' = "deciding"
  /\ UNCHANGED <<clock, inCycle, timer, oneShot, approved, durable, overlooked, crashes>>

\* Reconciliation, then _record_portfolio, which awaits quotes.
Record ==
  /\ task = "deciding" /\ left = <<>>
  /\ task' = "recording"
  /\ UNCHANGED <<clock, inCycle, timer, oneShot, approved, durable, overlooked, crashes>>

\* The COMPLETED record.  The loop sleeps again; the cycle command ends.
Complete ==
  /\ task = "recording"
  /\ cycle' = [cycle EXCEPT ![cycleDay] = "COMPLETED"]
  /\ task' = IF oneShot THEN "down" ELSE "sleeping"
  /\ timer' = NextTimer
  /\ UNCHANGED <<clock, inCycle, oneShot, approved, placed, overlooked, crashes>>

-----------------------------------------------------------------------------
(* The quote loop, the clock and the process.                              *)

\* refresh_quotes: the recorded quotes trade through a resting order.  The cycle
\* command has no quote loop, only the refresh of the cycle.
Fill ==
  /\ task \notin {"down", "deciding"}
  /\ oneShot => task = "fetching"
  /\ \E id \in Resting : placed' = [placed EXCEPT ![id].status = "FILLED"]
  /\ UNCHANGED <<clock, inCycle, process, cycle, overlooked, crashes>>

\* 00:05 passes.
Dawn ==
  /\ morning
  /\ morning' = FALSE
  /\ UNCHANGED <<day, inCycle, process, durable, overlooked, crashes>>

\* The date changes.  A due sleep ends and the cycle of 00:05 takes minutes, not a
\* day; one of the cycle command may have begun just before.
Midnight ==
  /\ ~morning /\ day < MaxDays
  /\ task = "down" \/ oneShot \/ (task = "sleeping" /\ ~Due)
  /\ day' = day + 1
  /\ morning' = TRUE
  /\ UNCHANGED <<inCycle, process, durable, overlooked, crashes>>

\* The process is killed, or an exception leaves one of its loops, such as the
\* cycle's RuntimeError for missing or stale quotes.
Crash ==
  /\ task # "down"
  /\ crashes < MaxCrashes
  /\ crashes' = crashes + 1
  /\ task' = "down"
  /\ left' = <<>>
  /\ UNCHANGED <<clock, cycleDay, seen, equity, timer, oneShot, approved, durable, overlooked>>

\* systemd starts the service, which recovers and sleeps until the next 00:05.
Restart ==
  /\ task = "down"
  /\ task' = "sleeping"
  /\ timer' = NextTimer
  /\ oneShot' = FALSE
  /\ approved' = {}
  /\ UNCHANGED <<clock, inCycle, durable, overlooked, crashes>>

\* Mutant: the cycle command runs a day again that is done.
MutRunCycleCommand ==
  /\ Reruns
  /\ task = "down"
  /\ BeginCycle
  /\ oneShot' = TRUE
  /\ approved' = {}
  /\ UNCHANGED <<clock, timer, overlooked, crashes>>

\* The cycle command: recover, then run the cycle of the day at once.
RunCycleCommand ==
  /\ Reruns
  /\ task = "down"
  /\ cycle[day] # "COMPLETED"
  /\ BeginCycle
  /\ oneShot' = TRUE
  /\ approved' = {}
  /\ UNCHANGED <<clock, timer, overlooked, crashes>>

\* What the daily task does next.
DailyTask ==
  Wake \/ WakeCompleted \/ Snapshot \/ Decide \/ Alerted \/ Record \/ Complete

Next ==
  \/ DailyTask
  \/ Fill
  \/ Dawn
  \/ Midnight
  \/ Crash
  \/ Restart
  \/ RunCycleCommand

Spec == Init /\ [][Next]_vars

\* Sleeps end and awaits return, systemd restarts the process, time passes.
Fairness == WF_vars(DailyTask) /\ WF_vars(Restart) /\ WF_vars(Dawn \/ Midnight)

FairSpec == Spec /\ Fairness

-----------------------------------------------------------------------------
(* Properties.                                                             *)

\* Every variable has its shape.
TypeOK ==
  /\ day \in Days /\ morning \in BOOLEAN
  /\ task \in {"sleeping", "fetching", "deciding", "alerting", "recording", "down"}
  /\ timer \in 1..(MaxDays + 1) /\ oneShot \in BOOLEAN
  /\ cycleDay \in Days
  /\ \E n \in 0..Len(Symbols) : left = SubSeq(Symbols, n + 1, Len(Symbols))
  /\ seen \in [Symbol -> Int] /\ equity \in Nat
  /\ approved \subseteq OrderIds
  /\ cycle \in [Days -> {"NONE", "PREPARED", "COMPLETED"}]
  /\ placed \in [OrderIds -> Orders \cup {None}]
  /\ overlooked \subseteq Symbol
  /\ crashes \in 0..MaxCrashes

\* An instrument whose position at the first venue was never read while an order
\* for it was resting there.
Tracked(symbol) == symbol \notin overlooked

\* What a position is, and what it will be when an order that rests is filled.
Outcomes(symbol) ==
  {Position("coinbase", symbol)}
    \cup {Position("coinbase", symbol) + placed[id].quantity : id \in RestingAt("coinbase", symbol)}

\* The "per-instrument position cap" at the venue the engine measures: over days,
\* deaths, reruns of a cycle and orders routed to the other venue, no tracked
\* position outgrows it, nor will when the order that rests is filled.
CapHolds ==
  \A symbol \in Symbol : Tracked(symbol) => \A n \in Outcomes(symbol) : n <= PositionCap

\* What every state keeps, over reruns of a cycle and deaths between its orders:
\* the variables have their shape and no tracked position outgrows its cap.
EngineSafe == TypeOK /\ CapHolds

\* An exit "must reduce risk without reversing the position": no tracked position
\* is short, nor will be when an order that rests is filled, though the cycle of a
\* date is run twice and its runs place an order to a target and one that ends flat.
NoReversal ==
  \A symbol \in Symbol : Tracked(symbol) => \A n \in Outcomes(symbol) : n >= 0

\* The same of every position, that of an overlooked instrument too.
NeverShort ==
  \A symbol \in Symbol, venue \in Venues : Position(venue, symbol) >= 0

\* A completed day is never opened again and gets no more orders, from no
\* process.
CompletedIsClosed ==
  [][\A id \in OrderIds :
       cycle[id[3]] = "COMPLETED" =>
         /\ cycle'[id[3]] = "COMPLETED"
         /\ placed[id] = None => placed'[id] = None]_vars

\* "Daily cycle record written at 00:05 UTC": a day that begins with the engine
\* asleep, whatever it died of before, gets its COMPLETED record if it does not
\* die again.  (A death during the cycle leaves the day without one.)
DailyCycle ==
  \A d \in Days :
    (day = d /\ morning /\ task = "sleeping" /\ crashes = MaxCrashes) ~> cycle[d] = "COMPLETED"
=============================================================================
