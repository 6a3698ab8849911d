--------------------------- MODULE OrderLifecycle ---------------------------
(***************************************************************************)
(* crypto/order_manager.py over crypto/adapters/paper.py: how an order     *)
(* request gets from the persistent OrderManager to one of several         *)
(* persistent paper venues, and what a crash between two durable writes    *)
(* leaves for reconciliation to repair.                                    *)
(*                                                                         *)
(* Granularity.  A PaperAdapter call never suspends (its event queue is    *)
(* unbounded), so on the event loop a submit runs without interleaving;    *)
(* what can come between its steps is the death of the process.  One       *)
(* action therefore ends at each durable write (StateStore.set is one      *)
(* SQLite transaction) and Crash is enabled between any two of them.       *)
(*                                                                         *)
(* A quantity is signed: positive for a buy, negative for a sell.  Prices, *)
(* fees and cash are abstracted: which resting orders a quote trades       *)
(* through is an arbitrary subset.  One symbol.                            *)
(***************************************************************************)
EXTENDS Integers, Sequences, FiniteSetsExt

CONSTANTS
  ClientIds,   \* client order ids the strategy may use
  Venues,      \* the PaperAdapters, one per venue
  Quantities,  \* signed order quantities
  MarketIds,   \* the ids submitted as MARKET orders, the others are LIMIT
  RecoverOnStart, \* whether a started process reconciles before it trades
  Monitored,   \* the venues whose stream OrderManager.monitor consumes
  MaxCrashes,  \* bound: process deaths
  MaxDrops,    \* bound: stream disconnections
  None         \* absence of a record

ASSUME ConstantsAssumption ==
  /\ Quantities \subseteq Int \ {0}
  /\ MarketIds \subseteq ClientIds
  /\ Monitored \subseteq Venues
  /\ RecoverOnStart \in BOOLEAN
  /\ MaxCrashes \in Nat
  /\ MaxDrops \in Nat
  /\ None \notin Venues
  /\ None \notin ClientIds

VARIABLES
  managed,    \* OrderManager._orders; memory and disk are always written together
  broker,     \* PaperAdapter memory: per venue its orders, net position and fills
  saved,      \* the broker document in the StateStore
  quoted,     \* per venue, whether PaperAdapter._quotes holds a quote
  events,     \* per venue, PaperAdapter._events
  step,       \* where the process stands in its current call
  call,       \* the submit in progress
  todo,       \* the orders a reconciliation has still to treat
  scope,      \* the venues that reconciliation asked
  acked,      \* ids whose submit returned ACCEPTED to the caller, ever (history)
  crashes,    \* number of process deaths so far
  drops       \* number of stream disconnections so far

vars == <<managed, broker, saved, quoted, events, step, call, todo, scope,
          acked, crashes, drops>>

\* What a process death erases besides the call in progress.
volatile == <<broker, quoted, events>>

-----------------------------------------------------------------------------
(* Data.                                                                   *)

Terminal == {"FILLED", "CANCELED", "REJECTED"}

\* States in which submit() answers from its own record.
Settled == {"ACKNOWLEDGED", "OPEN", "PARTIALLY_FILLED"} \cup Terminal

\* Mutant: a crashed submission is not among the states to reconcile.
MutInFlight == {"ACKNOWLEDGED", "OPEN", "PARTIALLY_FILLED"}

\* States reconcile_many() turns UNKNOWN when no venue reports the order.
InFlight == {"SUBMITTING", "ACKNOWLEDGED", "OPEN", "PARTIALLY_FILLED"}

LifecycleState == Settled \cup {"SUBMITTING", "UNKNOWN"}

ManagedOrder == [state: LifecycleState, quantity: Quantities,
                 filled: Quantities \cup {0}, venue: Venues \cup {None}]

\* The venue reports filled_quantity = quantity once FILLED and 0 before.
BrokerOrder == [status: {"OPEN", "FILLED", "CANCELED"}, quantity: Quantities]

\* None is the absence of a record and not a record.
ASSUME NoneAssumption == None \notin ManagedOrder \cup BrokerOrder

Broker == [orders: [ClientIds -> BrokerOrder \cup {None}],
           position: Int,
           fills: [ClientIds -> Nat]]

Disconnect == [kind |-> "disconnect"]

OrderEvent(id, order) == [kind |-> "order", id |-> id, order |-> order]

Holds(b, id) == b.orders[id] # None

FilledQuantity(order) == IF order.status = "FILLED" THEN order.quantity ELSE 0

NoCall == [id |-> None, venue |-> None, quantity |-> 0]

EmptyBroker == [orders   |-> [id \in ClientIds |-> None],
                position |-> 0,
                fills    |-> [id \in ClientIds |-> 0]]

\* PaperAdapter._fill: the whole quantity at once.
Fill(b, id) ==
  [orders   |-> [b.orders EXCEPT ![id].status = "FILLED"],
   position |-> b.position + b.orders[id].quantity,
   fills    |-> [b.fills EXCEPT ![id] = @ + 1]]

\* OrderManager._transition: a terminal record ignores a non-terminal report.
Transition(rec, state, filled, venue) ==
  IF rec.state \in Terminal /\ state \notin Terminal
    THEN rec
    ELSE [rec EXCEPT !.state = state, !.filled = filled, !.venue = venue]

\* _transition raises ValueError unless the report fits the recorded quantity.
\* Every report does, see QuantityAgrees: the exception is a step nobody takes.
Fits(rec, order) ==
  LET f == FilledQuantity(order)
  IN \/ f = 0
     \/ f > 0 /\ rec.quantity > 0 /\ f <= rec.quantity
     \/ f < 0 /\ rec.quantity < 0 /\ rec.quantity <= f

\* Mutant: a report that is not final is recorded as the order's end.
MutApply(rec, order, v) ==
  Transition(rec, IF order.status = "OPEN" THEN "CANCELED" ELSE order.status,
             FilledQuantity(order), v)

\* Mutant: a settled record is not refreshed by a later report.
MutApplyOnce(rec, order, v) ==
  IF rec.state \in Settled THEN rec
  ELSE Transition(rec, order.status, FilledQuantity(order), v)

\* _apply_broker_order and _apply_mapping: what a venue says of an order.
Apply(rec, order, v) == Transition(rec, order.status, FilledQuantity(order), v)

-----------------------------------------------------------------------------
Init ==
  /\ managed = [id \in ClientIds |-> None]
  /\ broker = [v \in Venues |-> EmptyBroker]
  /\ saved = broker
  /\ quoted = [v \in Venues |-> FALSE]
  /\ events = [v \in Venues |-> <<>>]
  /\ step = "idle"
  /\ call = NoCall
  /\ todo = {}
  /\ scope = {}
  /\ acked = {}
  /\ crashes = 0
  /\ drops = 0

Persist(v, b) ==
  /\ broker' = [broker EXCEPT ![v] = b]
  /\ saved' = [saved EXCEPT ![v] = b]

\* OrderManager.submit answers from a settled record without calling the venue.
SubmitSettled(id) ==
  /\ step = "idle"
  /\ managed[id] # None
  /\ managed[id].state \in Settled
  /\ acked' = IF managed[id].state = "REJECTED" THEN acked ELSE acked \cup {id}
  /\ UNCHANGED <<managed, broker, saved, quoted, events, step, call, todo,
                 scope, crashes, drops>>

\* OrderManager.submit up to its first durable write: the record is replaced
\* by a fresh SUBMITTING one, whatever unsettled record was there.
SubmitBegin(id, v, q) ==
  /\ step = "idle"
  /\ managed[id] # None => managed[id].state \notin Settled
  /\ managed' = [managed EXCEPT ![id] = [state |-> "SUBMITTING", quantity |-> q,
                                         filled |-> 0, venue |-> None]]
  /\ call' = [id |-> id, venue |-> v, quantity |-> q]
  /\ step' = "prepared"
  /\ UNCHANGED <<broker, saved, quoted, events, todo, scope, acked, crashes, drops>>

\* PaperAdapter.submit_order finds the id it already knows.
VenueRepeats ==
  /\ step = "prepared"
  /\ Holds(broker[call.venue], call.id)
  /\ step' = "accepted"
  /\ UNCHANGED <<managed, broker, saved, quoted, events, call, todo, scope,
                 acked, crashes, drops>>

\* Mutant: the venue acknowledges before it saves its book.
MutVenueAccepts ==
  LET v == call.venue
      id == call.id
      placed == [broker[v] EXCEPT !.orders[id] =
                   [status |-> "OPEN", quantity |-> call.quantity]]
  IN
  /\ step = "prepared"
  /\ ~Holds(broker[v], id)
  /\ id \notin MarketIds
  /\ broker' = [broker EXCEPT ![v] = placed]
  /\ step' = "accepted"
  /\ UNCHANGED <<managed, saved, quoted, events, call, todo, scope, acked, crashes, drops>>

\* PaperAdapter.submit_order books the order; a MARKET order fills at once.
VenueAccepts ==
  LET v == call.venue
      id == call.id
      placed == [broker[v] EXCEPT !.orders[id] =
                   [status |-> "OPEN", quantity |-> call.quantity]]
      booked == IF id \in MarketIds THEN Fill(placed, id) ELSE placed
  IN
  /\ step = "prepared"
  /\ ~Holds(broker[v], id)
  /\ id \in MarketIds => quoted[v]
  /\ Persist(v, booked)
  /\ events' = IF id \in MarketIds
                 THEN [events EXCEPT ![v] = Append(@, OrderEvent(id, booked.orders[id]))]
                 ELSE events
  /\ step' = "accepted"
  /\ UNCHANGED <<managed, quoted, call, todo, scope, acked, crashes, drops>>

\* PaperAdapter.submit_order raises for a MARKET order without a quote, after
\* the order entered its memory and before it was saved.
VenueRaises ==
  LET v == call.venue IN
  /\ step = "prepared"
  /\ ~Holds(broker[v], call.id)
  /\ call.id \in MarketIds /\ ~quoted[v]
  /\ broker' = [broker EXCEPT ![v].orders[call.id] =
                  [status |-> "OPEN", quantity |-> call.quantity]]
  /\ step' = "idle"
  /\ call' = NoCall
  /\ UNCHANGED <<managed, saved, quoted, events, todo, scope, acked, crashes, drops>>

\* OrderManager.submit records the acknowledgement.
SubmitAcknowledged ==
  LET rec == managed[call.id] IN
  /\ step = "accepted"
  /\ managed' = [managed EXCEPT ![call.id] =
                   Transition(rec, "ACKNOWLEDGED", rec.filled, call.venue)]
  /\ acked' = acked \cup {call.id}
  /\ step' = "idle"
  /\ call' = NoCall
  /\ UNCHANGED <<broker, saved, quoted, events, todo, scope, crashes, drops>>

-----------------------------------------------------------------------------
(* The venue: quotes and cancellations.                                    *)

\* Mutant: a filled order still counts as resting.
MutResting(v) == {id \in ClientIds \ MarketIds :
                    Holds(broker[v], id) /\ broker[v].orders[id].status # "CANCELED"
                    /\ broker[v].fills[id] < 2}

Resting(v) == {id \in ClientIds \ MarketIds :
                 Holds(broker[v], id) /\ broker[v].orders[id].status = "OPEN"}

\* PaperAdapter.update_quote stores the quote and starts matching.
UpdateQuote(v) ==
  /\ step = "idle"
  /\ quoted' = [quoted EXCEPT ![v] = TRUE]
  /\ call' = [NoCall EXCEPT !.venue = v]
  /\ step' = "matching"
  /\ UNCHANGED <<managed, broker, saved, events, todo, scope, acked, crashes, drops>>

\* A resting LIMIT order the last trade went through fills, in memory.  Its
\* event reaches the queue after the save; queue and memory die together and
\* nobody reads the queue before the call ends, so it is appended here.
MatchFill(id) ==
  LET v == call.venue
      b == Fill(broker[v], id)
  IN
  /\ step = "matching"
  /\ id \in Resting(v)
  /\ broker' = [broker EXCEPT ![v] = b]
  /\ events' = [events EXCEPT ![v] = Append(@, OrderEvent(id, b.orders[id]))]
  /\ UNCHANGED <<managed, saved, quoted, step, call, todo, scope, acked, crashes, drops>>

\* One save for all the fills of the quote.
UpdateQuoteSaved ==
  /\ step = "matching"
  /\ Persist(call.venue, broker[call.venue])
  /\ step' = "idle"
  /\ call' = NoCall
  /\ UNCHANGED <<managed, quoted, events, todo, scope, acked, crashes, drops>>

\* Mutant: any order can be canceled, a filled one too.
MutCancel(v, id) ==
  /\ step = "idle"
  /\ Holds(broker[v], id)
  /\ Persist(v, [broker[v] EXCEPT !.orders[id].status = "CANCELED"])
  /\ UNCHANGED <<managed, quoted, events, step, call, todo, scope, acked, crashes, drops>>

\* PaperAdapter.cancel_order.
Cancel(v, id) ==
  LET b == [broker[v] EXCEPT !.orders[id].status = "CANCELED"] IN
  /\ step = "idle"
  /\ Holds(broker[v], id) /\ broker[v].orders[id].status = "OPEN"
  /\ Persist(v, b)
  /\ events' = [events EXCEPT ![v] = Append(@, OrderEvent(id, b.orders[id]))]
  /\ UNCHANGED <<managed, quoted, step, call, todo, scope, acked, crashes, drops>>

-----------------------------------------------------------------------------
(* Reconciliation and the event stream.                                    *)

\* reconcile_many(venues) takes the history of every venue it is given.  No
\* venue changes while it runs, so the history is read when it is applied.
ReconcileBegin(venues) ==
  /\ todo' = {id \in ClientIds : managed[id] # None}
  /\ scope' = venues
  /\ step' = "reconciling"

\* Mutant: the cycle reconciles one venue at a time.
MutReconcileAll ==
  /\ step = "idle"
  /\ \E v \in Venues : ReconcileBegin({v})
  /\ UNCHANGED <<managed, volatile, saved, call, acked, crashes, drops>>

\* CryptoPaperEngine.run_daily_cycle ends with a reconciliation of all venues.
ReconcileAll ==
  /\ step = "idle"
  /\ ReconcileBegin(Venues)
  /\ UNCHANGED <<managed, volatile, saved, call, acked, crashes, drops>>

\* One record at a time, each transition durable on its own.
ReconcileOrder(id) ==
  /\ step = "reconciling"
  /\ id \in todo
  /\ todo' = todo \ {id}
  /\ \/ \E v \in scope :
          /\ Holds(broker[v], id)
          /\ Fits(managed[id], broker[v].orders[id])
          /\ managed' = [managed EXCEPT ![id] = Apply(@, broker[v].orders[id], v)]
     \/ /\ \A v \in scope : ~Holds(broker[v], id)
        /\ managed' = IF managed[id].state \in InFlight
                        THEN [managed EXCEPT ![id].state = "UNKNOWN"]
                        ELSE managed
  /\ UNCHANGED <<volatile, saved, step, call, scope, acked, crashes, drops>>

ReconcileEnd ==
  /\ step = "reconciling"
  /\ todo = {}
  /\ step' = "idle"
  /\ scope' = {}
  /\ UNCHANGED <<managed, volatile, saved, call, todo, acked, crashes, drops>>

\* OrderManager.process_event on the next event of a monitored stream.
ProcessEvent(v) ==
  LET event == Head(events[v]) IN
  /\ step = "idle"
  /\ v \in Monitored
  /\ events[v] # <<>>
  /\ event.kind = "order"
  /\ managed[event.id] # None => Fits(managed[event.id], event.order)
  /\ managed' = IF managed[event.id] = None
                  THEN managed
                  ELSE [managed EXCEPT ![event.id] = Apply(@, event.order, v)]
  /\ events' = [events EXCEPT ![v] = Tail(@)]
  /\ UNCHANGED <<broker, saved, quoted, step, call, todo, scope, acked, crashes, drops>>

\* PaperAdapter.disconnect_stream.
DropStream(v) ==
  /\ step = "idle"
  /\ v \in Monitored
  /\ drops < MaxDrops
  /\ drops' = drops + 1
  /\ events' = [events EXCEPT ![v] = Append(@, Disconnect)]
  /\ UNCHANGED <<managed, broker, saved, quoted, step, call, todo, scope, acked, crashes>>

\* OrderManager.monitor: a broken stream reconciles with its own adapter only.
StreamBroken(v) ==
  /\ step = "idle"
  /\ v \in Monitored
  /\ events[v] # <<>>
  /\ Head(events[v]).kind = "disconnect"
  /\ events' = [events EXCEPT ![v] = Tail(@)]
  /\ ReconcileBegin({v})
  /\ UNCHANGED <<managed, broker, saved, quoted, call, acked, crashes, drops>>

-----------------------------------------------------------------------------
(* Process death and restart.                                              *)

\* The process dies; an exception that leaves run_forever is the same thing.
Crash ==
  /\ step # "down"
  /\ crashes < MaxCrashes
  /\ crashes' = crashes + 1
  /\ step' = "down"
  /\ call' = NoCall
  /\ todo' = {}
  /\ scope' = {}
  /\ UNCHANGED <<managed, volatile, saved, acked, drops>>

\* The documents are loaded.  The engine (systemd's ExecStartPre and run_forever
\* both call CryptoPaperEngine.recover) then reconciles every venue before
\* anything else runs; a bare OrderManager does not.
Restart ==
  /\ step = "down"
  /\ broker' = saved
  /\ quoted' = [v \in Venues |-> FALSE]
  /\ events' = [v \in Venues |-> <<>>]
  /\ IF RecoverOnStart
       THEN ReconcileBegin(Venues)
       ELSE step' = "idle" /\ UNCHANGED <<todo, scope>>
  /\ UNCHANGED <<managed, saved, call, acked, crashes, drops>>

Submit ==
  \/ \E id \in ClientIds : SubmitSettled(id)
  \/ \E id \in ClientIds, v \in Venues, q \in Quantities : SubmitBegin(id, v, q)
  \/ VenueRepeats
  \/ VenueAccepts
  \/ VenueRaises
  \/ SubmitAcknowledged

Market ==
  \/ \E v \in Venues : UpdateQuote(v)
  \/ \E id \in ClientIds : MatchFill(id)
  \/ UpdateQuoteSaved
  \/ \E v \in Venues, id \in ClientIds : Cancel(v, id)

Reconcile ==
  \/ ReconcileAll
  \/ \E id \in ClientIds : ReconcileOrder(id)
  \/ ReconcileEnd

Stream == \E v \in Venues : ProcessEvent(v) \/ DropStream(v) \/ StreamBroken(v)

Next == Submit \/ Market \/ Reconcile \/ Stream \/ Crash \/ Restart

Spec == Init /\ [][Next]_vars

\* A call the process has begun goes on (no step of it waits for anything
\* outside), systemd restarts a dead process (Restart=on-failure), and the
\* daily cycle comes back every day with its reconciliation.
Fairness ==
  /\ WF_vars(VenueRepeats \/ VenueAccepts \/ VenueRaises)
  /\ WF_vars(SubmitAcknowledged)
  /\ WF_vars(UpdateQuoteSaved)
  /\ \A id \in ClientIds : WF_vars(ReconcileOrder(id))
  /\ WF_vars(ReconcileEnd)
  /\ WF_vars(Restart)
  /\ SF_vars(ReconcileAll)

FairSpec == Spec /\ Fairness

-----------------------------------------------------------------------------
(* Properties.                                                             *)

\* Every variable has its shape, in memory and on disk.
TypeOK ==
  /\ managed \in [ClientIds -> ManagedOrder \cup {None}]
  /\ broker \in [Venues -> Broker]
  /\ saved \in [Venues -> Broker]
  /\ quoted \in [Venues -> BOOLEAN]
  /\ step \in {"idle", "prepared", "accepted", "matching", "reconciling", "down"}
  /\ call \in [id: ClientIds \cup {None}, venue: Venues \cup {None},
                quantity: Quantities \cup {0}]
  /\ todo \subseteq ClientIds
  /\ scope \subseteq Venues
  /\ acked \subseteq ClientIds
  /\ crashes \in 0..MaxCrashes
  /\ drops \in 0..MaxDrops

\* A client id rests at one venue only, even when the process died between the
\* venue's save and the OrderManager's and the retry was routed elsewhere
\* (OrderManager.submit, recover before run).
OneVenue ==
  \A id \in ClientIds, v, w \in Venues :
    Holds(broker[v], id) /\ Holds(broker[w], id) => v = w

\* The quantity the OrderManager records is the one the venue works, although
\* a resubmission after a crash may be sized differently (submit replaces the
\* record before it calls the venue).
QuantityAgrees ==
  \A id \in ClientIds, v \in Venues :
    Holds(broker[v], id) =>
      /\ managed[id] # None
      /\ managed[id].quantity = broker[v].orders[id].quantity

\* What the OrderManager says happened has happened: a final record names the
\* venue's final status, and a live record names an order some venue has.
RecordsAgree ==
  \A id \in ClientIds :
    managed[id] # None /\ step \notin {"down", "reconciling"} =>
      /\ managed[id].state \in Terminal =>
           \E v \in Venues : /\ Holds(broker[v], id)
                            /\ broker[v].orders[id].status = managed[id].state
      /\ managed[id].state \in {"ACKNOWLEDGED", "OPEN"} =>
           \E v \in Venues : Holds(broker[v], id)

\* A record is marked UNKNOWN only when no venue has the order: reconcile_many
\* looks at an aggregate snapshot "before marking unseen orders unknown".
UnknownMeansUnseen ==
  \A id \in ClientIds :
    managed[id] # None =>
      (managed[id].state = "UNKNOWN" => \A v \in Venues : ~Holds(broker[v], id))

\* Position and fills of a book, in memory and as saved, are those of its
\* filled orders: no crash and no repeated quote fills an order twice.
PositionIsFills ==
  \A b \in {broker[v] : v \in Venues} \cup {saved[v] : v \in Venues} :
    LET filled == {id \in ClientIds : Holds(b, id) /\ b.orders[id].status = "FILLED"}
    IN /\ b.position = MapThenSumSet(LAMBDA id : b.orders[id].quantity, filled)
       /\ \A id \in ClientIds : b.fills[id] = IF id \in filled THEN 1 ELSE 0

\* An order acknowledged to the caller is on a venue's disk, whatever crashes
\* (PaperAdapter.submit_order saves before it returns the acknowledgement).
AckDurable == \A id \in acked : \E v \in Venues : Holds(saved[v], id)

\* Why OneVenue, QuantityAgrees and AckDurable hold of the engine, which
\* recovers on start and neither submits MARKET orders nor monitors a stream.
\* Memory and disk hold the same orders; only a quote being matched, or one
\* the process died in, leaves fills in memory that the disk does not have.
SameOrders ==
  /\ step \notin {"matching", "down"} => broker = saved
  /\ step = "matching" => \A v \in Venues \ {call.venue} : broker[v] = saved[v]
  /\ \A v \in Venues, id \in ClientIds :
       /\ Holds(broker[v], id) <=> Holds(saved[v], id)
       /\ Holds(broker[v], id) =>
            \/ broker[v].orders[id] = saved[v].orders[id]
            \/ /\ saved[v].orders[id].status = "OPEN"
               /\ broker[v].orders[id] = [saved[v].orders[id] EXCEPT !.status = "FILLED"]

\* An order some venue has is known to the OrderManager as settled, or is
\* still going to be settled by the call or the recovery in progress.
Tracked ==
  \A v \in Venues, id \in ClientIds :
    Holds(broker[v], id) =>
      /\ managed[id] # None
      /\ \/ managed[id].state \in Settled
         \/ step = "accepted" /\ call.id = id
         \/ step = "down"
         \/ step = "reconciling" /\ id \in todo

\* Conversely a settled record has an order behind it.
Backed ==
  \A id \in ClientIds :
    managed[id] # None /\ managed[id].state \in Settled =>
      \E v \in Venues : Holds(saved[v], id)

\* The call in progress: the record of a prepared submit is not at any venue.
CallInv ==
  /\ step \in {"prepared", "accepted"} =>
       /\ call.id \in ClientIds /\ call.venue \in Venues
       /\ managed[call.id] # None
       /\ managed[call.id].quantity = call.quantity
       /\ managed[call.id].state = "SUBMITTING"
  /\ step = "prepared" => \A v \in Venues : ~Holds(broker[v], call.id)
  /\ step = "accepted" => Holds(broker[call.venue], call.id)
  /\ step = "matching" => call.venue \in Venues
  /\ step = "reconciling" =>
       scope = Venues /\ todo \subseteq {id \in ClientIds : managed[id] # None}

\* The inductive invariant: the crash-safety of submit, piece by piece.
EngineInv ==
  TypeOK /\ SameOrders /\ Tracked /\ Backed /\ CallInv
  /\ OneVenue /\ QuantityAgrees /\ AckDurable

\* The saved books of all venues behave like one OrderRegistry.
SavedOrder(id) ==
  IF \E v \in Venues : Holds(saved[v], id)
    THEN LET v == CHOOSE v \in Venues : Holds(saved[v], id)
         IN [venue    |-> v,
             quantity |-> saved[v].orders[id].quantity,
             status   |-> saved[v].orders[id].status]
    ELSE None

Registry == INSTANCE OrderRegistry WITH placed <- [id \in ClientIds |-> SavedOrder(id)]

\* None is no order of the registry either.
ASSUME RegistryAssumption == None \notin Registry!Placed

\* Persistence, recovery and resubmission together implement the registry:
\* one placement per id, then one final status.
ImplementsRegistry == Registry!Spec

\* A final record never changes again, whatever events and snapshots say later
\* (OrderManager._transition).
TerminalIsFinal ==
  [][\A id \in ClientIds :
       managed[id] # None /\ managed[id].state \in Terminal => managed'[id] = managed[id]]_vars

\* A submission that a crash interrupted does not stay SUBMITTING: the next
\* recovery finds the order or gives it up.
SubmissionResolved ==
  \A id \in ClientIds :
    (managed[id] # None /\ managed[id].state = "SUBMITTING")
      ~> (managed[id] # None /\ managed[id].state # "SUBMITTING")

\* A fill reaches the OrderManager, through the daily reconciliation when
\* nobody consumes the stream.
FillLearned ==
  \A id \in ClientIds, v \in Venues :
    (Holds(saved[v], id) /\ saved[v].orders[id].status = "FILLED")
      ~> (managed[id] # None /\ managed[id].state = "FILLED")
=============================================================================
