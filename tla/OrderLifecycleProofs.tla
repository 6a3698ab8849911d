------------------------ MODULE OrderLifecycleProofs ------------------------
(***************************************************************************)
(* Proofs about OrderLifecycle for every set of client ids, venues and     *)
(* quantities and any number of crashes.                                   *)
(***************************************************************************)
EXTENDS OrderLifecycle, FiniteSetTheorems, WellFoundedInduction, TLAPS

\* The engine: recover() before trading, LIMIT orders only, no stream monitor.
Engine == RecoverOnStart = TRUE /\ MarketIds = {} /\ Monitored = {}

\* The engine starts in EngineInv.
LEMMA InitEngineInv == Init => EngineInv
<1>. SUFFICES ASSUME Init PROVE EngineInv
  OBVIOUS
<1>. USE ConstantsAssumption
<1>1. EmptyBroker \in Broker
  BY DEF EmptyBroker, Broker
<1>2. \A v \in Venues, id \in ClientIds : ~Holds(broker[v], id)
  BY DEF Init, Holds, EmptyBroker
<1>3. TypeOK
  BY <1>1 DEF Init, TypeOK, NoCall
<1>4. SameOrders
  BY <1>2 DEF Init, SameOrders
<1>5. Tracked /\ OneVenue /\ QuantityAgrees
  BY <1>2 DEF Tracked, OneVenue, QuantityAgrees
<1>6. Backed /\ CallInv /\ AckDurable
  BY DEF Init, Backed, CallInv, AckDurable
<1>. QED
  BY <1>3, <1>4, <1>5, <1>6 DEF EngineInv

-----------------------------------------------------------------------------
(* Operators.                                                              *)

\* A record the book does not have is a value None, never an order.
LEMMA OrderIsNotNone ==
  ASSUME NEW b \in Broker, NEW id \in ClientIds, Holds(b, id)
  PROVE  b.orders[id] \in BrokerOrder
BY DEF Broker, Holds

\* PaperAdapter._fill keeps a book a book and changes the status of one order.
LEMMA FillLemma ==
  ASSUME NEW b \in Broker, NEW id \in ClientIds, Holds(b, id)
  PROVE  /\ Fill(b, id) \in Broker
         /\ Fill(b, id).orders = [b.orders EXCEPT ![id] =
                                    [b.orders[id] EXCEPT !.status = "FILLED"]]
<1>1. b.orders[id] \in BrokerOrder
  BY OrderIsNotNone
<1>2. [b.orders[id] EXCEPT !.status = "FILLED"] \in BrokerOrder
  BY <1>1 DEF BrokerOrder
<1>3. Fill(b, id).orders = [b.orders EXCEPT ![id] =
                             [b.orders[id] EXCEPT !.status = "FILLED"]]
  BY DEF Fill
<1>4. Fill(b, id).orders \in [ClientIds -> BrokerOrder \cup {None}]
  BY <1>2, <1>3 DEF Broker
<1>5. Fill(b, id).position \in Int
  BY <1>1, ConstantsAssumption DEF Fill, Broker, BrokerOrder
<1>6. Fill(b, id).fills \in [ClientIds -> Nat]
  BY DEF Fill, Broker
<1>. QED
  BY <1>3, <1>4, <1>5, <1>6 DEF Fill, Broker

\* _transition yields a record, settled when the report is.
LEMMA ApplyLemma ==
  ASSUME NEW rec \in ManagedOrder, NEW order \in BrokerOrder, NEW v \in Venues
  PROVE  /\ Apply(rec, order, v) \in ManagedOrder
         /\ Apply(rec, order, v).quantity = rec.quantity
         /\ Apply(rec, order, v).state \in Settled
BY DEF Apply, Transition, ManagedOrder, BrokerOrder, FilledQuantity, LifecycleState,
       Settled, Terminal

-----------------------------------------------------------------------------
(* Each action keeps EngineInv.                                            *)

\* A submission answered from a settled record only acknowledges it.
LEMMA SubmitSettledStep ==
  ASSUME EngineInv, NEW id \in ClientIds, SubmitSettled(id)
  PROVE  EngineInv'
<1>. USE DEF EngineInv, SubmitSettled
<1>1. TypeOK'
  BY DEF TypeOK
<1>2. \E v \in Venues : Holds(saved[v], id)
  BY DEF Backed
<1>3. AckDurable'
  BY <1>2 DEF AckDurable, Holds
<1>4. (SameOrders /\ Tracked /\ Backed /\ CallInv /\ OneVenue /\ QuantityAgrees)'
  BY DEF SameOrders, Tracked, Backed, CallInv, OneVenue, QuantityAgrees, Holds
<1>. QED
  BY <1>1, <1>3, <1>4

\* A submission begins with a fresh record of its order.
LEMMA SubmitBeginStep ==
  ASSUME EngineInv, NEW id \in ClientIds, NEW v \in Venues, NEW q \in Quantities,
         SubmitBegin(id, v, q)
  PROVE  EngineInv'
<1>. USE DEF EngineInv
<1>1. \A w \in Venues : ~Holds(broker[w], id)
  BY DEF SubmitBegin, Tracked
<1>2. managed' \in [ClientIds -> ManagedOrder \cup {None}]
  BY DEF SubmitBegin, TypeOK, ManagedOrder, LifecycleState
<1>3. managed'[id] = [state |-> "SUBMITTING", quantity |-> q, filled |-> 0, venue |-> None]
  BY DEF SubmitBegin, TypeOK
<1>4. \A i \in ClientIds \ {id} : managed'[i] = managed[i]
  BY DEF SubmitBegin, TypeOK
<1>5. call' = [id |-> id, venue |-> v, quantity |-> q] /\ step' = "prepared"
  BY DEF SubmitBegin
<1>6. UNCHANGED <<broker, saved, quoted, todo, scope, acked, crashes, drops>>
  BY DEF SubmitBegin
<1>7. TypeOK'
  BY <1>2, <1>5, <1>6 DEF TypeOK
<1>8. SameOrders'
  <2>1. broker = saved
    BY DEF SubmitBegin, SameOrders
  <2>. QED
    BY <2>1, <1>5, <1>6 DEF SameOrders, Holds
<1>9. (Tracked /\ OneVenue /\ QuantityAgrees)'
  BY <1>1, <1>4, <1>6 DEF Tracked, OneVenue, QuantityAgrees, Holds, SubmitBegin
<1>10. (Backed /\ AckDurable)'
  <2>1. managed'[id].state \notin Settled
    BY <1>3 DEF Settled, Terminal
  <2>. QED
    BY <2>1, <1>4, <1>6 DEF Backed, AckDurable, Holds
<1>11. CallInv'
  <2>1. managed'[id] # None
    BY <1>3, NoneAssumption DEF ManagedOrder, LifecycleState
  <2>2. call'.id = id /\ call'.venue = v /\ call'.quantity = q
    BY <1>5
  <2>3. managed'[id].quantity = q /\ managed'[id].state = "SUBMITTING"
    BY <1>3
  <2>4. \A w \in Venues : ~Holds(broker'[w], id)
    BY <1>1, <1>6 DEF Holds
  <2>. QED
    BY <2>1, <2>2, <2>3, <2>4, <1>5 DEF CallInv
<1>. QED
  BY <1>7, <1>8, <1>9, <1>10, <1>11

\* The venue never sees the same id twice.
LEMMA VenueRepeatsStep ==
  ASSUME EngineInv, VenueRepeats
  PROVE  EngineInv'
\* A prepared id is at no venue.
BY DEF EngineInv, VenueRepeats, CallInv

\* The venue takes the order into its book.
LEMMA VenueAcceptsStep ==
  ASSUME EngineInv, MarketIds = {}, VenueAccepts
  PROVE  EngineInv'
<1>. USE DEF EngineInv
<1>. DEFINE v == call.venue
            id == call.id
            order == [status |-> "OPEN", quantity |-> call.quantity]
            b == [broker[v] EXCEPT !.orders[id] = order]
<1>1. step = "prepared" /\ step' = "accepted"
  BY DEF VenueAccepts
<1>2. v \in Venues /\ id \in ClientIds /\ managed[id] # None
      /\ managed[id].state = "SUBMITTING" /\ managed[id].quantity = call.quantity
  BY <1>1 DEF CallInv
<1>3. broker' = [broker EXCEPT ![v] = b] /\ saved' = [saved EXCEPT ![v] = b]
  BY DEF VenueAccepts, Persist
<1>4. UNCHANGED <<managed, quoted, call, todo, scope, acked, crashes, drops>>
  BY DEF VenueAccepts
<1>5. order \in BrokerOrder
  BY <1>2 DEF TypeOK, ManagedOrder, BrokerOrder
<1>6. b \in Broker /\ b.orders = [broker[v].orders EXCEPT ![id] = order]
  <2>1. broker[v] \in Broker
    BY <1>2 DEF TypeOK
  <2>. QED
    BY <1>2, <1>5, <2>1 DEF Broker
<1>7. broker' \in [Venues -> Broker] /\ saved' \in [Venues -> Broker]
  BY <1>3, <1>6 DEF TypeOK
<1>8. TypeOK'
  BY <1>1, <1>4, <1>7 DEF TypeOK
<1>9. broker' = saved'
  BY <1>1, <1>3 DEF SameOrders
<1>10. SameOrders'
  BY <1>1, <1>9 DEF SameOrders
<1>11. \A w \in Venues, i \in ClientIds :
          broker'[w].orders[i] = IF w = v /\ i = id THEN order ELSE broker[w].orders[i]
  <2>1. broker[v] \in Broker
    BY <1>2 DEF TypeOK
  <2>. QED
    BY <1>2, <1>3, <1>6, <2>1 DEF TypeOK, Broker
<1>12. order # None
  BY <1>5, NoneAssumption
<1>13. \A w \in Venues, i \in ClientIds :
          Holds(broker'[w], i) <=> Holds(broker[w], i) \/ (w = v /\ i = id)
  BY <1>11, <1>12 DEF Holds
<1>14. \A w \in Venues : ~Holds(broker[w], id)
  BY <1>1, <1>2 DEF CallInv
<1>15. Tracked'
  BY <1>1, <1>2, <1>4, <1>13 DEF Tracked
<1>16. OneVenue'
  BY <1>13, <1>14 DEF OneVenue
<1>17. QuantityAgrees'
  BY <1>2, <1>4, <1>11, <1>13 DEF QuantityAgrees
<1>18. \A w \in Venues, i \in ClientIds : Holds(saved[w], i) => Holds(saved'[w], i)
  BY <1>9, <1>13 DEF SameOrders
<1>19. (Backed /\ AckDurable)'
  BY <1>4, <1>18 DEF Backed, AckDurable, TypeOK
<1>20. CallInv'
  BY <1>1, <1>2, <1>4, <1>13 DEF CallInv
<1>. QED
  BY <1>8, <1>10, <1>15, <1>16, <1>17, <1>19, <1>20

\* The acknowledgement is recorded under the venue that gave it.
LEMMA SubmitAcknowledgedStep ==
  ASSUME EngineInv, SubmitAcknowledged
  PROVE  EngineInv'
<1>. USE DEF EngineInv
<1>. DEFINE id == call.id
            rec == Transition(managed[id], "ACKNOWLEDGED", managed[id].filled, call.venue)
<1>1. step = "accepted" /\ step' = "idle" /\ call' = NoCall /\ acked' = acked \cup {id}
  BY DEF SubmitAcknowledged
<1>2. id \in ClientIds /\ call.venue \in Venues /\ managed[id] # None
      /\ managed[id].state = "SUBMITTING" /\ Holds(broker[call.venue], id)
  BY <1>1 DEF CallInv
<1>3. managed' = [managed EXCEPT ![id] = rec]
  BY DEF SubmitAcknowledged
<1>4. UNCHANGED <<broker, saved, quoted, todo, scope, crashes, drops>>
  BY DEF SubmitAcknowledged
<1>5. rec \in ManagedOrder /\ rec.quantity = managed[id].quantity
      /\ rec.state = "ACKNOWLEDGED"
  <2>1. managed[id] \in ManagedOrder
    BY <1>2 DEF TypeOK
  <2>2. rec = [managed[id] EXCEPT !.state = "ACKNOWLEDGED", !.filled = managed[id].filled,
                                  !.venue = call.venue]
    BY <1>2 DEF Transition, Terminal
  <2>. QED
    BY <1>2, <2>1, <2>2 DEF ManagedOrder, LifecycleState, Settled
<1>6. rec # None
  BY <1>5, NoneAssumption
<1>7. managed'[id] = rec /\ \A i \in ClientIds \ {id} : managed'[i] = managed[i]
  BY <1>2, <1>3 DEF TypeOK
<1>8. TypeOK'
  BY <1>1, <1>2, <1>3, <1>4, <1>5 DEF TypeOK, NoCall
<1>9. broker = saved
  BY <1>1 DEF SameOrders
<1>10. SameOrders'
  BY <1>1, <1>4, <1>9 DEF SameOrders
<1>11. (Tracked /\ QuantityAgrees /\ OneVenue)'
  BY <1>1, <1>4, <1>5, <1>6, <1>7 DEF Tracked, QuantityAgrees, OneVenue, Holds, Settled
<1>12. (Backed /\ AckDurable)'
  BY <1>1, <1>2, <1>4, <1>7, <1>9 DEF Backed, AckDurable, Holds
<1>13. CallInv'
  BY <1>1 DEF CallInv
<1>. QED
  BY <1>8, <1>10, <1>11, <1>12, <1>13

\* A quote fills orders of its venue at the adapter.
LEMMA UpdateQuoteStep ==
  ASSUME EngineInv, NEW v \in Venues, UpdateQuote(v)
  PROVE  EngineInv'
<1>. USE DEF EngineInv, UpdateQuote
<1>1. call'.venue = v /\ step' = "matching"
  BY DEF NoCall
<1>2. TypeOK'
  BY DEF TypeOK, NoCall
<1>3. SameOrders'
  BY <1>1 DEF SameOrders, Holds
<1>4. (Tracked /\ Backed /\ OneVenue /\ QuantityAgrees /\ AckDurable)'
  BY <1>1 DEF Tracked, Backed, OneVenue, QuantityAgrees, AckDurable, Holds
<1>5. CallInv'
  BY <1>1 DEF CallInv
<1>. QED
  BY <1>2, <1>3, <1>4, <1>5

\* A fill in memory leaves every book with the orders it had.
LEMMA MatchFillStep ==
  ASSUME EngineInv, NEW id \in ClientIds, MatchFill(id)
  PROVE  EngineInv'
<1>. USE DEF EngineInv
<1>. DEFINE v == call.venue
            filled == [broker[v].orders[id] EXCEPT !.status = "FILLED"]
<1>1. step = "matching" /\ v \in Venues
  BY DEF MatchFill, CallInv
<1>2. broker[v] \in Broker /\ Holds(broker[v], id) /\ broker[v].orders[id].status = "OPEN"
  BY <1>1 DEF TypeOK, MatchFill, Resting
<1>3. /\ broker' = [broker EXCEPT ![v] = Fill(broker[v], id)]
      /\ UNCHANGED <<managed, saved, quoted, step, call, todo, scope, acked, crashes, drops>>
  BY DEF MatchFill
<1>4. Fill(broker[v], id) \in Broker
      /\ Fill(broker[v], id).orders = [broker[v].orders EXCEPT ![id] = filled]
  BY <1>2, FillLemma
<1>5. TypeOK'
  BY <1>1, <1>3, <1>4 DEF TypeOK
<1>6. \A w \in Venues, i \in ClientIds :
         broker'[w].orders[i] = IF w = v /\ i = id THEN filled ELSE broker[w].orders[i]
  BY <1>1, <1>2, <1>3, <1>4 DEF TypeOK, Broker
<1>7. broker[v].orders[id] \in BrokerOrder
  BY <1>2, OrderIsNotNone
<1>8. filled \in BrokerOrder /\ filled.quantity = broker[v].orders[id].quantity
  BY <1>7 DEF BrokerOrder
<1>9. \A w \in Venues, i \in ClientIds : Holds(broker'[w], i) <=> Holds(broker[w], i)
  BY <1>2, <1>6, <1>8, NoneAssumption DEF Holds
<1>10. broker[v].orders[id] = saved[v].orders[id]
  <2>1. \/ broker[v].orders[id] = saved[v].orders[id]
        \/ broker[v].orders[id] = [saved[v].orders[id] EXCEPT !.status = "FILLED"]
    BY <1>1, <1>2 DEF SameOrders
  <2>2. Holds(saved[v], id) /\ saved[v] \in Broker
    BY <1>1, <1>2 DEF SameOrders, TypeOK
  <2>3. saved[v].orders[id] \in BrokerOrder
    BY <2>2, OrderIsNotNone
  <2>4. [saved[v].orders[id] EXCEPT !.status = "FILLED"].status = "FILLED"
    BY <2>3 DEF BrokerOrder
  <2>. QED
    BY <2>1, <2>4, <1>2
<1>11. SameOrders'
  <2>1. \A w \in Venues \ {v} : broker'[w] = broker[w]
    BY <1>3 DEF TypeOK
  <2>2. ASSUME NEW w \in Venues, NEW i \in ClientIds, Holds(broker'[w], i)
        PROVE  \/ broker'[w].orders[i] = saved[w].orders[i]
               \/ /\ saved[w].orders[i].status = "OPEN"
                  /\ broker'[w].orders[i] = [saved[w].orders[i] EXCEPT !.status = "FILLED"]
    <3>1. CASE w = v /\ i = id
      BY <3>1, <1>2, <1>6, <1>10
    <3>2. CASE ~(w = v /\ i = id)
      BY <3>2, <2>2, <1>6, <1>9 DEF SameOrders
    <3>. QED
      BY <3>1, <3>2
  <2>3. \A w \in Venues, i \in ClientIds : Holds(broker'[w], i) <=> Holds(saved[w], i)
    BY <1>9 DEF SameOrders
  <2>. QED
    BY <1>1, <1>3, <2>1, <2>2, <2>3 DEF SameOrders
<1>12. (Tracked /\ OneVenue)'
  BY <1>3, <1>9 DEF Tracked, OneVenue
<1>13. QuantityAgrees'
  <2>1. \A w \in Venues, i \in ClientIds :
           broker'[w].orders[i].quantity = broker[w].orders[i].quantity
    BY <1>6, <1>8
  <2>. QED
    BY <1>3, <1>9, <2>1 DEF QuantityAgrees
<1>14. (Backed /\ AckDurable)'
  BY <1>3 DEF Backed, AckDurable, Holds
<1>15. CallInv'
  BY <1>1, <1>3 DEF CallInv
<1>. QED
  BY <1>5, <1>11, <1>12, <1>13, <1>14, <1>15

\* What a quote filled is saved.
LEMMA UpdateQuoteSavedStep ==
  ASSUME EngineInv, UpdateQuoteSaved
  PROVE  EngineInv'
<1>. USE DEF EngineInv
<1>. DEFINE v == call.venue
<1>1. step = "matching" /\ v \in Venues /\ step' = "idle" /\ call' = NoCall
  BY DEF UpdateQuoteSaved, CallInv
<1>2. broker' = broker /\ saved' = [saved EXCEPT ![v] = broker[v]]
  BY <1>1 DEF UpdateQuoteSaved, Persist, TypeOK
<1>3. UNCHANGED <<managed, quoted, todo, scope, acked, crashes, drops>>
  BY DEF UpdateQuoteSaved
<1>4. saved' = broker
  BY <1>1, <1>2 DEF SameOrders, TypeOK
<1>5. TypeOK'
  BY <1>1, <1>2, <1>3, <1>4 DEF TypeOK, NoCall
<1>6. SameOrders'
  BY <1>1, <1>2, <1>4 DEF SameOrders
<1>7. (Tracked /\ OneVenue /\ QuantityAgrees)'
  BY <1>1, <1>2, <1>3 DEF Tracked, OneVenue, QuantityAgrees, Holds
<1>8. (Backed /\ AckDurable)'
  BY <1>3, <1>4 DEF Backed, AckDurable, SameOrders, TypeOK
<1>9. CallInv'
  BY <1>1 DEF CallInv
<1>. QED
  BY <1>5, <1>6, <1>7, <1>8, <1>9

\* A cancellation ends an order that was open.
LEMMA CancelStep ==
  ASSUME EngineInv, NEW v \in Venues, NEW id \in ClientIds, Cancel(v, id)
  PROVE  EngineInv'
<1>. USE DEF EngineInv
<1>. DEFINE order == [broker[v].orders[id] EXCEPT !.status = "CANCELED"]
            b == [broker[v] EXCEPT !.orders[id].status = "CANCELED"]
<1>1. step = "idle" /\ Holds(broker[v], id)
  BY DEF Cancel
<1>2. broker' = [broker EXCEPT ![v] = b] /\ saved' = [saved EXCEPT ![v] = b]
  BY DEF Cancel, Persist
<1>3. UNCHANGED <<managed, quoted, step, call, todo, scope, acked, crashes, drops>>
  BY DEF Cancel
<1>4. broker[v] \in Broker
  BY DEF TypeOK
<1>5. broker[v].orders[id] \in BrokerOrder
  BY <1>1, <1>4, OrderIsNotNone
<1>6. order \in BrokerOrder /\ order.quantity = broker[v].orders[id].quantity
  BY <1>5 DEF BrokerOrder
<1>7. b.orders = [broker[v].orders EXCEPT ![id] = order] /\ b \in Broker
  BY <1>4, <1>6 DEF Broker
<1>8. TypeOK'
  BY <1>2, <1>3, <1>7 DEF TypeOK
<1>9. broker' = saved'
  BY <1>1, <1>2 DEF SameOrders
<1>10. SameOrders'
  BY <1>1, <1>3, <1>9 DEF SameOrders
<1>11. \A w \in Venues, i \in ClientIds :
          broker'[w].orders[i] = IF w = v /\ i = id THEN order ELSE broker[w].orders[i]
  BY <1>2, <1>4, <1>7 DEF TypeOK, Broker
<1>12. \A w \in Venues, i \in ClientIds : Holds(broker'[w], i) <=> Holds(broker[w], i)
  BY <1>1, <1>6, <1>11, NoneAssumption DEF Holds
<1>13. \A w \in Venues, i \in ClientIds :
          broker'[w].orders[i].quantity = broker[w].orders[i].quantity
  BY <1>6, <1>11
<1>14. (Tracked /\ OneVenue /\ QuantityAgrees)'
  BY <1>3, <1>12, <1>13 DEF Tracked, OneVenue, QuantityAgrees
<1>15. \A w \in Venues, i \in ClientIds : Holds(saved[w], i) => Holds(saved'[w], i)
  BY <1>9, <1>12 DEF SameOrders
<1>16. (Backed /\ AckDurable)'
  BY <1>3, <1>15 DEF Backed, AckDurable, TypeOK
<1>17. CallInv'
  BY <1>1, <1>3 DEF CallInv
<1>. QED
  BY <1>8, <1>10, <1>14, <1>16, <1>17

\* A reconciliation takes up every record.
LEMMA ReconcileAllStep ==
  ASSUME EngineInv, ReconcileAll
  PROVE  EngineInv'
<1>. USE DEF EngineInv, ReconcileAll, ReconcileBegin, volatile
<1>1. TypeOK'
  BY DEF TypeOK
<1>2. SameOrders'
  BY DEF SameOrders, Holds
<1>3. (Tracked /\ Backed /\ OneVenue /\ QuantityAgrees /\ AckDurable)'
  BY DEF Tracked, Backed, OneVenue, QuantityAgrees, AckDurable, Holds
<1>4. CallInv'
  BY DEF CallInv
<1>. QED
  BY <1>1, <1>2, <1>3, <1>4

\* It takes the state of one record from the history of the venues.
LEMMA ReconcileOrderStep ==
  ASSUME EngineInv, NEW id \in ClientIds, ReconcileOrder(id)
  PROVE  EngineInv'
<1>. USE DEF EngineInv
<1>1. /\ step = "reconciling" /\ id \in todo /\ todo' = todo \ {id}
      /\ UNCHANGED <<broker, saved, quoted, step, call, scope, acked, crashes, drops>>
  BY DEF ReconcileOrder, volatile
<1>2. scope = Venues /\ managed[id] # None
  BY <1>1 DEF CallInv
<1>3. managed[id] \in ManagedOrder
  BY <1>2 DEF TypeOK
<1>4. broker = saved
  BY <1>1 DEF SameOrders
\* Either the record becomes settled with an order behind it, or no venue has it.
<1>5. /\ managed'[id] \in ManagedOrder
      /\ managed'[id].quantity = managed[id].quantity
      /\ managed' = [managed EXCEPT ![id] = managed'[id]]
      /\ \/ /\ managed'[id].state \in Settled
            /\ \E v \in Venues : Holds(broker[v], id)
         \/ /\ managed'[id].state \notin Settled \/ managed'[id].state = managed[id].state
            /\ \A v \in Venues : ~Holds(broker[v], id)
  <2>1. CASE \E v \in scope :
               /\ Holds(broker[v], id)
               /\ managed' = [managed EXCEPT ![id] = Apply(@, broker[v].orders[id], v)]
    <3>1. PICK v \in Venues :
             /\ Holds(broker[v], id)
             /\ managed' = [managed EXCEPT ![id] = Apply(@, broker[v].orders[id], v)]
      BY <2>1, <1>2
    <3>2. broker[v].orders[id] \in BrokerOrder
      BY <3>1, OrderIsNotNone DEF TypeOK
    <3>3. managed'[id] = Apply(managed[id], broker[v].orders[id], v)
      BY <3>1 DEF TypeOK
    <3>4. managed' = [managed EXCEPT ![id] = managed'[id]]
      <4>1. managed' = [managed EXCEPT ![id] = Apply(managed[id], broker[v].orders[id], v)]
        BY <3>1
      <4>. QED
        BY <3>3, <4>1
    <3>5. /\ managed'[id] \in ManagedOrder
          /\ managed'[id].quantity = managed[id].quantity
          /\ managed'[id].state \in Settled
      BY <1>3, <3>2, <3>3, ApplyLemma
    <3>. QED
      BY <3>1, <3>4, <3>5
  <2>2. CASE /\ \A v \in scope : ~Holds(broker[v], id)
             /\ managed' = IF managed[id].state \in InFlight
                             THEN [managed EXCEPT ![id].state = "UNKNOWN"]
                             ELSE managed
    <3>1. CASE managed[id].state \in InFlight
      <4>1. managed' = [managed EXCEPT ![id] = [managed[id] EXCEPT !.state = "UNKNOWN"]]
        BY <2>2, <3>1
      <4>2. managed'[id] = [managed[id] EXCEPT !.state = "UNKNOWN"]
        BY <4>1 DEF TypeOK
      <4>3. managed'[id].state = "UNKNOWN" /\ managed'[id].quantity = managed[id].quantity
            /\ managed'[id] \in ManagedOrder
        BY <1>3, <4>2 DEF ManagedOrder, LifecycleState
      <4>. QED
        BY <1>2, <2>2, <4>1, <4>2, <4>3 DEF Settled, Terminal
    <3>2. CASE managed[id].state \notin InFlight
      BY <1>2, <1>3, <2>2, <3>2 DEF TypeOK
    <3>. QED
      BY <3>1, <3>2
  <2>. QED
    BY <2>1, <2>2 DEF ReconcileOrder
<1>6. managed'[id] # None /\ \A i \in ClientIds \ {id} : managed'[i] = managed[i]
  BY <1>5, NoneAssumption DEF TypeOK
<1>7. TypeOK'
  BY <1>1, <1>5 DEF TypeOK
<1>8. SameOrders'
  BY <1>1, <1>4 DEF SameOrders
<1>9. (Tracked /\ OneVenue /\ QuantityAgrees)'
  BY <1>1, <1>5, <1>6 DEF Tracked, OneVenue, QuantityAgrees, Holds
<1>10. (Backed /\ AckDurable)'
  BY <1>1, <1>2, <1>4, <1>5, <1>6 DEF Backed, AckDurable, Holds
<1>11. CallInv'
  BY <1>1, <1>6 DEF CallInv
<1>. QED
  BY <1>7, <1>8, <1>9, <1>10, <1>11

\* It ends when none is left.
LEMMA ReconcileEndStep ==
  ASSUME EngineInv, ReconcileEnd
  PROVE  EngineInv'
<1>. USE DEF EngineInv, ReconcileEnd, volatile
<1>1. TypeOK'
  BY DEF TypeOK
<1>2. SameOrders'
  BY DEF SameOrders, Holds
<1>3. (Tracked /\ Backed /\ OneVenue /\ QuantityAgrees /\ AckDurable)'
  BY DEF Tracked, Backed, OneVenue, QuantityAgrees, AckDurable, Holds
<1>4. CallInv'
  BY DEF CallInv
<1>. QED
  BY <1>1, <1>2, <1>3, <1>4

\* A process death loses what was not saved.
LEMMA CrashStep ==
  ASSUME EngineInv, Crash
  PROVE  EngineInv'
<1>. USE DEF EngineInv, Crash, volatile
<1>1. TypeOK'
  BY ConstantsAssumption DEF TypeOK, NoCall
<1>2. SameOrders'
  BY DEF SameOrders, Holds
<1>3. (Tracked /\ Backed /\ OneVenue /\ QuantityAgrees /\ AckDurable)'
  BY DEF Tracked, Backed, OneVenue, QuantityAgrees, AckDurable, Holds
<1>4. CallInv'
  BY DEF CallInv
<1>. QED
  BY <1>1, <1>2, <1>3, <1>4

\* What makes the restart safe: recovery has every record on its list.
LEMMA RestartStep ==
  ASSUME EngineInv, RecoverOnStart = TRUE, Restart
  PROVE  EngineInv'
<1>. USE DEF EngineInv
<1>1. /\ step = "down" /\ step' = "reconciling" /\ broker' = saved
      /\ todo' = {id \in ClientIds : managed[id] # None} /\ scope' = Venues
      /\ quoted' = [v \in Venues |-> FALSE]
      /\ UNCHANGED <<managed, saved, call, acked, crashes, drops>>
  BY DEF Restart, ReconcileBegin
<1>2. TypeOK'
  BY <1>1 DEF TypeOK
<1>3. SameOrders'
  BY <1>1 DEF SameOrders
<1>4. \A v \in Venues, id \in ClientIds : Holds(broker'[v], id) <=> Holds(broker[v], id)
  BY <1>1 DEF SameOrders
<1>5. (Tracked /\ OneVenue)'
  BY <1>1, <1>4 DEF Tracked, OneVenue
<1>6. QuantityAgrees'
  <2>1. ASSUME NEW v \in Venues, NEW id \in ClientIds, Holds(saved[v], id)
        PROVE  saved[v].orders[id].quantity = broker[v].orders[id].quantity
    <3>1. saved[v].orders[id] \in BrokerOrder
      BY <2>1, OrderIsNotNone DEF TypeOK
    <3>2. [saved[v].orders[id] EXCEPT !.status = "FILLED"].quantity
            = saved[v].orders[id].quantity
      BY <3>1 DEF BrokerOrder
    <3>. QED
      BY <2>1, <3>2 DEF SameOrders
  <2>. QED
    BY <1>1, <1>4, <2>1 DEF QuantityAgrees
<1>7. (Backed /\ AckDurable)'
  BY <1>1 DEF Backed, AckDurable, Holds
<1>8. CallInv'
  BY <1>1 DEF CallInv
<1>. QED
  BY <1>2, <1>3, <1>5, <1>6, <1>7, <1>8

\* No step of the engine breaks EngineInv.
LEMMA NextEngineInv ==
  ASSUME Engine, EngineInv, [Next]_vars
  PROVE  EngineInv'
<1>. USE DEF Engine
<1>1. CASE Submit
  <2>1. ~VenueRaises
    BY DEF VenueRaises
  <2>. QED
    BY <1>1, <2>1, SubmitSettledStep, SubmitBeginStep, VenueRepeatsStep, VenueAcceptsStep,
       SubmitAcknowledgedStep DEF Submit
<1>2. CASE Market
  BY <1>2, UpdateQuoteStep, MatchFillStep, UpdateQuoteSavedStep, CancelStep DEF Market
<1>3. CASE Reconcile
  BY <1>3, ReconcileAllStep, ReconcileOrderStep, ReconcileEndStep DEF Reconcile
<1>4. CASE Stream
  BY <1>4 DEF Stream, ProcessEvent, DropStream, StreamBroken
<1>5. CASE Crash
  BY <1>5, CrashStep
<1>6. CASE Restart
  BY <1>6, RestartStep
<1>7. CASE UNCHANGED vars
  BY <1>7 DEF vars, EngineInv, TypeOK, SameOrders, Tracked, Backed, CallInv, OneVenue,
     QuantityAgrees, AckDurable, Holds
<1>. QED
  BY <1>1, <1>2, <1>3, <1>4, <1>5, <1>6, <1>7 DEF Next

-----------------------------------------------------------------------------
(* The theorems.                                                           *)

\* The engine's order path keeps its inductive invariant whatever the order of
\* submits, quotes, reconciliations and process deaths.
THEOREM EngineInvariant ==
  ASSUME Engine
  PROVE  Spec => []EngineInv
<1>1. Init => EngineInv
  BY InitEngineInv
<1>2. EngineInv /\ [Next]_vars => EngineInv'
  BY NextEngineInv
<1>. QED
  BY <1>1, <1>2, PTL DEF Spec

\* Every variable of the order path keeps its type.
THEOREM TypeCorrect ==
  ASSUME Engine
  PROVE  Spec => []TypeOK
BY EngineInvariant, PTL DEF EngineInv

\* A client order id never rests at two venues, although the retry after a
\* crash may be routed to another venue (OrderManager.submit, recover).
THEOREM SingleVenue ==
  ASSUME Engine
  PROVE  Spec => []OneVenue
BY EngineInvariant, PTL DEF EngineInv

\* The OrderManager's quantity is the venue's, although the retry after a
\* crash may be sized differently.
THEOREM SingleQuantity ==
  ASSUME Engine
  PROVE  Spec => []QuantityAgrees
BY EngineInvariant, PTL DEF EngineInv

\* An acknowledged order survives every crash on some venue's disk.
THEOREM AcknowledgedIsDurable ==
  ASSUME Engine
  PROVE  Spec => []AckDurable
BY EngineInvariant, PTL DEF EngineInv

-----------------------------------------------------------------------------
(* The refinement.                                                         *)

Entry(order, v) == [venue |-> v, quantity |-> order.quantity, status |-> order.status]

\* The entry of an id is that of the one venue that has it, if there is one.
Shown ==
  \A id \in ClientIds :
    /\ \A v \in Venues : Holds(saved[v], id) => SavedOrder(id) = Entry(saved[v].orders[id], v)
    /\ (\A v \in Venues : ~Holds(saved[v], id)) => SavedOrder(id) = None

\* As no id is at two venues.
LEMMA EntriesAreShown == EngineInv => Shown
<1>. SUFFICES ASSUME EngineInv, NEW id \in ClientIds
              PROVE  /\ \A v \in Venues : Holds(saved[v], id) =>
                          SavedOrder(id) = Entry(saved[v].orders[id], v)
                     /\ (\A v \in Venues : ~Holds(saved[v], id)) => SavedOrder(id) = None
  BY DEF Shown
<1>1. \A v, w \in Venues : Holds(saved[v], id) /\ Holds(saved[w], id) => v = w
  BY DEF EngineInv, SameOrders, OneVenue
<1>2. ASSUME NEW v \in Venues, Holds(saved[v], id)
      PROVE  SavedOrder(id) = Entry(saved[v].orders[id], v)
  <2>1. v = CHOOSE w \in Venues : Holds(saved[w], id)
    BY <1>1, <1>2
  <2>. QED
    BY <1>2, <2>1 DEF SavedOrder, Entry
<1>. QED
  BY <1>2 DEF SavedOrder

\* What is the same on disk is the same in the registry.
LEMMA SameEntries ==
  ASSUME UNCHANGED saved
  PROVE  UNCHANGED [id \in ClientIds |-> SavedOrder(id)]
BY DEF SavedOrder, Holds

\* Saving a new order places it.
LEMMA AcceptingPlaces ==
  ASSUME EngineInv, Shown, Shown', MarketIds = {}, VenueAccepts
  PROVE  Registry!Next
<1>1. step = "prepared" /\ call.venue \in Venues /\ call.id \in ClientIds
  BY DEF VenueAccepts, EngineInv, CallInv
<1>a. PICK v \in Venues, i \in ClientIds : v = call.venue /\ i = call.id
  BY <1>1
<1>2. saved[v] \in Broker /\ managed[i] \in ManagedOrder /\ managed[i].quantity = call.quantity
  BY <1>1, <1>a DEF EngineInv, CallInv, TypeOK
<1>b. PICK order \in BrokerOrder : order = [status |-> "OPEN", quantity |-> call.quantity]
  BY <1>2 DEF ManagedOrder, BrokerOrder
<1>3. order # None /\ order.status = "OPEN"
  BY <1>b, NoneAssumption
<1>4. saved = broker
  BY <1>1 DEF EngineInv, SameOrders
<1>5. saved' = [saved EXCEPT ![v] = [saved[v] EXCEPT !.orders[i] = order]]
  BY <1>4, <1>a, <1>b DEF VenueAccepts, Persist
<1>6. \A w \in Venues, id \in ClientIds :
         saved'[w].orders[id] = IF w = v /\ id = i THEN order ELSE saved[w].orders[id]
  BY <1>1, <1>2, <1>5 DEF EngineInv, TypeOK, Broker
<1>7. \A w \in Venues : ~Holds(saved[w], i)
  BY <1>1, <1>4, <1>a DEF EngineInv, CallInv
<1>8. SavedOrder(i) = None /\ SavedOrder(i)' = Entry(order, v)
  <2>1. Holds(saved'[v], i) /\ saved'[v].orders[i] = order
    BY <1>1, <1>3, <1>6 DEF Holds
  <2>2. \A w \in Venues : Holds(saved'[w], i) => SavedOrder(i)' = Entry(saved'[w].orders[i], w)
    BY <1>1 DEF Shown, Holds, Entry
  <2>3. SavedOrder(i)' = Entry(order, v)
    BY <1>1, <2>1, <2>2
  <2>4. SavedOrder(i) = None
    BY <1>1, <1>7 DEF Shown
  <2>. QED
    BY <2>3, <2>4
<1>9. ASSUME NEW id \in ClientIds \ {i} PROVE SavedOrder(id)' = SavedOrder(id)
  <2>1. \A w \in Venues : saved'[w].orders[id] = saved[w].orders[id]
    BY <1>6
  <2>2. \A w \in Venues : Holds(saved'[w], id) <=> Holds(saved[w], id)
    BY <2>1 DEF Holds
  <2>3. CASE \E w \in Venues : Holds(saved[w], id)
    BY <2>1, <2>2, <2>3 DEF Shown, Holds
  <2>4. CASE \A w \in Venues : ~Holds(saved[w], id)
    BY <2>2, <2>4 DEF Shown, Holds
  <2>. QED
    BY <2>3, <2>4
<1>10. Entry(order, v) \in Registry!Placed /\ Entry(order, v).status = "OPEN"
  BY <1>1, <1>3 DEF Entry, Registry!Placed, BrokerOrder
<1>11. [id \in ClientIds |-> SavedOrder(id)]'
         = [[id \in ClientIds |-> SavedOrder(id)] EXCEPT ![i] = Entry(order, v)]
  BY <1>8, <1>9
<1>12. [id \in ClientIds |-> SavedOrder(id)][i] = None
  BY <1>1, <1>8
<1>13. Registry!Place(i)
  BY <1>10, <1>11, <1>12 DEF Registry!Place
<1>. QED
  BY <1>1, <1>13 DEF Registry!Next
\* A save that gives some open orders a final status, and changes no other,
\* finishes those.
LEMMA SavingFinishes ==
  ASSUME saved \in [Venues -> Broker], Shown, Shown',
         NEW ids \in SUBSET ClientIds, NEW status \in {"FILLED", "CANCELED"},
         \A w \in Venues, id \in ClientIds : Holds(saved'[w], id) <=> Holds(saved[w], id),
         \A w \in Venues, id \in ClientIds :
           Holds(saved[w], id) =>
             saved'[w].orders[id] = IF id \in ids
                                      THEN [saved[w].orders[id] EXCEPT !.status = status]
                                      ELSE saved[w].orders[id],
         \A id \in ids : \E w \in Venues :
           Holds(saved[w], id) /\ saved[w].orders[id].status = "OPEN"
  PROVE  Registry!Next
<1>. DEFINE placed == [id \in ClientIds |-> SavedOrder(id)]
<1>1. ASSUME NEW id \in ids PROVE placed[id] # None /\ placed[id].status = "OPEN"
  <2>1. PICK w \in Venues : Holds(saved[w], id) /\ saved[w].orders[id].status = "OPEN"
    OBVIOUS
  <2>2. SavedOrder(id) = Entry(saved[w].orders[id], w)
    BY <2>1 DEF Shown
  <2>3. saved[w].orders[id] \in BrokerOrder
    BY <2>1, OrderIsNotNone
  <2>4. Entry(saved[w].orders[id], w) \in Registry!Placed
    BY <2>3 DEF Entry, Registry!Placed, BrokerOrder
  <2>. QED
    BY <2>1, <2>2, <2>4, RegistryAssumption DEF Entry
<1>2. ASSUME NEW id \in ClientIds
      PROVE  SavedOrder(id)' = IF id \in ids THEN [SavedOrder(id) EXCEPT !.status = status]
                                             ELSE SavedOrder(id)
  <2>1. CASE \E w \in Venues : Holds(saved[w], id)
    <3>1. PICK w \in Venues : Holds(saved[w], id)
      BY <2>1
    <3>2. SavedOrder(id) = Entry(saved[w].orders[id], w)
      BY <3>1 DEF Shown
    <3>3. SavedOrder(id)' = Entry(saved'[w].orders[id], w)
      BY <3>1 DEF Shown, Holds, Entry
    <3>4. saved[w].orders[id] \in BrokerOrder
      BY <3>1, OrderIsNotNone
    <3>5. Entry([saved[w].orders[id] EXCEPT !.status = status], w)
            = [Entry(saved[w].orders[id], w) EXCEPT !.status = status]
      BY <3>4 DEF Entry, BrokerOrder
    <3>. QED
      BY <3>1, <3>2, <3>3, <3>5
  <2>2. CASE \A w \in Venues : ~Holds(saved[w], id)
    <3>1. SavedOrder(id) = None
      BY <2>2 DEF Shown
    <3>2. SavedOrder(id)' = None
      BY <2>2 DEF Shown, Holds
    <3>3. id \notin ids
      BY <2>2
    <3>. QED
      BY <3>1, <3>2, <3>3
  <2>. QED
    BY <2>1, <2>2
<1>3. placed' = [id \in ClientIds |->
                   IF id \in ids THEN [placed[id] EXCEPT !.status = status] ELSE placed[id]]
  BY <1>2
<1>4. Registry!Finish(ids, status)
  BY <1>1, <1>3 DEF Registry!Finish
<1>. QED
  BY <1>4 DEF Registry!Next

\* The one save at the end of a quote finishes the orders that filled since.
LEMMA MatchingFinishes ==
  ASSUME EngineInv, Shown, Shown', UpdateQuoteSaved
  PROVE  Registry!Next
<1>1. PICK v \in Venues : v = call.venue
  BY DEF UpdateQuoteSaved, EngineInv, CallInv
<1>2. saved \in [Venues -> Broker] /\ broker \in [Venues -> Broker]
  BY DEF EngineInv, TypeOK
<1>3. saved' = broker
  BY <1>1, <1>2 DEF UpdateQuoteSaved, Persist, EngineInv, SameOrders
<1>4. \A w \in Venues, id \in ClientIds : Holds(saved'[w], id) <=> Holds(saved[w], id)
  BY <1>3 DEF EngineInv, SameOrders
<1>. DEFINE Fills(w, id) == /\ Holds(saved[w], id) /\ saved[w].orders[id].status = "OPEN"
                            /\ saved'[w].orders[id] # saved[w].orders[id]
            ids == {id \in ClientIds : \E w \in Venues : Fills(w, id)}
<1>5. \A id \in ids : \E w \in Venues :
         Holds(saved[w], id) /\ saved[w].orders[id].status = "OPEN"
  OBVIOUS
<1>6. ASSUME NEW w \in Venues, NEW id \in ClientIds, Holds(saved[w], id)
      PROVE  saved'[w].orders[id] = IF id \in ids
                                      THEN [saved[w].orders[id] EXCEPT !.status = "FILLED"]
                                      ELSE saved[w].orders[id]
  <2>1. \/ saved'[w].orders[id] = saved[w].orders[id]
        \/ /\ saved[w].orders[id].status = "OPEN"
           /\ saved'[w].orders[id] = [saved[w].orders[id] EXCEPT !.status = "FILLED"]
    BY <1>3, <1>6 DEF EngineInv, SameOrders
  <2>2. \A u \in Venues : Holds(saved[u], id) => u = w
    BY <1>6 DEF EngineInv, SameOrders, OneVenue
  <2>3. id \in ids <=> Fills(w, id)
    BY <2>2
  <2>. QED
    BY <1>6, <2>1, <2>3
<1>. HIDE DEF ids
<1>7. ids \in SUBSET ClientIds
  BY DEF ids
<1>8. PICK finished \in SUBSET ClientIds : finished = ids
  BY <1>7
<1>. QED
  BY <1>2, <1>4, <1>5, <1>6, <1>8, SavingFinishes

\* So does the save of a cancellation.
LEMMA CancelingFinishes ==
  ASSUME EngineInv, Shown, Shown', NEW v \in Venues, NEW id \in ClientIds, Cancel(v, id)
  PROVE  Registry!Next
<1>1. saved = broker /\ saved \in [Venues -> Broker]
  BY DEF Cancel, EngineInv, SameOrders, TypeOK
<1>2. Holds(saved[v], id) /\ saved[v].orders[id].status = "OPEN"
  BY <1>1 DEF Cancel
<1>3. saved[v] \in Broker /\ saved[v].orders[id] \in BrokerOrder
  BY <1>1, <1>2, OrderIsNotNone
<1>4. PICK order \in BrokerOrder : order = [saved[v].orders[id] EXCEPT !.status = "CANCELED"]
  BY <1>3 DEF BrokerOrder
<1>5. saved' = [saved EXCEPT ![v] = [saved[v] EXCEPT !.orders[id] = order]]
  BY <1>1, <1>3, <1>4 DEF Cancel, Persist, Broker
<1>6. \A w \in Venues, i \in ClientIds :
         saved'[w].orders[i] = IF w = v /\ i = id THEN order ELSE saved[w].orders[i]
  BY <1>1, <1>3, <1>5 DEF Broker
<1>7. \A w \in Venues, i \in ClientIds : Holds(saved'[w], i) <=> Holds(saved[w], i)
  BY <1>2, <1>6, NoneAssumption DEF Holds
<1>8. \A w \in Venues : Holds(saved[w], id) => w = v
  BY <1>1, <1>2 DEF EngineInv, OneVenue
<1>9. \A w \in Venues, i \in ClientIds :
         Holds(saved[w], i) =>
           saved'[w].orders[i] = IF i \in {id}
                                   THEN [saved[w].orders[i] EXCEPT !.status = "CANCELED"]
                                   ELSE saved[w].orders[i]
  BY <1>4, <1>6, <1>8
<1>10. saved \in [Venues -> Broker] /\ {id} \in SUBSET ClientIds
  BY <1>1
<1>11. \A i \in {id} : \E w \in Venues : Holds(saved[w], i) /\ saved[w].orders[i].status = "OPEN"
  BY <1>2
<1>. QED
  BY ONLY <1>7, <1>9, <1>10, <1>11, Shown, Shown', SavingFinishes

\* Every step of the order path is a step of the registry or changes no entry.
LEMMA StepsRefine ==
  ASSUME Engine, EngineInv, Shown, Shown', [Next]_vars
  PROVE  Registry!Next \/ UNCHANGED [id \in ClientIds |-> SavedOrder(id)]
<1>1. CASE UNCHANGED saved
  BY <1>1, SameEntries
<1>2. CASE VenueAccepts
  BY <1>2, AcceptingPlaces DEF Engine
<1>3. CASE UpdateQuoteSaved
  BY <1>3, MatchingFinishes
<1>4. CASE \E v \in Venues, id \in ClientIds : Cancel(v, id)
  BY <1>4, CancelingFinishes
<1>. QED
  BY <1>1, <1>2, <1>3, <1>4
     DEF Next, Submit, Market, Reconcile, Stream, SubmitSettled, SubmitBegin, VenueRepeats,
         VenueRaises, SubmitAcknowledged, UpdateQuote, MatchFill, ReconcileAll,
         ReconcileOrder, ReconcileEnd, ProcessEvent, DropStream, StreamBroken, Crash,
         Restart, vars

\* Persistence, recovery and resubmission together implement the registry for every
\* number of ids, venues and crashes: each id is placed at most once, at one venue
\* with one quantity, and then gets at most one final status, whatever dies between
\* the venue's save and the OrderManager's.
THEOREM EngineImplementsRegistry ==
  ASSUME Engine
  PROVE  Spec => ImplementsRegistry
<1>1. Init => Registry!Init
  <2>. SUFFICES ASSUME Init PROVE Registry!Init
    OBVIOUS
  <2>1. \A id \in ClientIds, v \in Venues : ~Holds(saved[v], id)
    BY DEF Init, Holds, EmptyBroker
  <2>2. \A id \in ClientIds : SavedOrder(id) = None
    BY <2>1 DEF SavedOrder
  <2>. QED
    BY <2>2 DEF Registry!Init
<1>2. EngineInv /\ Shown /\ Shown' /\ [Next]_vars
        => [Registry!Next]_([id \in ClientIds |-> SavedOrder(id)])
  BY StepsRefine
<1>. QED
  BY <1>1, <1>2, EngineInvariant, EntriesAreShown, PTL
     DEF Spec, ImplementsRegistry, Registry!Spec
-----------------------------------------------------------------------------
(* Records and books.                                                      *)

\* What a record that claims something final says is on a disk, and an id given up
\* is on none.
RecordsKept ==
  \A id \in ClientIds :
    managed[id] # None =>
      /\ managed[id].state \in Terminal =>
           \E v \in Venues : /\ Holds(saved[v], id)
                             /\ saved[v].orders[id].status = managed[id].state
      /\ managed[id].state = "UNKNOWN" => \A v \in Venues : ~Holds(saved[v], id)

\* What a step may do to the books on disk.
SavedStep ==
  \A v \in Venues, id \in ClientIds :
    /\ Holds(saved[v], id) => Holds(saved'[v], id)
    /\ Holds(saved[v], id) /\ saved[v].orders[id].status # "OPEN" =>
         saved'[v].orders[id].status = saved[v].orders[id].status
    /\ Holds(saved'[v], id) => Holds(saved[v], id) \/ (step = "prepared" /\ id = call.id)

\* No order leaves a book, none changes once it is finished, and none enters but
\* the one being submitted.
LEMMA BooksOnlyGrow ==
  ASSUME Engine, EngineInv, [Next]_vars
  PROVE  SavedStep
<1>0. saved \in [Venues -> Broker] /\ broker \in [Venues -> Broker]
  BY DEF EngineInv, TypeOK
<1>1. CASE UNCHANGED saved
  BY <1>1 DEF SavedStep
<1>2. CASE VenueAccepts
  <2>1. step = "prepared" /\ call.venue \in Venues /\ call.id \in ClientIds
    BY <1>2 DEF VenueAccepts, EngineInv, CallInv
  <2>2. PICK v \in Venues, i \in ClientIds : v = call.venue /\ i = call.id
    BY <2>1
  <2>3. saved = broker /\ ~Holds(saved[v], i)
    BY <2>1, <2>2 DEF EngineInv, SameOrders, CallInv
  <2>4. PICK order : saved' = [saved EXCEPT ![v] = [saved[v] EXCEPT !.orders[i] = order]]
    BY <1>2, <2>2, <2>3 DEF VenueAccepts, Persist, Engine
  <2>5. \A w \in Venues, id \in ClientIds :
           saved'[w].orders[id] = IF w = v /\ id = i THEN order ELSE saved[w].orders[id]
    BY <1>0, <2>4 DEF Broker
  <2>. QED
    BY <2>1, <2>2, <2>3, <2>5 DEF SavedStep, Holds
<1>3. CASE UpdateQuoteSaved
  <2>1. saved' = broker
    BY <1>0, <1>3 DEF UpdateQuoteSaved, Persist, EngineInv, SameOrders
  <2>. QED
    BY <2>1 DEF SavedStep, EngineInv, SameOrders
<1>4. ASSUME NEW v \in Venues, NEW i \in ClientIds, Cancel(v, i) PROVE SavedStep
  <2>1. saved = broker /\ Holds(saved[v], i) /\ saved[v].orders[i].status = "OPEN"
    BY <1>4 DEF Cancel, EngineInv, SameOrders
  <2>2. saved[v] \in Broker /\ saved[v].orders[i] \in BrokerOrder
    BY <1>0, <2>1, OrderIsNotNone
  <2>3. PICK order \in BrokerOrder : order = [saved[v].orders[i] EXCEPT !.status = "CANCELED"]
    BY <2>2 DEF BrokerOrder
  <2>4. saved' = [saved EXCEPT ![v] = [saved[v] EXCEPT !.orders[i] = order]]
    BY <1>4, <2>1, <2>2, <2>3 DEF Cancel, Persist, Broker
  <2>5. \A w \in Venues, id \in ClientIds :
           saved'[w].orders[id] = IF w = v /\ id = i THEN order ELSE saved[w].orders[id]
    BY <1>0, <2>4 DEF Broker
  <2>. QED
    BY <2>1, <2>5, NoneAssumption DEF SavedStep, Holds
<1>. QED
  BY <1>1, <1>2, <1>3, <1>4
     DEF Next, Submit, Market, Reconcile, Stream, SubmitSettled, SubmitBegin, VenueRepeats,
         VenueRaises, SubmitAcknowledged, UpdateQuote, MatchFill, ReconcileAll,
         ReconcileOrder, ReconcileEnd, ProcessEvent, DropStream, StreamBroken, Crash,
         Restart, vars

\* A step that leaves a record alone keeps what it says; only the record of a
\* submission in progress is SUBMITTING when its order enters a book.
LEMMA UntouchedRecord ==
  ASSUME Engine, EngineInv, RecordsKept, [Next]_vars, NEW id \in ClientIds,
         managed'[id] = managed[id], managed[id] # None
  PROVE  /\ managed'[id].state \in Terminal =>
              \E v \in Venues : /\ Holds(saved'[v], id)
                                /\ saved'[v].orders[id].status = managed'[id].state
         /\ managed'[id].state = "UNKNOWN" => \A v \in Venues : ~Holds(saved'[v], id)
<1>1. SavedStep
  BY BooksOnlyGrow
<1>2. ASSUME managed[id].state \in Terminal
      PROVE  \E v \in Venues : /\ Holds(saved'[v], id)
                               /\ saved'[v].orders[id].status = managed[id].state
  <2>1. PICK v \in Venues : Holds(saved[v], id) /\ saved[v].orders[id].status = managed[id].state
    BY <1>2 DEF RecordsKept
  <2>2. saved[v].orders[id].status # "OPEN"
    BY <1>2, <2>1 DEF Terminal
  <2>. QED
    BY <1>1, <2>1, <2>2 DEF SavedStep
<1>3. ASSUME managed[id].state = "UNKNOWN", NEW v \in Venues PROVE ~Holds(saved'[v], id)
  <2>1. ~Holds(saved[v], id)
    BY <1>3 DEF RecordsKept
  <2>2. ~(step = "prepared" /\ id = call.id)
    BY <1>3 DEF EngineInv, CallInv
  <2>. QED
    BY <1>1, <2>1, <2>2 DEF SavedStep
<1>. QED
  BY <1>2, <1>3

\* Every step keeps RecordsKept.
LEMMA RecordsStep ==
  ASSUME Engine, EngineInv, RecordsKept, [Next]_vars
  PROVE  RecordsKept'
<1>. SUFFICES ASSUME NEW id \in ClientIds, managed'[id] # None
              PROVE  /\ managed'[id].state \in Terminal =>
                          \E v \in Venues : /\ Holds(saved'[v], id)
                                            /\ saved'[v].orders[id].status = managed'[id].state
                     /\ managed'[id].state = "UNKNOWN" => \A v \in Venues : ~Holds(saved'[v], id)
  BY DEF RecordsKept, Holds
<1>0. managed \in [ClientIds -> ManagedOrder \cup {None}]
  BY DEF EngineInv, TypeOK
<1>1. CASE managed'[id] = managed[id]
  BY <1>1, UntouchedRecord
<1>2. CASE managed'[id].state \notin Terminal \cup {"UNKNOWN"}
  BY <1>2
<1>3. ASSUME ReconcileOrder(id), managed'[id] # managed[id]
      PROVE  /\ managed'[id].state \in Terminal =>
                  \E v \in Venues : /\ Holds(saved'[v], id)
                                    /\ saved'[v].orders[id].status = managed'[id].state
             /\ managed'[id].state = "UNKNOWN" => \A v \in Venues : ~Holds(saved'[v], id)
  <2>1. /\ saved' = saved /\ broker = saved /\ scope = Venues
        /\ managed[id] # None /\ managed[id] \in ManagedOrder
    BY <1>0, <1>3 DEF ReconcileOrder, EngineInv, SameOrders, CallInv
  <2>2. CASE \E v \in Venues :
               Holds(saved[v], id) /\ managed'[id] = Apply(managed[id], saved[v].orders[id], v)
    <3>1. PICK v \in Venues :
             Holds(saved[v], id) /\ managed'[id] = Apply(managed[id], saved[v].orders[id], v)
      BY <2>2
    <3>2. managed'[id].state = saved[v].orders[id].status
      BY <1>3, <2>1, <3>1 DEF Apply, Transition, ManagedOrder
    <3>3. saved[v].orders[id] \in BrokerOrder
      BY <3>1, OrderIsNotNone DEF EngineInv, TypeOK
    <3>. QED
      BY <2>1, <3>1, <3>2, <3>3 DEF BrokerOrder
  <2>3. CASE /\ \A v \in Venues : ~Holds(saved[v], id)
             /\ managed'[id] = [managed[id] EXCEPT !.state = "UNKNOWN"]
    BY <2>1, <2>3 DEF ManagedOrder, Terminal
  <2>. QED
    BY <1>0, <1>3, <2>1, <2>2, <2>3 DEF ReconcileOrder
<1>4. ASSUME NEW i \in ClientIds, NEW v \in Venues, NEW q \in Quantities, SubmitBegin(i, v, q)
      PROVE  managed'[id] = managed[id] \/ managed'[id].state \notin Terminal \cup {"UNKNOWN"}
  BY <1>0, <1>4 DEF SubmitBegin, Terminal
<1>5. ASSUME SubmitAcknowledged
      PROVE  managed'[id] = managed[id] \/ managed'[id].state \notin Terminal \cup {"UNKNOWN"}
  <2>1. call.id \in ClientIds /\ managed[call.id] # None /\ managed[call.id].state = "SUBMITTING"
    BY <1>5 DEF SubmitAcknowledged, EngineInv, CallInv
  <2>. QED
    BY <1>0, <1>5, <2>1 DEF SubmitAcknowledged, Transition, Terminal, ManagedOrder
<1>6. ASSUME NEW i \in ClientIds \ {id}, ReconcileOrder(i) PROVE managed'[id] = managed[id]
  BY <1>0, <1>6 DEF ReconcileOrder
<1>7. \/ managed'[id] = managed[id]
      \/ ReconcileOrder(id)
      \/ managed'[id].state \notin Terminal \cup {"UNKNOWN"}
  BY <1>4, <1>5, <1>6
     DEF Next, Submit, Market, Reconcile, Stream, SubmitSettled, VenueRepeats, VenueAccepts,
         VenueRaises, UpdateQuote, MatchFill, UpdateQuoteSaved, Cancel, ReconcileAll,
         ReconcileEnd, ProcessEvent, DropStream, StreamBroken, Crash, Restart, vars, Engine
<1>. QED
  BY <1>1, <1>2, <1>3, <1>7

\* What RecordsAgree and UnknownMeansUnseen rest on holds in every state.
LEMMA RecordsInvariant ==
  ASSUME Engine
  PROVE  Spec => []RecordsKept
<1>1. Init => RecordsKept
  BY DEF Init, RecordsKept
<1>2. EngineInv /\ RecordsKept /\ [Next]_vars => RecordsKept'
  BY RecordsStep
<1>. QED
  BY <1>1, <1>2, EngineInvariant, PTL DEF Spec

\* When nothing is under way, a final record names the venue's final status and a
\* live one an order some venue has, for every number of ids, venues and crashes.
THEOREM RecordsTellTheTruth ==
  ASSUME Engine
  PROVE  Spec => []RecordsAgree
<1>1. EngineInv /\ RecordsKept => RecordsAgree
  <2>. SUFFICES ASSUME EngineInv, RecordsKept, NEW id \in ClientIds, managed[id] # None
                PROVE  /\ managed[id].state \in Terminal =>
                            \E v \in Venues : /\ Holds(broker[v], id)
                                              /\ broker[v].orders[id].status = managed[id].state
                       /\ managed[id].state \in {"ACKNOWLEDGED", "OPEN"} =>
                            \E v \in Venues : Holds(broker[v], id)
    BY DEF RecordsAgree
  <2>1. ASSUME managed[id].state \in Terminal
        PROVE  \E v \in Venues : /\ Holds(broker[v], id)
                                 /\ broker[v].orders[id].status = managed[id].state
    <3>1. PICK v \in Venues : Holds(saved[v], id) /\ saved[v].orders[id].status = managed[id].state
      BY <2>1 DEF RecordsKept
    <3>2. Holds(broker[v], id) /\ broker[v].orders[id] = saved[v].orders[id]
      BY <2>1, <3>1 DEF EngineInv, SameOrders, Terminal
    <3>. QED
      BY <3>1, <3>2
  <2>2. ASSUME managed[id].state \in {"ACKNOWLEDGED", "OPEN"}
        PROVE  \E v \in Venues : Holds(broker[v], id)
    BY <2>2 DEF EngineInv, Backed, SameOrders, Settled
  <2>. QED
    BY <2>1, <2>2
<1>. QED
  BY <1>1, EngineInvariant, RecordsInvariant, PTL

\* A record is UNKNOWN only while no venue has the order, as reconciliation looks at
\* all venues and a resubmission replaces the record first.
THEOREM UnknownIsUnseen ==
  ASSUME Engine
  PROVE  Spec => []UnknownMeansUnseen
<1>1. EngineInv /\ RecordsKept => UnknownMeansUnseen
  BY DEF EngineInv, SameOrders, RecordsKept, UnknownMeansUnseen
<1>. QED
  BY <1>1, EngineInvariant, RecordsInvariant, PTL
-----------------------------------------------------------------------------
(* Sums over finite sets.  Induction is on the number of members: if a     *)
(* statement failed, it would fail for some least number.                  *)

\* What the orders of a set add up to, and the function behind it.
Total(f, S) == MapThenSumSet(LAMBDA id : f[id].quantity, S)

Pick(T) == CHOOSE x \in T : TRUE

Sums(g, f, S) ==
  g = [T \in SUBSET S |-> IF T = {} THEN 0 ELSE f[Pick(T)].quantity + g[T \ {Pick(T)}]]

Summable(f, S) == IsFiniteSet(S) /\ \A x \in S : f[x].quantity \in Int

\* Of some naturals, one is the least.
LEMMA Least ==
  ASSUME NEW S \in SUBSET Nat, S # {}
  PROVE  \E x \in S : \A y \in S : x <= y
<1>1. PICK x \in S : \A y \in S : ~ (<<y, x>> \in OpToRel(<, Nat))
  BY NatLessThanWellFounded, WFMin
<1>2. ASSUME NEW y \in S PROVE x <= y
  <2>1. <<y, x>> \in Nat \X Nat /\ <<y, x>>[1] = y /\ <<y, x>>[2] = x
    OBVIOUS
  <2>2. ~ (<<y, x>>[1] < <<y, x>>[2])
    BY <1>1, <2>1, Zenon DEF OpToRel
  <2> QED
    BY <2>1, <2>2
<1> QED
  BY <1>2

\* A set without one of its members is smaller, and a subset is not larger.
LEMMA Smaller ==
  ASSUME NEW S, IsFiniteSet(S), NEW x \in S
  PROVE  /\ IsFiniteSet(S \ {x}) /\ Cardinality(S) \in Nat /\ Cardinality(S \ {x}) \in Nat
         /\ Cardinality(S \ {x}) = Cardinality(S) - 1
BY FS_RemoveElement, FS_CardinalityType

\* Of the finite subsets of a set that some family holds, one is the smallest.
LEMMA Smallest ==
  ASSUME NEW Family, Family # {}, \A T \in Family : IsFiniteSet(T)
  PROVE  \E T \in Family : \A U \in Family : Cardinality(T) <= Cardinality(U)
<1> DEFINE Sizes == {Cardinality(T) : T \in Family}
<1>1. Sizes \in SUBSET Nat /\ Sizes # {}
  BY FS_CardinalityType
<1>2. PICK n \in Sizes : \A m \in Sizes : n <= m
  <2> HIDE DEF Sizes
  <2> QED
    BY <1>1, Least
<1>3. PICK T \in Family : n = Cardinality(T)
  BY <1>2
<1> QED
  BY <1>2, <1>3

\* A non-empty set holds what is picked of it.
LEMMA PickIn ==
  ASSUME NEW T, T # {}
  PROVE  Pick(T) \in T
BY DEF Pick

\* There is a function that computes the sums of all subsets.
LEMMA SumsExist ==
  ASSUME NEW f, NEW S, Summable(f, S)
  PROVE  \E g : Sums(g, f, S)
<1> DEFINE Body(g, T) == IF T = {} THEN 0 ELSE f[Pick(T)].quantity + g[T \ {Pick(T)}]
           Right(g, n) == \A T \in SUBSET S : Cardinality(T) <= n => g[T] = Body(g, T)
           Fails == {n \in Nat : ~ \E g : g = [T \in SUBSET S |-> g[T]] /\ Right(g, n)}
<1>1. \A T \in SUBSET S : IsFiniteSet(T) /\ Cardinality(T) \in Nat
                          /\ Cardinality(T) <= Cardinality(S)
  BY FS_Subset, FS_CardinalityType DEF Summable
<1>2. Fails = {}
  <2> SUFFICES ASSUME Fails # {} PROVE FALSE
    OBVIOUS
  <2>1. PICK n \in Fails : \A m \in Fails : n <= m
    <3>1. Fails \in SUBSET Nat /\ Fails # {}
      OBVIOUS
    <3> HIDE DEF Fails
    <3> QED
      BY <3>1, Least
  <2>2. CASE n = 0
    <3> DEFINE g == [T \in SUBSET S |-> 0]
    <3>1. ASSUME NEW T \in SUBSET S, Cardinality(T) <= 0 PROVE T = {}
      BY <1>1, <3>1, FS_EmptySet
    <3>2. Right(g, 0)
      BY <3>1
    <3>3. g = [T \in SUBSET S |-> g[T]]
      OBVIOUS
    <3> QED
      BY <2>1, <2>2, <3>2, <3>3
  <2>3. CASE n # 0
    <3>1. n - 1 \in Nat /\ n - 1 \notin Fails
      <4>1. n \in Nat
        OBVIOUS
      <4> HIDE DEF Fails
      <4> QED
        BY <2>1, <2>3, <4>1
    <3>2. PICK g : g = [T \in SUBSET S |-> g[T]] /\ Right(g, n - 1)
      BY <3>1
    <3> DEFINE h == [T \in SUBSET S |-> Body(g, T)]
    <3>3. ASSUME NEW T \in SUBSET S, Cardinality(T) <= n PROVE h[T] = Body(h, T)
      <4>1. CASE T = {}
        BY <4>1
      <4>2. CASE T # {}
        <5>1. Pick(T) \in T
          BY <4>2, PickIn
        <5>2. Cardinality(T \ {Pick(T)}) <= n - 1 /\ T \ {Pick(T)} \in SUBSET S
          BY <1>1, <2>1, <3>3, <5>1, Smaller
        <5>3. g[T \ {Pick(T)}] = Body(g, T \ {Pick(T)})
          BY <3>2, <5>2
        <5>4. h[T \ {Pick(T)}] = Body(g, T \ {Pick(T)})
          BY <5>2
        <5>5. h[T] = Body(g, T)
          OBVIOUS
        <5> QED
          BY <4>2, <5>3, <5>4, <5>5
      <4> QED
        BY <4>1, <4>2
    <3>4. h = [T \in SUBSET S |-> h[T]] /\ Right(h, n)
      BY <3>3
    <3> QED
      BY <2>1, <3>4
  <2> QED
    BY <2>2, <2>3
<1>3. Cardinality(S) \in Nat
  BY <1>1
<1>4. PICK g : g = [T \in SUBSET S |-> g[T]] /\ Right(g, Cardinality(S))
  BY <1>2, <1>3
<1>5. \A T \in SUBSET S : g[T] = Body(g, T)
  BY <1>1, <1>4
<1>6. g = [T \in SUBSET S |-> Body(g, T)]
  BY <1>4, <1>5
<1> QED
  BY <1>6 DEF Sums

\* Such functions agree wherever what they add up agrees, and yield integers.
LEMMA SumsAgree ==
  ASSUME NEW f, NEW S, Summable(f, S), NEW g, Sums(g, f, S),
         NEW e, NEW R, NEW h, Sums(h, e, R),
         NEW T \in SUBSET S, T \in SUBSET R, \A x \in T : f[x].quantity = e[x].quantity
  PROVE  g[T] = h[T] /\ g[T] \in Int
<1> DEFINE Family == {U \in SUBSET T : ~ (g[U] = h[U] /\ g[U] \in Int)}
<1> SUFFICES ASSUME Family # {} PROVE FALSE
  OBVIOUS
<1>1. \A U \in Family : IsFiniteSet(U)
  BY FS_Subset DEF Summable
<1>2. PICK U \in Family : \A V \in Family : Cardinality(U) <= Cardinality(V)
  <2> HIDE DEF Family
  <2> QED
    BY <1>1, Smallest
<1>3. U \in SUBSET S /\ U \in SUBSET R
  OBVIOUS
<1>4. /\ g[U] = IF U = {} THEN 0 ELSE f[Pick(U)].quantity + g[U \ {Pick(U)}]
      /\ h[U] = IF U = {} THEN 0 ELSE e[Pick(U)].quantity + h[U \ {Pick(U)}]
  BY <1>3 DEF Sums
<1>5. CASE U = {}
  BY <1>4, <1>5
<1>6. CASE U # {}
  <2>1. Pick(U) \in U
    BY <1>6, PickIn
  <2>2. U \ {Pick(U)} \notin Family
    BY <1>1, <1>2, <2>1, Smaller
  <2>3. g[U \ {Pick(U)}] = h[U \ {Pick(U)}] /\ g[U \ {Pick(U)}] \in Int
    BY <2>2
  <2>4. f[Pick(U)].quantity = e[Pick(U)].quantity /\ f[Pick(U)].quantity \in Int
    BY <1>3, <2>1 DEF Summable
  <2> QED
    BY <1>4, <1>6, <2>3, <2>4
<1> QED
  BY <1>5, <1>6

\* The sum is one of those functions at the whole set.
LEMMA TotalIsSums ==
  ASSUME NEW f, NEW S, Summable(f, S)
  PROVE  \E g : Sums(g, f, S) /\ Total(f, S) = g[S]
<1>1. Total(f, S) = (CHOOSE g : Sums(g, f, S))[S]
  BY DEF Total, MapThenSumSet, MapThenFoldSet, Sums, Pick
<1>2. Sums(CHOOSE g : Sums(g, f, S), f, S)
  BY SumsExist
<1> QED
  BY <1>1, <1>2

\* A sum depends on nothing but what is added up.
LEMMA TotalSame ==
  ASSUME NEW f, NEW e, NEW S, Summable(f, S), \A x \in S : f[x].quantity = e[x].quantity
  PROVE  Total(f, S) = Total(e, S) /\ Total(f, S) \in Int
<1>1. PICK g : Sums(g, f, S) /\ Total(f, S) = g[S]
  BY TotalIsSums
<1>2. Summable(e, S)
  BY DEF Summable
<1>3. PICK h : Sums(h, e, S) /\ Total(e, S) = h[S]
  BY <1>2, TotalIsSums
<1> QED
  BY <1>1, <1>3, SumsAgree

\* The sum of nothing, and of a set with one member less.
LEMMA TotalPick ==
  ASSUME NEW f, NEW S, Summable(f, S)
  PROVE  /\ S = {} => Total(f, S) = 0
         /\ S # {} => Total(f, S) = f[Pick(S)].quantity + Total(f, S \ {Pick(S)})
<1>1. PICK g : Sums(g, f, S) /\ Total(f, S) = g[S]
  BY TotalIsSums
<1>2. g[S] = IF S = {} THEN 0 ELSE f[Pick(S)].quantity + g[S \ {Pick(S)}]
  BY <1>1 DEF Sums
<1>3. ASSUME S # {} PROVE g[S \ {Pick(S)}] = Total(f, S \ {Pick(S)})
  <2>1. Summable(f, S \ {Pick(S)})
    BY FS_Subset DEF Summable
  <2>2. PICK h : Sums(h, f, S \ {Pick(S)}) /\ Total(f, S \ {Pick(S)}) = h[S \ {Pick(S)}]
    BY <2>1, TotalIsSums
  <2> QED
    BY <1>1, <2>2, SumsAgree
<1> QED
  BY <1>1, <1>2, <1>3

\* It does not matter which member is taken out.
LEMMA TotalLess ==
  ASSUME NEW f, NEW S, Summable(f, S), NEW x \in S
  PROVE  /\ Total(f, S) = f[x].quantity + Total(f, S \ {x})
         /\ Total(f, S \ {x}) \in Int
<1> DEFINE Splits(U, y) == Total(f, U) = f[y].quantity + Total(f, U \ {y})
           Family == {U \in SUBSET S : ~ \A y \in U : Splits(U, y)}
<1>0. \A U \in SUBSET S : Summable(f, U) /\ Total(f, U) \in Int
  BY FS_Subset, TotalSame DEF Summable
<1>1. Family = {}
  <2> SUFFICES ASSUME Family # {} PROVE FALSE
    OBVIOUS
  <2>1. \A U \in Family : IsFiniteSet(U)
    BY <1>0 DEF Summable
  <2>2. PICK U \in Family : \A V \in Family : Cardinality(U) <= Cardinality(V)
    <3> HIDE DEF Family
    <3> QED
      BY <2>1, Smallest
  <2>3. PICK y \in U : ~ Splits(U, y)
    OBVIOUS
  <2> DEFINE c == Pick(U)
  <2>4. c \in U
    BY <2>3, PickIn
  <2>5. Total(f, U) = f[c].quantity + Total(f, U \ {c})
    BY <1>0, <2>3, TotalPick
  <2>6. y # c
    BY <2>3, <2>5
  <2>7. U \ {c} \notin Family /\ U \ {y} \notin Family
    <3> HIDE DEF Family, c, Splits
    <3>1. U \in Family /\ y \in U
      BY <2>2, <2>3
    <3>2. ASSUME NEW z \in U PROVE Cardinality(U \ {z}) < Cardinality(U)
      BY <2>1, <3>1, Smaller
    <3>3. \A z \in U : Cardinality(U \ {z}) \in Nat /\ Cardinality(U) \in Nat
      BY <2>1, <3>1, Smaller
    <3> QED
      BY <2>2, <2>4, <3>1, <3>2, <3>3
  <2>8. Splits(U \ {c}, y) /\ Splits(U \ {y}, c)
    BY <2>3, <2>4, <2>6, <2>7
  <2>9. (U \ {c}) \ {y} = (U \ {y}) \ {c}
    OBVIOUS
  <2>10. f[c].quantity \in Int /\ f[y].quantity \in Int
    BY <2>3, <2>4 DEF Summable
  <2>11. /\ Total(f, U \ {c}) \in Int /\ Total(f, U \ {y}) \in Int
         /\ Total(f, (U \ {c}) \ {y}) \in Int
    BY <1>0
  <2>12. Total(f, U) = f[y].quantity + Total(f, U \ {y})
    <3>1. Total(f, U \ {c}) = f[y].quantity + Total(f, (U \ {c}) \ {y})
      BY <2>8
    <3>2. Total(f, U \ {y}) = f[c].quantity + Total(f, (U \ {c}) \ {y})
      BY <2>8, <2>9
    <3> HIDE DEF c
    <3> QED
      BY ONLY <2>5, <3>1, <3>2, <2>10, <2>11
  <2> QED
    BY <2>3, <2>12
<1>2. S \notin Family
  BY <1>1
<1> QED
  BY <1>0, <1>2

-----------------------------------------------------------------------------
(* Books add up, and a final record is that of the book, for every number  *)
(* of venues and for MARKET orders and monitored streams as well.          *)

FilledIds(b) == {id \in ClientIds : Holds(b, id) /\ b.orders[id].status = "FILLED"}

\* A book's position and fills are those of its filled orders, which are few.
Adds(b) ==
  /\ IsFiniteSet(FilledIds(b))
  /\ b.position = Total(b.orders, FilledIds(b))
  /\ \A id \in ClientIds : b.fills[id] = IF id \in FilledIds(b) THEN 1 ELSE 0

Event == {Disconnect} \cup [kind : {"order"}, id : ClientIds, order : BrokerOrder]

\* The shape of what the books are written from.
BookShape ==
  /\ managed \in [ClientIds -> ManagedOrder \cup {None}]
  /\ broker \in [Venues -> Broker] /\ saved \in [Venues -> Broker]
  /\ events \in [Venues -> Seq(Event)]
  /\ step \in {"prepared", "accepted"} =>
       /\ call.id \in ClientIds /\ call.venue \in Venues /\ call.quantity \in Quantities
       /\ managed[call.id] # None
  /\ step = "matching" => call.venue \in Venues
  /\ scope \subseteq Venues
  /\ todo \subseteq {id \in ClientIds : managed[id] # None}

BookInv == BookShape /\ \A v \in Venues : Adds(broker[v]) /\ Adds(saved[v])

Ended(b, id) == Holds(b, id) /\ b.orders[id].status # "OPEN"

\* What ended on disk ended in memory, and the other way round but for the quote that
\* is being matched, or in which the process died.
EndsAgree ==
  \A v \in Venues, id \in ClientIds :
    /\ Ended(saved[v], id) => broker[v].orders[id] = saved[v].orders[id]
    /\ Ended(broker[v], id) /\ step # "down" /\ (step = "matching" => v # call.venue) =>
         saved[v].orders[id] = broker[v].orders[id]

\* An event that waits tells of an order that ended.
EventsTell ==
  \A v \in Venues : \A i \in 1..Len(events[v]) :
    LET event == events[v][i] IN
    event.kind = "order" =>
      Ended(broker[v], event.id) /\ broker[v].orders[event.id] = event.order

\* A final record is that of an order on disk.
Recorded ==
  \A id \in ClientIds :
    managed[id] # None /\ managed[id].state \in Terminal =>
      \E v \in Venues :
        /\ Ended(saved[v], id) /\ managed[id].venue = v
        /\ managed[id].state = saved[v].orders[id].status
        /\ managed[id].filled = FilledQuantity(saved[v].orders[id])

FinalInv == BookInv /\ EndsAgree /\ EventsTell /\ Recorded

\* From b to c, one order that had not ended was written.
Moves(b, c, id) ==
  /\ c \in Broker /\ Adds(c) /\ ~ Ended(b, id)
  /\ \A i \in ClientIds : i # id => c.orders[i] = b.orders[i]

Places(b, c, id, quantity) ==
  c = [b EXCEPT !.orders[id] = [status |-> "OPEN", quantity |-> quantity]]

\* A new order that rests adds nothing.
LEMMA BookPlaced ==
  ASSUME NEW b \in Broker, Adds(b), NEW id \in ClientIds, ~ Holds(b, id),
         NEW quantity \in Quantities, NEW c, Places(b, c, id, quantity)
  PROVE  /\ Moves(b, c, id)
         /\ c.orders[id] = [status |-> "OPEN", quantity |-> quantity] /\ Holds(c, id)
<1> USE DEF Places
<1> DEFINE order == [status |-> "OPEN", quantity |-> quantity]
<1>1. order \in BrokerOrder /\ order.status = "OPEN" /\ order # None
  BY NoneAssumption DEF BrokerOrder
<1>2. c.orders = [b.orders EXCEPT ![id] = order] /\ c.position = b.position /\ c.fills = b.fills
  BY DEF Broker
<1> HIDE DEF order
<1>3. c.orders \in [ClientIds -> BrokerOrder \cup {None}]
  BY <1>1, <1>2 DEF Broker
<1>4. c \in Broker
  <2>1. c = [orders |-> c.orders, position |-> c.position, fills |-> c.fills]
    BY DEF Broker
  <2> QED
    BY <1>2, <1>3, <2>1 DEF Broker
<1>5. c.orders[id] = order /\ \A i \in ClientIds : i # id => c.orders[i] = b.orders[i]
  BY <1>2 DEF Broker
<1>6. FilledIds(c) = FilledIds(b)
  BY <1>1, <1>5 DEF FilledIds, Holds
<1>7. Summable(b.orders, FilledIds(b))
  BY ConstantsAssumption DEF Adds, Summable, FilledIds, Holds, Broker, BrokerOrder
<1>8. Total(c.orders, FilledIds(b)) = Total(b.orders, FilledIds(b))
  <2>1. \A x \in FilledIds(b) : b.orders[x].quantity = c.orders[x].quantity
    BY <1>5 DEF FilledIds
  <2> QED
    BY ONLY <1>7, <2>1, TotalSame
<1>9. Adds(c)
  BY <1>2, <1>6, <1>8 DEF Adds
<1> QED
  BY <1>1, <1>4, <1>5, <1>9 DEF Moves, Ended, Holds, order

\* A canceled order adds nothing either.
LEMMA BookCanceled ==
  ASSUME NEW b \in Broker, Adds(b), NEW id \in ClientIds,
         Holds(b, id), b.orders[id].status = "OPEN",
         NEW c, c = [b EXCEPT !.orders[id].status = "CANCELED"]
  PROVE  Moves(b, c, id) /\ Ended(c, id) /\ c.orders[id] \in BrokerOrder
<1> DEFINE order == [b.orders[id] EXCEPT !.status = "CANCELED"]
<1>0. b.orders[id] \in BrokerOrder
  BY OrderIsNotNone
<1>1. order \in BrokerOrder /\ order.status = "CANCELED" /\ order # None
  BY <1>0, NoneAssumption DEF BrokerOrder
<1>2. c.orders = [b.orders EXCEPT ![id] = order] /\ c.position = b.position /\ c.fills = b.fills
  BY DEF Broker
<1> HIDE DEF order
<1>3. c.orders \in [ClientIds -> BrokerOrder \cup {None}]
  BY <1>1, <1>2 DEF Broker
<1>4. c \in Broker
  <2>1. c = [orders |-> c.orders, position |-> c.position, fills |-> c.fills]
    BY DEF Broker
  <2> QED
    BY <1>2, <1>3, <2>1 DEF Broker
<1>5. c.orders[id] = order /\ \A i \in ClientIds : i # id => c.orders[i] = b.orders[i]
  BY <1>2 DEF Broker
<1>6. FilledIds(c) = FilledIds(b)
  BY <1>1, <1>5 DEF FilledIds, Holds
<1>7. Summable(b.orders, FilledIds(b))
  BY ConstantsAssumption DEF Adds, Summable, FilledIds, Holds, Broker, BrokerOrder
<1>8. Total(c.orders, FilledIds(b)) = Total(b.orders, FilledIds(b))
  <2>1. \A x \in FilledIds(b) : b.orders[x].quantity = c.orders[x].quantity
    BY <1>5 DEF FilledIds
  <2> QED
    BY ONLY <1>7, <2>1, TotalSame
<1>9. Adds(c)
  BY <1>2, <1>6, <1>8 DEF Adds
<1> QED
  BY <1>1, <1>4, <1>5, <1>9 DEF Moves, Ended, Holds

\* A filled order adds its quantity to the position, and one fill.
LEMMA BookFilled ==
  ASSUME NEW b \in Broker, Adds(b), NEW id \in ClientIds,
         Holds(b, id), b.orders[id].status = "OPEN",
         NEW c, c = Fill(b, id)
  PROVE  Moves(b, c, id) /\ Ended(c, id) /\ c.orders[id] \in BrokerOrder
<1> DEFINE order == [b.orders[id] EXCEPT !.status = "FILLED"]
<1>0. b.orders[id] \in BrokerOrder /\ b.orders[id].quantity \in Int
  BY OrderIsNotNone, ConstantsAssumption DEF BrokerOrder
<1>1. /\ order \in BrokerOrder /\ order.status = "FILLED" /\ order # None
      /\ order.quantity = b.orders[id].quantity
  BY <1>0, NoneAssumption DEF BrokerOrder
<1>2. /\ c \in Broker /\ c.orders = [b.orders EXCEPT ![id] = order]
      /\ c.position = b.position + b.orders[id].quantity
      /\ c.fills = [b.fills EXCEPT ![id] = b.fills[id] + 1]
  BY FillLemma DEF Fill
<1> HIDE DEF order
<1>5. c.orders[id] = order /\ \A i \in ClientIds : i # id => c.orders[i] = b.orders[i]
  BY <1>2 DEF Broker
<1>6. FilledIds(c) = FilledIds(b) \cup {id} /\ id \notin FilledIds(b)
  BY <1>1, <1>5 DEF FilledIds, Holds
<1>7. Summable(b.orders, FilledIds(b))
  BY ConstantsAssumption DEF Adds, Summable, FilledIds, Holds, Broker, BrokerOrder
<1>8. Total(c.orders, FilledIds(b)) = Total(b.orders, FilledIds(b))
      /\ Total(b.orders, FilledIds(b)) \in Int
  <2>1. \A x \in FilledIds(b) : b.orders[x].quantity = c.orders[x].quantity
    BY <1>5, <1>6 DEF FilledIds
  <2> QED
    BY <1>7, <2>1, TotalSame
<1>9. Summable(c.orders, FilledIds(c))
  <2>1. IsFiniteSet(FilledIds(c))
    BY <1>6, FS_AddElement DEF Adds
  <2> QED
    BY <1>2, <2>1, ConstantsAssumption DEF Summable, FilledIds, Holds, Broker, BrokerOrder
<1>10. Total(c.orders, FilledIds(c)) = c.orders[id].quantity + Total(c.orders, FilledIds(b))
  <2>1. id \in FilledIds(c) /\ FilledIds(c) \ {id} = FilledIds(b)
    BY <1>6
  <2> QED
    BY <1>9, <2>1, TotalLess
<1>11. c.position = Total(c.orders, FilledIds(c))
  BY <1>0, <1>1, <1>2, <1>5, <1>8, <1>10 DEF Adds
<1>12. \A i \in ClientIds : c.fills[i] = IF i \in FilledIds(c) THEN 1 ELSE 0
  BY <1>2, <1>6 DEF Adds, Broker
<1>13. Adds(c)
  BY <1>9, <1>11, <1>12 DEF Adds, Summable
<1> QED
  BY <1>1, <1>2, <1>5, <1>13 DEF Moves, Ended, Holds

\* The empty book.
LEMMA BookEmpty == EmptyBroker \in Broker /\ Adds(EmptyBroker)
<1>1. EmptyBroker \in Broker
  BY DEF EmptyBroker, Broker
<1>2. FilledIds(EmptyBroker) = {}
  BY DEF FilledIds, Holds, EmptyBroker
<1>3. Total(EmptyBroker.orders, {}) = 0
  <2>1. Summable(EmptyBroker.orders, {})
    BY FS_EmptySet DEF Summable
  <2> QED
    BY <2>1, TotalPick
<1> QED
  BY <1>1, <1>2, <1>3, FS_EmptySet DEF Adds, EmptyBroker

\* The event of what was written, if there is one, joins the queue of its venue.
EventsGrow(v, c, id) ==
  \/ events' = events
  \/ /\ Ended(c, id) /\ c.orders[id] \in BrokerOrder
     /\ events' = [events EXCEPT ![v] = Append(events[v], OrderEvent(id, c.orders[id]))]

\* An event about an order carries one.
LEMMA EventShape ==
  ASSUME NEW event \in Event, event.kind = "order"
  PROVE  event.id \in ClientIds /\ event.order \in BrokerOrder
BY DEF Event, Disconnect

\* Events tell the truth after a book was written in memory.
LEMMA EventsKeep ==
  ASSUME BookShape, EventsTell, NEW v \in Venues, NEW id \in ClientIds, NEW c,
         Moves(broker[v], c, id), broker' = [broker EXCEPT ![v] = c], EventsGrow(v, c, id)
  PROVE  EventsTell' /\ events' \in [Venues -> Seq(Event)]
<1>1. /\ events \in [Venues -> Seq(Event)] /\ broker \in [Venues -> Broker]
  BY DEF BookShape
<1>2. \A w \in Venues : broker'[w] = IF w = v THEN c ELSE broker[w]
  BY <1>1
<1>3. ASSUME NEW w \in Venues, NEW event \in Event, event.kind = "order",
             Ended(broker[w], event.id) /\ broker[w].orders[event.id] = event.order
      PROVE  Ended(broker'[w], event.id) /\ broker'[w].orders[event.id] = event.order
  <2>1. event.id \in ClientIds
    BY <1>3, EventShape
  <2>2. w = v => event.id # id
    BY <1>3 DEF Moves
  <2> QED
    BY <1>2, <1>3, <2>1, <2>2 DEF Moves, Ended, Holds
<1>4. CASE events' = events
  <2>1. ASSUME NEW w \in Venues, NEW i \in 1..Len(events[w]), events[w][i].kind = "order"
        PROVE  LET event == events[w][i] IN
               Ended(broker'[w], event.id) /\ broker'[w].orders[event.id] = event.order
    <3>1. events[w][i] \in Event
      BY <1>1
    <3>2. LET event == events[w][i] IN
          Ended(broker[w], event.id) /\ broker[w].orders[event.id] = event.order
      BY <2>1 DEF EventsTell
    <3> QED
      BY <1>3, <2>1, <3>1, <3>2
  <2> QED
    BY <1>1, <1>4, <2>1 DEF EventsTell
<1>5. CASE /\ Ended(c, id) /\ c.orders[id] \in BrokerOrder
           /\ events' = [events EXCEPT ![v] = Append(events[v], OrderEvent(id, c.orders[id]))]
  <2> DEFINE new == OrderEvent(id, c.orders[id])
  <2>1. new \in Event /\ new.kind = "order" /\ new.id = id /\ new.order = c.orders[id]
    BY <1>5 DEF Event, OrderEvent
  <2> HIDE DEF new
  <2>2. \A w \in Venues : events'[w] = IF w = v THEN Append(events[v], new) ELSE events[w]
    BY <1>1, <1>5 DEF new
  <2>3. Append(events[v], new) \in Seq(Event)
    BY <1>1, <2>1
  <2>6. ASSUME NEW s \in Seq(Event)
        PROVE  /\ Len(s) \in Nat /\ Len(Append(s, new)) = Len(s) + 1
               /\ Append(s, new)[Len(s) + 1] = new
               /\ \A i \in 1..Len(s) : Append(s, new)[i] = s[i]
    BY <2>1
  <2>7. /\ Len(events[v]) \in Nat /\ Len(Append(events[v], new)) = Len(events[v]) + 1
        /\ Append(events[v], new)[Len(events[v]) + 1] = new
        /\ \A i \in 1..Len(events[v]) : Append(events[v], new)[i] = events[v][i]
    <3>1. events[v] \in Seq(Event)
      BY <1>1
    <3> QED
      BY <2>6, <3>1
  <2>4. events' \in [Venues -> Seq(Event)]
    BY <1>1, <1>5, <2>3 DEF new
  <2>5. ASSUME NEW w \in Venues, NEW i \in 1..Len(events'[w]), events'[w][i].kind = "order"
        PROVE  LET event == events'[w][i] IN
               Ended(broker'[w], event.id) /\ broker'[w].orders[event.id] = event.order
    <3>1. CASE w = v /\ i = Len(events[v]) + 1
      <4>1. events'[w][i] = new
        BY <2>2, <2>7, <3>1
      <4> QED
        BY <1>2, <1>5, <2>1, <3>1, <4>1
    <3>2. CASE ~ (w = v /\ i = Len(events[v]) + 1)
      <4>1. i \in 1..Len(events[w]) /\ events'[w][i] = events[w][i]
        <5>1. CASE w = v
          <6>1. i \in 1..(Len(events[v]) + 1) /\ i # Len(events[v]) + 1
            BY <2>2, <2>7, <3>2, <5>1
          <6>2. i \in 1..Len(events[v])
            BY <2>7, <6>1
          <6> QED
            BY <2>2, <2>7, <5>1, <6>2
        <5>2. CASE w # v
          BY <2>2, <2>5, <5>2
        <5> QED
          BY <5>1, <5>2
      <4>2. events[w][i] \in Event
        BY <1>1, <4>1
      <4>3. LET event == events[w][i] IN
            Ended(broker[w], event.id) /\ broker[w].orders[event.id] = event.order
        BY <2>5, <4>1 DEF EventsTell
      <4> QED
        BY <1>3, <2>5, <4>1, <4>2, <4>3
    <3> QED
      BY <3>1, <3>2
  <2> QED
    BY <2>4, <2>5 DEF EventsTell
<1> QED
  BY <1>4, <1>5 DEF EventsGrow

BookTypes ==
  broker \in [Venues -> Broker] /\ saved \in [Venues -> Broker]

AllAdd == \A v \in Venues : Adds(broker[v]) /\ Adds(saved[v])

\* A record that was final on disk stays so when an order that had not ended is
\* written.
LEMMA WrittenKeeps ==
  ASSUME FinalInv, step \in {"idle", "prepared"}, NEW v \in Venues, NEW id \in ClientIds,
         NEW c, Moves(broker[v], c, id), EventsGrow(v, c, id), managed' = managed,
         broker' = [broker EXCEPT ![v] = c], saved' = [saved EXCEPT ![v] = c]
  PROVE  BookTypes' /\ AllAdd' /\ EndsAgree' /\ EventsTell' /\ Recorded'
         /\ events' \in [Venues -> Seq(Event)]
<1>1. BookShape /\ BookTypes /\ AllAdd /\ c \in Broker /\ Adds(c)
  BY DEF FinalInv, BookInv, BookShape, BookTypes, AllAdd, Moves
<1>2. /\ \A w \in Venues : broker'[w] = IF w = v THEN c ELSE broker[w]
      /\ \A w \in Venues : saved'[w] = IF w = v THEN c ELSE saved[w]
  BY <1>1 DEF BookTypes
<1>3. BookTypes' /\ AllAdd'
  BY <1>1, <1>2 DEF BookTypes, AllAdd
<1>4. EndsAgree'
  BY <1>2 DEF FinalInv, EndsAgree
<1>5. EventsTell' /\ events' \in [Venues -> Seq(Event)]
  BY <1>1, EventsKeep DEF FinalInv
<1>6. ASSUME NEW i \in ClientIds, Ended(saved[v], i)
      PROVE  Ended(saved'[v], i) /\ saved'[v].orders[i] = saved[v].orders[i]
  <2>1. broker[v].orders[i] = saved[v].orders[i] /\ Ended(broker[v], i)
    BY <1>6 DEF FinalInv, EndsAgree, Ended, Holds
  <2> QED
    BY <1>2, <1>6, <2>1 DEF Moves, Ended, Holds
<1>7. Recorded'
  BY <1>2, <1>6 DEF FinalInv, Recorded
<1> QED
  BY <1>3, <1>4, <1>5, <1>7

\* An order that was written in memory only has not ended, or the quote that ended
\* it is being matched.
LEMMA MemoryKeeps ==
  ASSUME FinalInv, NEW v \in Venues, NEW id \in ClientIds,
         NEW c, Moves(broker[v], c, id), EventsGrow(v, c, id), managed' = managed,
         broker' = [broker EXCEPT ![v] = c], saved' = saved,
         \/ step \in {"idle", "prepared"} /\ ~ Ended(c, id)
         \/ step = "matching" /\ step' = step /\ call' = call /\ v = call.venue
  PROVE  BookTypes' /\ AllAdd' /\ EndsAgree' /\ EventsTell' /\ Recorded'
         /\ events' \in [Venues -> Seq(Event)]
<1>1. BookShape /\ BookTypes /\ AllAdd /\ c \in Broker /\ Adds(c)
  BY DEF FinalInv, BookInv, BookShape, BookTypes, AllAdd, Moves
<1>2. \A w \in Venues : broker'[w] = IF w = v THEN c ELSE broker[w]
  BY <1>1 DEF BookTypes
<1>3. BookTypes' /\ AllAdd'
  BY <1>1, <1>2 DEF BookTypes, AllAdd
<1>4. EndsAgree'
  <2>1. ASSUME NEW w \in Venues, NEW i \in ClientIds, Ended(saved[w], i)
        PROVE  broker'[w].orders[i] = saved[w].orders[i]
    <3>1. broker[w].orders[i] = saved[w].orders[i] /\ Ended(broker[w], i)
      BY <2>1 DEF FinalInv, EndsAgree, Ended, Holds
    <3> QED
      BY <1>2, <3>1 DEF Moves
  <2>2. ASSUME NEW w \in Venues, NEW i \in ClientIds, Ended(broker'[w], i),
               step' = "matching" => w # call'.venue
        PROVE  saved[w].orders[i] = broker'[w].orders[i]
    <3>1. CASE w # v
      <4>1. Ended(broker[w], i) /\ step # "down" /\ (step = "matching" => w # call.venue)
        BY <1>2, <2>2, <3>1
      <4> QED
        BY <1>2, <3>1, <4>1 DEF FinalInv, EndsAgree
    <3>2. CASE w = v
      <4>1. step \in {"idle", "prepared"} /\ i # id
        BY <1>2, <2>2, <3>2
      <4>2. broker'[w].orders[i] = broker[w].orders[i] /\ Ended(broker[w], i)
        BY <1>2, <2>2, <3>2, <4>1 DEF Moves, Ended, Holds
      <4> QED
        BY <4>1, <4>2 DEF FinalInv, EndsAgree
    <3> QED
      BY <3>1, <3>2
  <2> QED
    BY <2>1, <2>2 DEF EndsAgree
<1>5. EventsTell' /\ events' \in [Venues -> Seq(Event)]
  BY <1>1, EventsKeep DEF FinalInv
<1>6. Recorded'
  BY DEF FinalInv, Recorded
<1> QED
  BY <1>3, <1>4, <1>5, <1>6

\* Steps that write no book leave the ends in agreement.
LEMMA QuietEnds ==
  ASSUME EndsAgree, broker' = broker, saved' = saved,
         step \notin {"down", "matching"} \/ step' = "down"
  PROVE  EndsAgree'
BY DEF EndsAgree

\* A record that is written is not final, or unchanged, or that of an order on disk.
RecordFits(id, rec) ==
  /\ rec \in ManagedOrder
  /\ rec.state \in Terminal =>
       \/ rec = managed[id]
       \/ \E v \in Venues :
            /\ Ended(saved[v], id) /\ rec.venue = v
            /\ rec.state = saved[v].orders[id].status
            /\ rec.filled = FilledQuantity(saved[v].orders[id])

\* A record that fits the book replaces another one.
LEMMA RecordKeeps ==
  ASSUME BookShape, Recorded, NEW id \in ClientIds, NEW rec, RecordFits(id, rec),
         managed' = [managed EXCEPT ![id] = rec], saved' = saved
  PROVE  /\ Recorded' /\ managed' \in [ClientIds -> ManagedOrder \cup {None}]
         /\ managed'[id] # None
         /\ \A i \in ClientIds : i # id => managed'[i] = managed[i]
<1>1. /\ managed \in [ClientIds -> ManagedOrder \cup {None}] /\ rec \in ManagedOrder /\ rec # None
  BY NoneAssumption DEF BookShape, RecordFits
<1>2. \A i \in ClientIds : managed'[i] = IF i = id THEN rec ELSE managed[i]
  BY <1>1
<1>3. Recorded'
  BY <1>1, <1>2 DEF Recorded, RecordFits
<1> QED
  BY <1>1, <1>2, <1>3

\* What a report makes of a record.
LEMMA ApplyCases ==
  ASSUME NEW rec \in ManagedOrder, NEW order \in BrokerOrder, NEW v \in Venues
  PROVE  LET new == Apply(rec, order, v) IN
         /\ new \in ManagedOrder
         /\ \/ new = rec
            \/ /\ order.status = "OPEN" => new.state = "OPEN"
               /\ new.state = order.status
               /\ new.filled = FilledQuantity(order) /\ new.venue = v
         /\ rec.state \in Terminal /\ order.status = "OPEN" => new = rec
         /\ rec.state = order.status /\ rec.filled = FilledQuantity(order) /\ rec.venue = v
              => new = rec
<1> DEFINE new == Apply(rec, order, v)
<1>1. new \in ManagedOrder
  BY ApplyLemma
<1>2. order.status \in {"OPEN", "FILLED", "CANCELED"}
  BY DEF BrokerOrder
<1>3. new = IF rec.state \in Terminal /\ order.status \notin Terminal THEN rec
            ELSE [rec EXCEPT !.state = order.status, !.filled = FilledQuantity(order), !.venue = v]
  BY DEF Apply, Transition
<1>4. rec = [state |-> rec.state, quantity |-> rec.quantity, filled |-> rec.filled,
             venue |-> rec.venue]
  BY DEF ManagedOrder
<1>5. CASE rec.state \in Terminal /\ order.status \notin Terminal
  BY <1>1, <1>2, <1>3, <1>5 DEF Terminal
<1>6. CASE ~ (rec.state \in Terminal /\ order.status \notin Terminal)
  <2>1. new = [state |-> order.status, quantity |-> rec.quantity,
               filled |-> FilledQuantity(order), venue |-> v]
    BY <1>3, <1>4, <1>6
  <2>2. new.state = order.status /\ new.filled = FilledQuantity(order) /\ new.venue = v
    BY <2>1
  <2>3. rec.state = order.status /\ rec.filled = FilledQuantity(order) /\ rec.venue = v
          => new = rec
    BY <1>4, <2>1
  <2> QED
    BY <1>1, <1>2, <1>6, <2>2, <2>3 DEF Terminal
<1> QED
  BY <1>5, <1>6

\* A report of an order that is on disk fits.
LEMMA ReportFits ==
  ASSUME NEW id \in ClientIds, managed[id] \in ManagedOrder, NEW v \in Venues,
         NEW order \in BrokerOrder,
         order.status # "OPEN" => Ended(saved[v], id) /\ saved[v].orders[id] = order
  PROVE  RecordFits(id, Apply(managed[id], order, v))
BY ApplyCases DEF RecordFits, Terminal

\* Submissions.
LEMMA SubmitKeeps ==
  ASSUME FinalInv,
         \/ \E id \in ClientIds : SubmitSettled(id)
         \/ \E id \in ClientIds, v \in Venues, q \in Quantities : SubmitBegin(id, v, q)
         \/ VenueRepeats
         \/ SubmitAcknowledged
  PROVE  FinalInv'
<1>1. BookShape /\ AllAdd /\ EndsAgree /\ EventsTell /\ Recorded
  BY DEF FinalInv, BookInv, AllAdd
<1>2. broker' = broker /\ saved' = saved /\ events' = events /\ scope' = scope /\ todo' = todo
  BY DEF SubmitSettled, SubmitBegin, VenueRepeats, SubmitAcknowledged
<1>3. EndsAgree'
  BY <1>1, <1>2, QuietEnds DEF SubmitSettled, SubmitBegin, VenueRepeats, SubmitAcknowledged
<1>4. AllAdd' /\ EventsTell'
  BY <1>1, <1>2 DEF AllAdd, EventsTell
<1>5. CASE VenueRepeats \/ \E id \in ClientIds : SubmitSettled(id)
  <2>1. BookShape' /\ Recorded'
    BY <1>1, <1>2, <1>5 DEF BookShape, Recorded, VenueRepeats, SubmitSettled
  <2> QED
    BY <1>3, <1>4, <2>1 DEF FinalInv, BookInv, AllAdd
<1>6. CASE \E id \in ClientIds, v \in Venues, q \in Quantities : SubmitBegin(id, v, q)
  <2>1. PICK id \in ClientIds, v \in Venues, q \in Quantities : SubmitBegin(id, v, q)
    BY <1>6
  <2> DEFINE rec == [state |-> "SUBMITTING", quantity |-> q, filled |-> 0, venue |-> None]
  <2>2. RecordFits(id, rec)
    BY DEF RecordFits, ManagedOrder, LifecycleState, Settled, Terminal
  <2>3. managed' = [managed EXCEPT ![id] = rec]
    BY <2>1 DEF SubmitBegin
  <2> HIDE DEF rec
  <2>4. /\ Recorded' /\ managed' \in [ClientIds -> ManagedOrder \cup {None}]
        /\ managed'[id] # None
        /\ \A i \in ClientIds : i # id => managed'[i] = managed[i]
    BY <1>1, <1>2, <2>2, <2>3, RecordKeeps
  <2>5. call'.id = id /\ call'.venue = v /\ call'.quantity = q /\ step' = "prepared"
    BY <2>1 DEF SubmitBegin
  <2>6. BookShape'
    BY <1>1, <1>2, <2>4, <2>5 DEF BookShape
  <2> QED
    BY <1>3, <1>4, <2>4, <2>6 DEF FinalInv, BookInv, AllAdd
<1>7. CASE SubmitAcknowledged
  <2> DEFINE id == call.id
             rec == Transition(managed[id], "ACKNOWLEDGED", managed[id].filled, call.venue)
  <2>1. id \in ClientIds /\ call.venue \in Venues /\ managed[id] \in ManagedOrder
    BY <1>1, <1>7 DEF BookShape, SubmitAcknowledged
  <2>2. RecordFits(id, rec)
    BY <2>1 DEF RecordFits, Transition, ManagedOrder, LifecycleState, Settled, Terminal
  <2>3. managed' = [managed EXCEPT ![id] = rec] /\ step' = "idle"
    BY <1>7 DEF SubmitAcknowledged
  <2> HIDE DEF rec, id
  <2>4. /\ Recorded' /\ managed' \in [ClientIds -> ManagedOrder \cup {None}]
        /\ managed'[id] # None
        /\ \A i \in ClientIds : i # id => managed'[i] = managed[i]
    BY <1>1, <1>2, <2>1, <2>2, <2>3, RecordKeeps
  <2>6. BookShape'
    BY <1>1, <1>2, <2>3, <2>4 DEF BookShape
  <2> QED
    BY <1>3, <1>4, <2>4, <2>6 DEF FinalInv, BookInv, AllAdd
<1> QED
  BY <1>5, <1>6, <1>7

\* The venue's half of a submission.
LEMMA VenueKeeps ==
  ASSUME FinalInv, VenueAccepts \/ VenueRaises
  PROVE  FinalInv'
<1> DEFINE v == call.venue
           id == call.id
           placed == [broker[v] EXCEPT !.orders[id] =
                        [status |-> "OPEN", quantity |-> call.quantity]]
<1>1. /\ BookShape /\ step = "prepared" /\ ~ Holds(broker[v], id)
      /\ v \in Venues /\ id \in ClientIds /\ call.quantity \in Quantities
      /\ broker[v] \in Broker /\ Adds(broker[v])
      /\ managed' = managed /\ scope' = scope /\ todo' = todo
  BY DEF FinalInv, BookInv, BookShape, VenueAccepts, VenueRaises
<1>2. /\ Moves(broker[v], placed, id) /\ Holds(placed, id)
      /\ placed.orders[id].status = "OPEN" /\ placed \in Broker /\ Adds(placed)
  <2>1. Places(broker[v], placed, id, call.quantity)
    BY DEF Places
  <2> HIDE DEF placed, v, id
  <2>2. /\ Moves(broker[v], placed, id)
        /\ placed.orders[id] = [status |-> "OPEN", quantity |-> call.quantity]
        /\ Holds(placed, id)
    BY ONLY <1>1, <2>1, BookPlaced
  <2> QED
    BY <2>2 DEF Moves
<1>3. CASE VenueRaises
  <2>1. /\ broker' = [broker EXCEPT ![v] = placed] /\ saved' = saved /\ events' = events
        /\ step' = "idle"
    BY <1>3 DEF VenueRaises
  <2> HIDE DEF placed, v, id
  <2>2. ~ Ended(placed, id) /\ EventsGrow(v, placed, id)
    BY <1>2, <2>1 DEF Ended, EventsGrow
  <2>3. BookTypes' /\ AllAdd' /\ EndsAgree' /\ EventsTell' /\ Recorded'
        /\ events' \in [Venues -> Seq(Event)]
    BY <1>1, <1>2, <2>1, <2>2, MemoryKeeps
  <2>4. BookShape'
    BY <1>1, <2>1, <2>3 DEF BookShape, BookTypes
  <2> QED
    BY <2>3, <2>4 DEF FinalInv, BookInv, AllAdd
<1>4. CASE VenueAccepts
  <2> DEFINE c == IF id \in MarketIds THEN Fill(placed, id) ELSE placed
  <2>1. /\ broker' = [broker EXCEPT ![v] = c] /\ saved' = [saved EXCEPT ![v] = c]
        /\ events' = IF id \in MarketIds
                       THEN [events EXCEPT ![v] = Append(events[v], OrderEvent(id, c.orders[id]))]
                       ELSE events
        /\ step' = "accepted" /\ call' = call
    BY <1>4 DEF VenueAccepts, Persist
  <2> HIDE DEF placed, v, id
  <2>2. Moves(broker[v], c, id) /\ EventsGrow(v, c, id)
    <3>1. CASE id \notin MarketIds
      BY <1>2, <2>1, <3>1 DEF EventsGrow
    <3>2. CASE id \in MarketIds
      <4>1. Moves(placed, c, id) /\ Ended(c, id) /\ c.orders[id] \in BrokerOrder
        BY <1>1, <1>2, <3>2, BookFilled
      <4>2. Moves(broker[v], c, id)
        BY <1>2, <4>1 DEF Moves
      <4> QED
        BY <2>1, <3>2, <4>1, <4>2 DEF EventsGrow
    <3> QED
      BY <3>1, <3>2
  <2> HIDE DEF c
  <2>3. BookTypes' /\ AllAdd' /\ EndsAgree' /\ EventsTell' /\ Recorded'
        /\ events' \in [Venues -> Seq(Event)]
    BY <1>1, <2>1, <2>2, WrittenKeeps
  <2>4. BookShape'
    BY <1>1, <2>1, <2>3 DEF BookShape, BookTypes
  <2> QED
    BY <2>3, <2>4 DEF FinalInv, BookInv, AllAdd
<1> QED
  BY <1>3, <1>4

\* The market: quotes, the orders they trade through, and cancellations.
LEMMA MarketKeeps ==
  ASSUME FinalInv, Market
  PROVE  FinalInv'
<1>1. BookShape /\ AllAdd /\ EndsAgree /\ EventsTell /\ Recorded
  BY DEF FinalInv, BookInv, AllAdd
<1>2. managed' = managed /\ scope' = scope /\ todo' = todo
  BY DEF Market, UpdateQuote, MatchFill, UpdateQuoteSaved, Cancel
<1>3. CASE \E v \in Venues : UpdateQuote(v)
  <2>1. PICK v \in Venues : UpdateQuote(v)
    BY <1>3
  <2>2. /\ broker' = broker /\ saved' = saved /\ events' = events /\ step = "idle"
        /\ step' = "matching" /\ call'.venue = v
    BY <2>1 DEF UpdateQuote, NoCall
  <2>3. BookShape' /\ AllAdd' /\ EventsTell' /\ Recorded'
    BY <1>1, <1>2, <2>2 DEF BookShape, AllAdd, EventsTell, Recorded
  <2>4. EndsAgree'
    BY <1>1, <2>2, QuietEnds
  <2> QED
    BY <2>3, <2>4 DEF FinalInv, BookInv, AllAdd
<1>4. CASE \E id \in ClientIds : MatchFill(id)
  <2> PICK id \in ClientIds : MatchFill(id)
    BY <1>4
  <2> DEFINE v == call.venue
             c == Fill(broker[v], id)
  <2>1. /\ step = "matching" /\ step' = step /\ call' = call /\ saved' = saved
        /\ Holds(broker[v], id) /\ broker[v].orders[id].status = "OPEN"
        /\ broker' = [broker EXCEPT ![v] = c]
        /\ events' = [events EXCEPT ![v] = Append(events[v], OrderEvent(id, c.orders[id]))]
    BY DEF MatchFill, Resting
  <2>2. v \in Venues /\ broker[v] \in Broker /\ Adds(broker[v])
    BY <1>1, <2>1 DEF BookShape, AllAdd
  <2>3. Moves(broker[v], c, id) /\ Ended(c, id) /\ c.orders[id] \in BrokerOrder
    BY <2>1, <2>2, BookFilled
  <2> HIDE DEF c
  <2>4. EventsGrow(v, c, id)
    BY <2>1, <2>3 DEF EventsGrow
  <2>5. v = call.venue
    OBVIOUS
  <2> HIDE DEF v
  <2>6. BookTypes' /\ AllAdd' /\ EndsAgree' /\ EventsTell' /\ Recorded'
        /\ events' \in [Venues -> Seq(Event)]
    BY <1>2, <2>1, <2>2, <2>3, <2>4, <2>5, MemoryKeeps
  <2>7. BookShape'
    BY <1>1, <1>2, <2>1, <2>6 DEF BookShape, BookTypes
  <2> QED
    BY <2>6, <2>7 DEF FinalInv, BookInv, AllAdd
<1>5. CASE UpdateQuoteSaved
  <2> DEFINE v == call.venue
  <2>1. /\ step = "matching" /\ step' = "idle" /\ events' = events
        /\ broker' = [broker EXCEPT ![v] = broker[v]]
        /\ saved' = [saved EXCEPT ![v] = broker[v]]
    BY <1>5 DEF UpdateQuoteSaved, Persist
  <2>2. v \in Venues /\ broker \in [Venues -> Broker] /\ saved \in [Venues -> Broker]
    BY <1>1, <2>1 DEF BookShape
  <2>3. broker' = broker /\ \A w \in Venues : saved'[w] = IF w = v THEN broker[v] ELSE saved[w]
    BY <2>1, <2>2
  <2>4. saved' \in [Venues -> Broker]
    BY <2>1, <2>2
  <2>5. v = call.venue
    OBVIOUS
  <2> HIDE DEF v
  <2>6. BookShape' /\ AllAdd' /\ EventsTell'
    BY <1>1, <1>2, <2>1, <2>3, <2>4 DEF BookShape, AllAdd, EventsTell
  <2>7. ASSUME NEW w \in Venues, NEW id \in ClientIds, Ended(saved[w], id)
        PROVE  Ended(saved'[w], id) /\ saved'[w].orders[id] = saved[w].orders[id]
    <3>1. broker[w].orders[id] = saved[w].orders[id]
      BY <1>1, <2>7 DEF EndsAgree
    <3> QED
      BY <2>3, <2>7, <3>1 DEF Ended, Holds
  <2>8. EndsAgree'
    BY <1>1, <2>1, <2>3, <2>5 DEF EndsAgree
  <2>9. Recorded'
    BY <1>1, <1>2, <2>7 DEF Recorded
  <2> QED
    BY <2>6, <2>8, <2>9 DEF FinalInv, BookInv, AllAdd
<1>6. CASE \E v \in Venues, id \in ClientIds : Cancel(v, id)
  <2> PICK v \in Venues, id \in ClientIds : Cancel(v, id)
    BY <1>6
  <2> DEFINE c == [broker[v] EXCEPT !.orders[id].status = "CANCELED"]
  <2>1. /\ step = "idle" /\ step' = step /\ call' = call
        /\ Holds(broker[v], id) /\ broker[v].orders[id].status = "OPEN"
        /\ broker' = [broker EXCEPT ![v] = c] /\ saved' = [saved EXCEPT ![v] = c]
        /\ events' = [events EXCEPT ![v] = Append(events[v], OrderEvent(id, c.orders[id]))]
    BY DEF Cancel, Persist
  <2>2. broker[v] \in Broker /\ Adds(broker[v])
    BY <1>1, <2>1 DEF BookShape, AllAdd
  <2>3. Moves(broker[v], c, id) /\ Ended(c, id) /\ c.orders[id] \in BrokerOrder
    BY <2>1, <2>2, BookCanceled
  <2> HIDE DEF c
  <2>4. EventsGrow(v, c, id)
    BY <2>1, <2>3 DEF EventsGrow
  <2>6. BookTypes' /\ AllAdd' /\ EndsAgree' /\ EventsTell' /\ Recorded'
        /\ events' \in [Venues -> Seq(Event)]
    BY <1>2, <2>1, <2>2, <2>3, <2>4, WrittenKeeps
  <2>7. BookShape'
    BY <1>1, <1>2, <2>1, <2>6 DEF BookShape, BookTypes
  <2> QED
    BY <2>6, <2>7 DEF FinalInv, BookInv, AllAdd
<1> QED
  BY <1>3, <1>4, <1>5, <1>6 DEF Market

\* Reconciliation: the records follow the books.
LEMMA ReconcileKeeps ==
  ASSUME FinalInv, Reconcile
  PROVE  FinalInv'
<1>1. BookShape /\ AllAdd /\ EndsAgree /\ EventsTell /\ Recorded
  BY DEF FinalInv, BookInv, AllAdd
<1>2. broker' = broker /\ saved' = saved /\ events' = events
  BY DEF Reconcile, ReconcileAll, ReconcileOrder, ReconcileEnd, volatile
<1>3. AllAdd' /\ EventsTell'
  BY <1>1, <1>2 DEF AllAdd, EventsTell
<1>4. step \in {"idle", "reconciling"} /\ step' \in {"idle", "reconciling"}
  BY DEF Reconcile, ReconcileAll, ReconcileBegin, ReconcileOrder, ReconcileEnd
<1>5. EndsAgree'
  BY <1>1, <1>2, <1>4, QuietEnds
<1>6. CASE ReconcileAll \/ ReconcileEnd
  <2>1. /\ managed' = managed /\ scope' \subseteq Venues
        /\ todo' \subseteq {id \in ClientIds : managed[id] # None}
    BY <1>1, <1>6 DEF BookShape, ReconcileAll, ReconcileBegin, ReconcileEnd
  <2>2. BookShape' /\ Recorded'
    BY <1>1, <1>2, <1>4, <2>1 DEF BookShape, Recorded
  <2> QED
    BY <1>3, <1>5, <2>2 DEF FinalInv, BookInv, AllAdd
<1>7. CASE \E id \in ClientIds : ReconcileOrder(id)
  <2> PICK id \in ClientIds : ReconcileOrder(id)
    BY <1>7
  <2>1. /\ step = "reconciling" /\ step' = step /\ scope' = scope /\ todo' = todo \ {id}
        /\ id \in todo
    BY DEF ReconcileOrder
  <2>2. managed[id] \in ManagedOrder
    BY <1>1, <2>1 DEF BookShape
  <2>3. PICK rec : RecordFits(id, rec) /\ managed' = [managed EXCEPT ![id] = rec]
    <3>1. CASE \E v \in scope :
                 /\ Holds(broker[v], id)
                 /\ managed' = [managed EXCEPT ![id] = Apply(@, broker[v].orders[id], v)]
      <4> PICK v \in scope :
            /\ Holds(broker[v], id)
            /\ managed' = [managed EXCEPT ![id] = Apply(managed[id], broker[v].orders[id], v)]
        BY <3>1
      <4> DEFINE order == broker[v].orders[id]
      <4>1. v \in Venues /\ order \in BrokerOrder
        BY <1>1, OrderIsNotNone DEF BookShape
      <4>2. order.status # "OPEN" => Ended(saved[v], id) /\ saved[v].orders[id] = order
        BY <1>1, <2>1, <4>1 DEF EndsAgree, Ended, Holds
      <4> HIDE DEF order
      <4>3. RecordFits(id, Apply(managed[id], order, v))
        BY <2>2, <4>1, <4>2, ReportFits
      <4> QED
        BY <4>3 DEF order
    <3>2. CASE managed[id].state \in InFlight
               /\ managed' = [managed EXCEPT ![id].state = "UNKNOWN"]
      <4> DEFINE rec == [managed[id] EXCEPT !.state = "UNKNOWN"]
      <4>1. RecordFits(id, rec)
        BY <2>2 DEF RecordFits, ManagedOrder, LifecycleState, Terminal, Settled
      <4> QED
        BY <3>2, <4>1
    <3>3. CASE managed' = managed
      <4>1. RecordFits(id, managed[id]) /\ managed' = [managed EXCEPT ![id] = managed[id]]
        BY <1>1, <2>2, <3>3 DEF RecordFits, BookShape
      <4> QED
        BY <4>1
    <3> QED
      BY <3>1, <3>2, <3>3 DEF ReconcileOrder
  <2>4. /\ Recorded' /\ managed' \in [ClientIds -> ManagedOrder \cup {None}]
        /\ managed'[id] # None
        /\ \A i \in ClientIds : i # id => managed'[i] = managed[i]
    BY <1>1, <1>2, <2>3, RecordKeeps
  <2>5. BookShape'
    BY <1>1, <1>2, <2>1, <2>4 DEF BookShape
  <2> QED
    BY <1>3, <1>5, <2>4, <2>5 DEF FinalInv, BookInv, AllAdd
<1> QED
  BY <1>6, <1>7 DEF Reconcile

\* The queue of a venue loses its first event, or gains a disconnection.
LEMMA QueueKeeps ==
  ASSUME BookShape, EventsTell, NEW v \in Venues, broker' = broker,
         \/ events[v] # <<>> /\ events' = [events EXCEPT ![v] = Tail(events[v])]
         \/ events' = [events EXCEPT ![v] = Append(events[v], Disconnect)]
  PROVE  EventsTell' /\ events' \in [Venues -> Seq(Event)]
<1>1. events \in [Venues -> Seq(Event)] /\ Disconnect \in Event
  BY DEF BookShape, Event
<1>2. ASSUME NEW s \in Seq(Event), s # <<>>
      PROVE  /\ Tail(s) \in Seq(Event) /\ Len(s) \in Nat /\ Len(Tail(s)) = Len(s) - 1
             /\ \A i \in 1..Len(Tail(s)) : i + 1 \in 1..Len(s) /\ Tail(s)[i] = s[i + 1]
  BY <1>2
<1>3. ASSUME NEW s \in Seq(Event), NEW new \in Event
      PROVE  /\ Append(s, new) \in Seq(Event) /\ Len(s) \in Nat
             /\ Len(Append(s, new)) = Len(s) + 1
             /\ Append(s, new)[Len(s) + 1] = new
             /\ \A i \in 1..Len(s) : Append(s, new)[i] = s[i]
  BY <1>3
<1>4. events[v] \in Seq(Event)
  BY <1>1
<1>5. CASE events[v] # <<>> /\ events' = [events EXCEPT ![v] = Tail(events[v])]
  <2>1. \A w \in Venues : events'[w] = IF w = v THEN Tail(events[v]) ELSE events[w]
    BY <1>1, <1>5
  <2>2. ASSUME NEW w \in Venues, NEW i \in 1..Len(events'[w])
        PROVE  \E j \in 1..Len(events[w]) : events'[w][i] = events[w][j]
    BY <1>2, <1>4, <1>5, <2>1
  <2>3. EventsTell'
    BY <2>2 DEF EventsTell
  <2> QED
    BY <1>1, <1>2, <1>4, <1>5, <2>3
<1>6. CASE events' = [events EXCEPT ![v] = Append(events[v], Disconnect)]
  <2>1. \A w \in Venues :
          events'[w] = IF w = v THEN Append(events[v], Disconnect) ELSE events[w]
    BY <1>1, <1>6
  <2>2. ASSUME NEW w \in Venues, NEW i \in 1..Len(events'[w])
        PROVE  \/ events'[w][i] = Disconnect
               \/ \E j \in 1..Len(events[w]) : events'[w][i] = events[w][j]
    <3>1. CASE w # v
      BY <2>1, <3>1
    <3>2. CASE w = v
      <4>1. i \in 1..(Len(events[v]) + 1)
        BY <1>1, <1>3, <1>4, <2>1, <3>2
      <4>2. i = Len(events[v]) + 1 \/ i \in 1..Len(events[v])
        BY <1>1, <1>3, <1>4, <4>1
      <4>3. /\ Append(events[v], Disconnect)[Len(events[v]) + 1] = Disconnect
            /\ \A j \in 1..Len(events[v]) :
                 Append(events[v], Disconnect)[j] = events[v][j]
        BY <1>1, <1>3, <1>4
      <4> QED
        BY <2>1, <3>2, <4>2, <4>3
    <3> QED
      BY <3>1, <3>2
  <2>3. Disconnect.kind # "order"
    BY DEF Disconnect
  <2>4. EventsTell'
    BY <2>2, <2>3 DEF EventsTell
  <2> QED
    BY <1>1, <1>3, <1>4, <1>6, <2>4
<1> QED
  BY <1>5, <1>6

\* The stream of a venue: its next event, or the end of it.
LEMMA StreamKeeps ==
  ASSUME FinalInv, Stream
  PROVE  FinalInv'
<1>1. BookShape /\ AllAdd /\ EndsAgree /\ EventsTell /\ Recorded
  BY DEF FinalInv, BookInv, AllAdd
<1> PICK v \in Venues : ProcessEvent(v) \/ DropStream(v) \/ StreamBroken(v)
  BY DEF Stream
<1>2. /\ broker' = broker /\ saved' = saved /\ call' = call /\ step = "idle"
      /\ \/ events[v] # <<>> /\ events' = [events EXCEPT ![v] = Tail(events[v])]
         \/ events' = [events EXCEPT ![v] = Append(events[v], Disconnect)]
  BY DEF ProcessEvent, DropStream, StreamBroken
<1>3. EventsTell' /\ events' \in [Venues -> Seq(Event)]
  BY <1>1, <1>2, QueueKeeps
<1>4. AllAdd' /\ EndsAgree'
  BY <1>1, <1>2, QuietEnds DEF AllAdd
<1>5. CASE DropStream(v) \/ StreamBroken(v)
  <2>1. /\ managed' = managed /\ scope' \subseteq Venues /\ step' \in {"idle", "reconciling"}
        /\ todo' \subseteq {id \in ClientIds : managed[id] # None}
    BY <1>1, <1>5 DEF BookShape, DropStream, StreamBroken, ReconcileBegin
  <2>2. BookShape' /\ Recorded'
    BY <1>1, <1>2, <1>3, <2>1 DEF BookShape, Recorded
  <2> QED
    BY <1>3, <1>4, <2>2 DEF FinalInv, BookInv, AllAdd
<1>6. CASE ProcessEvent(v)
  <2> DEFINE event == Head(events[v])
  <2>1. /\ scope' = scope /\ todo' = todo /\ step' = step
        /\ events[v] # <<>> /\ event.kind = "order"
        /\ managed' = IF managed[event.id] = None
                        THEN managed
                        ELSE [managed EXCEPT ![event.id] =
                                Apply(managed[event.id], event.order, v)]
    BY <1>6 DEF ProcessEvent
  <2>2. /\ event \in Event /\ Ended(broker[v], event.id)
        /\ broker[v].orders[event.id] = event.order
    <3>1. ASSUME NEW s \in Seq(Event), s # <<>>
          PROVE  1 \in 1..Len(s) /\ Head(s) = s[1] /\ s[1] \in Event
      BY <3>1
    <3>2. 1 \in 1..Len(events[v]) /\ event = events[v][1] /\ event \in Event
      BY <1>1, <2>1, <3>1 DEF BookShape
    <3> QED
      BY <1>1, <2>1, <3>2 DEF EventsTell
  <2> HIDE DEF event
  <2>3. event.id \in ClientIds /\ event.order \in BrokerOrder
    BY <2>1, <2>2, EventShape
  <2>4. CASE managed[event.id] = None
    <3>1. BookShape' /\ Recorded'
      BY <1>1, <1>2, <1>3, <2>1, <2>4 DEF BookShape, Recorded
    <3> QED
      BY <1>3, <1>4, <3>1 DEF FinalInv, BookInv, AllAdd
  <2>5. CASE managed[event.id] # None
    <3>1. managed[event.id] \in ManagedOrder
      BY <1>1, <2>3, <2>5 DEF BookShape
    <3>2. Ended(saved[v], event.id) /\ saved[v].orders[event.id] = event.order
      BY <1>1, <1>2, <2>2, <2>3 DEF EndsAgree, Ended, Holds
    <3>3. RecordFits(event.id, Apply(managed[event.id], event.order, v))
      BY <2>3, <3>1, <3>2, ReportFits
    <3>4. /\ Recorded' /\ managed' \in [ClientIds -> ManagedOrder \cup {None}]
          /\ managed'[event.id] # None
          /\ \A i \in ClientIds : i # event.id => managed'[i] = managed[i]
      BY <1>1, <1>2, <2>1, <2>3, <2>5, <3>3, RecordKeeps
    <3>5. BookShape'
      BY <1>1, <1>2, <1>3, <2>1, <3>4 DEF BookShape
    <3> QED
      BY <1>3, <1>4, <3>4, <3>5 DEF FinalInv, BookInv, AllAdd
  <2> QED
    BY <2>4, <2>5
<1> QED
  BY <1>5, <1>6

\* The death of the process leaves the books, its restart reads them from disk.
LEMMA DeathKeeps ==
  ASSUME FinalInv, Crash \/ Restart
  PROVE  FinalInv'
<1>1. BookShape /\ AllAdd /\ EndsAgree /\ EventsTell /\ Recorded
  BY DEF FinalInv, BookInv, AllAdd
<1>2. CASE Crash
  <2>1. /\ broker' = broker /\ saved' = saved /\ events' = events /\ managed' = managed
        /\ step' = "down" /\ todo' = {} /\ scope' = {}
    BY <1>2 DEF Crash, volatile
  <2>2. BookShape' /\ AllAdd' /\ EventsTell' /\ Recorded'
    BY <1>1, <2>1 DEF BookShape, AllAdd, EventsTell, Recorded
  <2>3. EndsAgree'
    BY <1>1, <2>1, QuietEnds
  <2> QED
    BY <2>2, <2>3 DEF FinalInv, BookInv, AllAdd
<1>3. CASE Restart
  <2>1. /\ broker' = saved /\ saved' = saved /\ managed' = managed
        /\ events' = [v \in Venues |-> <<>>]
        /\ scope' \subseteq Venues /\ step' \in {"idle", "reconciling"}
        /\ todo' \subseteq {id \in ClientIds : managed[id] # None}
    BY <1>1, <1>3 DEF BookShape, Restart, ReconcileBegin
  <2>2. BookShape' /\ AllAdd' /\ Recorded'
    BY <1>1, <2>1 DEF BookShape, AllAdd, Recorded
  <2>3. EndsAgree' /\ EventsTell'
    BY <1>1, <2>1 DEF EndsAgree, EventsTell
  <2> QED
    BY <2>2, <2>3 DEF FinalInv, BookInv, AllAdd
<1> QED
  BY <1>2, <1>3

\* At first there are no orders, and no position.
LEMMA InitFinalInv == Init => FinalInv
<1> SUFFICES ASSUME Init PROVE FinalInv
  OBVIOUS
<1>1. \A v \in Venues : broker[v] = EmptyBroker /\ saved[v] = EmptyBroker
  BY DEF Init
<1>2. BookInv
  BY <1>1, BookEmpty DEF Init, BookInv, BookShape
<1>3. EndsAgree /\ EventsTell /\ Recorded
  BY <1>1 DEF Init, EndsAgree, Ended, Holds, EmptyBroker, EventsTell, Recorded
<1> QED
  BY <1>2, <1>3 DEF FinalInv

\* Every step keeps records, saved books and positions in agreement.
LEMMA NextFinalInv == FinalInv /\ [Next]_vars => FinalInv'
<1> SUFFICES ASSUME FinalInv, [Next]_vars PROVE FinalInv'
  OBVIOUS
<1>1. CASE UNCHANGED vars
  <2>1. /\ managed' = managed /\ broker' = broker /\ saved' = saved /\ events' = events
        /\ step' = step /\ call' = call /\ todo' = todo /\ scope' = scope
    BY <1>1 DEF vars
  <2>2. BookShape /\ AllAdd /\ EndsAgree /\ EventsTell /\ Recorded
    BY DEF FinalInv, BookInv, AllAdd
  <2>3. BookShape'
    BY <2>1, <2>2 DEF BookShape
  <2>4. AllAdd' /\ EndsAgree' /\ EventsTell' /\ Recorded'
    BY <2>1, <2>2 DEF AllAdd, EndsAgree, EventsTell, Recorded
  <2> QED
    BY <2>3, <2>4 DEF FinalInv, BookInv, AllAdd
<1> QED
  BY <1>1, SubmitKeeps, VenueKeeps, MarketKeeps, ReconcileKeeps, StreamKeeps, DeathKeeps
     DEF Next, Submit

\* Books, queues and records stay in step, whatever dies, repeats or is retried,
\* for every number of venues and with MARKET orders and streams as well.
THEOREM FinalInvariant == Spec => []FinalInv
BY InitFinalInv, NextFinalInv, PTL DEF Spec

\* Position and fills of every book are those of its filled orders: no crash and no
\* repeated quote or submission fills an order twice (PaperAdapter._fill and _save).
THEOREM BooksAddUp == Spec => []PositionIsFills
<1>1. FinalInv => PositionIsFills
  <2> SUFFICES ASSUME FinalInv PROVE PositionIsFills
    OBVIOUS
  <2>1. \A b \in {broker[v] : v \in Venues} \cup {saved[v] : v \in Venues} :
          /\ b.position = Total(b.orders, FilledIds(b))
          /\ \A id \in ClientIds : b.fills[id] = IF id \in FilledIds(b) THEN 1 ELSE 0
    BY DEF FinalInv, BookInv, Adds
  <2> QED
    BY <2>1 DEF PositionIsFills, FilledIds, Total
<1> QED
  BY <1>1, FinalInvariant, PTL

\* A report from the venue a final record names is the one it was made from; any
\* other venue has no order of that id to report.
LEMMA FinalKeeps ==
  ASSUME FinalInv, OneVenue, NEW id \in ClientIds, managed[id] # None,
         managed[id].state \in Terminal, NEW v \in Venues, Holds(broker[v], id),
         NEW order, order = broker[v].orders[id]
  PROVE  Apply(managed[id], order, v) = managed[id]
<1>1. broker \in [Venues -> Broker] /\ managed[id] \in ManagedOrder /\ order \in BrokerOrder
  BY OrderIsNotNone DEF FinalInv, BookInv, BookShape
<1>2. PICK w \in Venues :
        /\ Ended(saved[w], id) /\ managed[id].venue = w
        /\ managed[id].state = saved[w].orders[id].status
        /\ managed[id].filled = FilledQuantity(saved[w].orders[id])
  BY DEF FinalInv, Recorded
<1>3. broker[w].orders[id] = saved[w].orders[id] /\ Holds(broker[w], id)
  BY <1>2 DEF FinalInv, EndsAgree, Ended, Holds
<1>4. w = v
  BY <1>3 DEF OneVenue
<1>5. /\ managed[id].state = order.status /\ managed[id].filled = FilledQuantity(order)
      /\ managed[id].venue = v
  BY <1>2, <1>3, <1>4
<1> QED
  BY <1>1, <1>5, ApplyCases

\* With one venue there is no other.
OnlyVenue == \E v : Venues = {v}

\* No step changes a final record.
LEMMA StepIsFinal ==
  ASSUME FinalInv, OneVenue, [Next]_vars, NEW id \in ClientIds, managed[id] # None,
         managed[id].state \in Terminal
  PROVE  managed'[id] = managed[id]
<1>1. managed \in [ClientIds -> ManagedOrder \cup {None}] /\ broker \in [Venues -> Broker]
  BY DEF FinalInv, BookInv, BookShape
<1>2. CASE managed' = managed
  BY <1>2
<1>3. CASE \E i \in ClientIds, v \in Venues, q \in Quantities : SubmitBegin(i, v, q)
  BY <1>1, <1>3 DEF SubmitBegin, Settled
<1>4. CASE SubmitAcknowledged
  BY <1>1, <1>4 DEF SubmitAcknowledged, Transition, Terminal
<1>5. CASE \E i \in ClientIds : ReconcileOrder(i)
  <2> PICK i \in ClientIds : ReconcileOrder(i)
    BY <1>5
  <2>1. CASE i # id
    BY <1>1, <2>1 DEF ReconcileOrder
  <2>2. CASE i = id /\ \A v \in scope : ~ Holds(broker[v], id)
    BY <1>1, <2>2 DEF ReconcileOrder, Terminal, InFlight
  <2>3. CASE i = id /\ \E v \in scope : Holds(broker[v], id)
    <3>1. PICK v \in scope :
            /\ Holds(broker[v], id)
            /\ managed' = [managed EXCEPT ![id] = Apply(managed[id], broker[v].orders[id], v)]
      BY <2>3 DEF ReconcileOrder
    <3>2. v \in Venues
      BY <3>1 DEF FinalInv, BookInv, BookShape
    <3>3. Apply(managed[id], broker[v].orders[id], v) = managed[id]
      BY <3>1, <3>2, FinalKeeps
    <3> QED
      BY <1>1, <3>1, <3>3
  <2> QED
    BY <2>1, <2>2, <2>3
<1>6. CASE \E v \in Venues : ProcessEvent(v)
  <2> PICK v \in Venues : ProcessEvent(v)
    BY <1>6
  <2> DEFINE event == Head(events[v])
  <2>1. /\ events[v] # <<>> /\ event.kind = "order"
        /\ managed' = IF managed[event.id] = None
                        THEN managed
                        ELSE [managed EXCEPT ![event.id] =
                                Apply(managed[event.id], event.order, v)]
    BY DEF ProcessEvent
  <2>2. Ended(broker[v], event.id) /\ broker[v].orders[event.id] = event.order
    <3>1. ASSUME NEW s \in Seq(Event), s # <<>>
          PROVE  1 \in 1..Len(s) /\ Head(s) = s[1]
      BY <3>1
    <3>2. 1 \in 1..Len(events[v]) /\ event = events[v][1]
      BY <2>1, <3>1 DEF FinalInv, BookInv, BookShape
    <3> QED
      BY <2>1, <3>2 DEF FinalInv, EventsTell
  <2> HIDE DEF event
  <2>3. CASE event.id # id
    BY <1>1, <2>1, <2>3
  <2>4. CASE event.id = id
    <3>1. Apply(managed[id], event.order, v) = managed[id]
      BY <2>2, <2>4, FinalKeeps DEF Ended
    <3> QED
      BY <1>1, <2>1, <2>4, <3>1
  <2> QED
    BY <2>3, <2>4
<1>7. \/ managed' = managed
      \/ \E i \in ClientIds, v \in Venues, q \in Quantities : SubmitBegin(i, v, q)
      \/ SubmitAcknowledged
      \/ \E i \in ClientIds : ReconcileOrder(i)
      \/ \E v \in Venues : ProcessEvent(v)
  BY DEF Next, vars, Submit, SubmitSettled, VenueRepeats, VenueAccepts, VenueRaises, Market,
         UpdateQuote, MatchFill, UpdateQuoteSaved, Cancel, Reconcile, ReconcileAll,
         ReconcileEnd, Stream, DropStream, StreamBroken, Crash, Restart
<1> QED
  BY <1>2, <1>3, <1>4, <1>5, <1>6, <1>7

\* A final record never changes again, whatever events and snapshots say later: for the
\* engine with all its venues, and for one venue with MARKET orders and streams as well
\* (OrderManager._transition).
THEOREM FinalIsFinal ==
  ASSUME Engine \/ OnlyVenue
  PROVE  Spec => TerminalIsFinal
<1>1. FinalInv /\ OneVenue /\ [Next]_vars =>
        \A id \in ClientIds :
          managed[id] # None /\ managed[id].state \in Terminal => managed'[id] = managed[id]
  BY StepIsFinal
<1>2. CASE Engine
  <2>1. Spec => []OneVenue
    BY <1>2, SingleVenue
  <2> QED
    BY <1>1, <2>1, FinalInvariant, PTL DEF Spec, TerminalIsFinal
<1>3. CASE OnlyVenue
  <2>1. OneVenue
    BY <1>3 DEF OnlyVenue, OneVenue
  <2> QED
    BY <1>1, <2>1, FinalInvariant, PTL DEF Spec, TerminalIsFinal
<1> QED
  BY <1>2, <1>3
=============================================================================
