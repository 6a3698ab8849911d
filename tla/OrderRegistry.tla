---------------------------- MODULE OrderRegistry ----------------------------
(***************************************************************************)
(* What the order path promises its caller, with no process, no crash and  *)
(* no second copy: a client order id is placed at most once, at one venue, *)
(* with one quantity; from then on it can only be filled or canceled, once *)
(* and for good.  crypto/order_manager.py, crypto/adapters/paper.py and    *)
(* core/state.py implement it together (OrderLifecycle).                   *)
(***************************************************************************)
CONSTANTS ClientIds, Venues, Quantities, None

VARIABLE placed   \* client id -> None or the one order placed under it

Placed == [venue: Venues, quantity: Quantities, status: {"OPEN", "FILLED", "CANCELED"}]

Init == placed = [id \in ClientIds |-> None]

Place(id) ==
  /\ placed[id] = None
  /\ \E order \in Placed :
       /\ order.status \in {"OPEN", "FILLED"}
       /\ placed' = [placed EXCEPT ![id] = order]

\* One quote, or one cancellation, finishes a set of open orders.
Finish(ids, status) ==
  /\ \A id \in ids : placed[id] # None /\ placed[id].status = "OPEN"
  /\ placed' = [id \in ClientIds |->
                  IF id \in ids THEN [placed[id] EXCEPT !.status = status] ELSE placed[id]]

Next ==
  \/ \E id \in ClientIds : Place(id)
  \/ \E ids \in SUBSET ClientIds, status \in {"FILLED", "CANCELED"} : Finish(ids, status)

Spec == Init /\ [][Next]_placed
=============================================================================
