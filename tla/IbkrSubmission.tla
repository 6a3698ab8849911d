--------------------------- MODULE IbkrSubmission ---------------------------
(***************************************************************************)
(* adapters/ibkr.py: how approved futures orders reach IB Gateway.  A      *)
(* submission writes a PREPARED record, looks the order up at the Gateway  *)
(* by its reference, places it when it is not there and writes the order   *)
(* number.  submit_limit_with_market_fallback submits a LIMIT order, waits,*)
(* cancels it, and submits a MARKET order once the cancellation is         *)
(* confirmed.  Stops are submitted without retries.                        *)
(*                                                                         *)
(* Granularity.  Callers are coroutines on one event loop, so an action    *)
(* ends where the code awaits.  The process may die between placeOrder     *)
(* and the write that follows it, which no other coroutine comes between.  *)
(*                                                                         *)
(* IB Gateway and ib_async are external.  They are modelled by what the    *)
(* code relies on: a reference is found once the Gateway has the order, a  *)
(* request in flight when the connection breaks arrives or is lost, the    *)
(* Gateway admits the client id again only after that, and a Trade is no   *)
(* longer updated once its connection is gone.                             *)
(***************************************************************************)
EXTENDS Integers, Sequences, FiniteSets

CONSTANTS
  Callers,     \* concurrent coroutines that use the adapter
  Limit,       \* the LIMIT order of the pair
  Market,      \* the MARKET order of the pair
  Stops,       \* ids of catastrophe stops
  Alone,       \* ids that callers also give to submit_order by themselves
  Quantity,    \* contracts of every order
  Retries,     \* IBKRConfig.restart_retries
  MaxCrashes,  \* bound: process deaths
  None         \* absence of a record

ASSUME ConstantsAssumption ==
  /\ Limit # Market
  /\ Limit \notin Stops /\ Market \notin Stops
  /\ Alone \subseteq {Limit} \cup Stops
  /\ Quantity \in Nat \ {0}
  /\ Retries \in Nat \ {0}
  /\ MaxCrashes \in Nat

VARIABLES
  record,      \* the submission documents in the StateStore
  orders,      \* every order placeOrder sent, by number
  conn,        \* the socket, and whether _connectivity_lost is set on it
  window,      \* whether the execution window is open
  call,        \* per caller, where its call stands
  crashes      \* number of process deaths so far

vars == <<record, orders, conn, window, call, crashes>>

-----------------------------------------------------------------------------
(* Data.                                                                   *)

Pair == {Limit, Market}

Ids == Pair \cup Stops

\* _ib_order: a stop's orderRef is CATSTOP:<id>:<contract>, others' is the id.
OrderRef(id) == IF id \in Stops THEN <<"CATSTOP", id>> ELSE id

\* A reference with the prefix is not a client id.
ASSUME RefsAssumption == \A id \in Stops : OrderRef(id) \notin Pair

\* Trade.isDone.
Done == {"Filled", "Cancelled", "Inactive"}

\* PendingSubmit: still on the wire.  Lost: the Gateway never saw it.
Status == Done \cup {"PendingSubmit", "Submitted", "Lost"}

Order == [ref: {OrderRef(id) : id \in Ids}, status: Status,
          filled: 0..Quantity, cancel: BOOLEAN]

NewOrder(id) == [ref |-> OrderRef(id), status |-> "PendingSubmit",
                 filled |-> 0, cancel |-> FALSE]

\* fallback: a call of submit_limit_with_market_fallback, not of submit_order;
\* prior: a number was on record when the call looked; order, view and live:
\* the Trade the call holds, its status, and whether it is still updated.
Call == [at: {"idle", "connect", "load", "find", "record", "wait", "cancel", "repair"},
         id: Ids \cup {None}, fallback: BOOLEAN, prior: BOOLEAN, order: Nat, view: Status,
         live: BOOLEAN, tries: 0..Retries]

\* A call without a Trade.
Attempt(at, id, fallback, tries) ==
  [at |-> at, id |-> id, fallback |-> fallback, prior |-> FALSE, order |-> 0,
   view |-> "PendingSubmit", live |-> FALSE, tries |-> tries]

NoCall == Attempt("idle", None, FALSE, 0)

NewCall(id, fallback) == Attempt("connect", id, fallback, Retries)

\* Mutant: only the open orders are searched.
MutFound(id) == {n \in DOMAIN orders :
                   orders[n].ref = id /\ orders[n].status \in {"PendingSubmit", "Submitted"}}

\* _find_trade: the open, the completed and the locally known orders, by
\* orderRef = client_order_id.
Found(id) == {n \in DOMAIN orders :
                orders[n].ref = id /\ orders[n].status # "Lost"}

\* Mutant: a failed attempt is not counted.
MutFailed(k) == IF k.fallback THEN Attempt("repair", k.id, TRUE, k.tries) ELSE NoCall

\* A ConnectionError, which _restart_retry catches for fallback calls.
Failed(k) == IF k.fallback THEN Attempt("repair", k.id, TRUE, k.tries - 1) ELSE NoCall

\* What the end of a connection does to a call.
Cut(k) == CASE k.at = "find" -> Failed(k)
            [] k.at \in {"wait", "cancel"} -> [k EXCEPT !.live = FALSE]
            [] OTHER -> k

\* Requests on the wire arrive or are lost, whichever, when it goes down.
Severed ==
  {[n \in DOMAIN orders |->
      IF orders[n].status = "PendingSubmit"
        THEN [orders[n] EXCEPT !.status = IF n \in lost THEN "Lost" ELSE "Submitted",
                               !.cancel = @ /\ n \notin lost]
        ELSE [orders[n] EXCEPT !.cancel = @ /\ n \notin lost]] :
     lost \in SUBSET {n \in DOMAIN orders :
                        orders[n].status = "PendingSubmit" \/ orders[n].cancel}}

-----------------------------------------------------------------------------
Init ==
  /\ record = [id \in Ids |-> None]
  /\ orders = <<>>
  /\ conn = "down"
  /\ window = TRUE
  /\ call = [c \in Callers |-> NoCall]
  /\ crashes = 0

\* No coroutine is between placeOrder and the write that follows it.
Yielded == \A c \in Callers : call[c].at # "record"

Goto(c, k) == call' = [call EXCEPT ![c] = k]

\* submit_limit_with_market_fallback refuses outside the window.
BeginFallback(c) ==
  /\ Yielded /\ call[c].at = "idle"
  /\ window
  /\ Goto(c, NewCall(Limit, TRUE))
  /\ UNCHANGED <<record, orders, conn, window, crashes>>

\* submit_order, and submit_catastrophe_stop, which calls it.
BeginSubmit(c, id) ==
  /\ Yielded /\ call[c].at = "idle"
  /\ Goto(c, NewCall(id, FALSE))
  /\ UNCHANGED <<record, orders, conn, window, crashes>>

\* _restart_retry leaves when an attempt would start outside the window.
AttemptTooLate(c) ==
  /\ Yielded /\ call[c].at = "connect"
  /\ call[c].fallback /\ ~window
  /\ Goto(c, NoCall)
  /\ UNCHANGED <<record, orders, conn, window, crashes>>

\* _submit_trade calls ensure_connected.
MayAttempt(c) ==
  /\ Yielded /\ call[c].at = "connect"
  /\ call[c].fallback => window

\* ensure_connected has to connect anew: for an attempt when the connection is
\* not in order, for the handler of _restart_retry always, as it has just set
\* _connectivity_lost.
MustReconnect(c) ==
  \/ MayAttempt(c) /\ conn # "up"
  \/ Yielded /\ call[c].at = "repair"

\* Where a call goes once ensure_connected has returned: into _submit_trade,
\* or from the handler of _restart_retry to the next attempt if there is one.
Connected(k) == IF k.at = "connect" THEN [k EXCEPT !.at = "load"]
                ELSE IF k.tries = 0 THEN NoCall
                ELSE [k EXCEPT !.at = "connect"]

\* ensure_connected finds the connection in order.
EnsureConnected(c) ==
  /\ MayAttempt(c) /\ conn = "up"
  /\ Goto(c, Connected(call[c]))
  /\ UNCHANGED <<record, orders, conn, window, crashes>>

\* ensure_connected drops what is left of the connection, whoever uses it, and
\* gets a new one.
Reconnect(c) ==
  /\ MustReconnect(c)
  /\ conn' = "up"
  /\ orders' \in Severed
  /\ call' = [d \in Callers |-> IF d = c THEN Connected(call[d]) ELSE Cut(call[d])]
  /\ UNCHANGED <<record, window, crashes>>

\* ensure_connected uses up its attempts: the error is retried by
\* _restart_retry unless its own handler raised it.
ReconnectFails(c) ==
  /\ MustReconnect(c)
  /\ conn' = "down"
  /\ orders' \in Severed
  /\ call' = [d \in Callers |->
                IF d # c THEN Cut(call[d])
                ELSE IF call[c].at = "connect" THEN Failed(call[c]) ELSE NoCall]
  /\ UNCHANGED <<record, window, crashes>>

\* _submit_trade reads the record, writes PREPARED over none, and asks the
\* Gateway for its orders, which fails at once without a connection.
Load(c) ==
  LET id == call[c].id IN
  /\ Yielded /\ call[c].at = "load"
  /\ record' = [record EXCEPT ![id] = IF @ = None THEN "PREPARED" ELSE @]
  /\ Goto(c, IF conn = "down" THEN Failed(call[c])
             ELSE [call[c] EXCEPT !.at = "find", !.prior = (record[id] = "PLACED")])
  /\ UNCHANGED <<orders, conn, window, crashes>>

\* A call that has its Trade: a fallback call waits for its limit order, others
\* are answered.
Holding(k, n) == IF k.fallback /\ k.id = Limit
                   THEN [k EXCEPT !.at = "wait", !.order = n, !.live = TRUE,
                                  !.view = orders[n].status]
                   ELSE NoCall

\* _submit_trade returns the order it found, and writes nothing.
FindExisting(c) ==
  /\ Yielded /\ call[c].at = "find"
  /\ \E n \in Found(call[c].id) : Goto(c, Holding(call[c], n))
  /\ UNCHANGED <<record, orders, conn, window, crashes>>

\* _submit_trade refuses to place an order whose number is on record.
RefuseDuplicate(c) ==
  /\ Yielded /\ call[c].at = "find"
  /\ Found(call[c].id) = {} /\ call[c].prior
  /\ Goto(c, NoCall)
  /\ UNCHANGED <<record, orders, conn, window, crashes>>

\* Mutant: the number on record is not looked at.
MutPlace(c) ==
  /\ Yielded /\ call[c].at = "find"
  /\ Found(call[c].id) = {}
  /\ orders' = Append(orders, NewOrder(call[c].id))
  /\ Goto(c, [call[c] EXCEPT !.at = "record", !.order = Len(orders) + 1])
  /\ UNCHANGED <<record, conn, window, crashes>>

\* placeOrder sends the order and returns.
Place(c) ==
  /\ Yielded /\ call[c].at = "find"
  /\ Found(call[c].id) = {} /\ ~call[c].prior
  /\ orders' = Append(orders, NewOrder(call[c].id))
  /\ Goto(c, [call[c] EXCEPT !.at = "record", !.order = Len(orders) + 1])
  /\ UNCHANGED <<record, conn, window, crashes>>

\* _submit_trade records the number of the order it placed.
Record(c) ==
  /\ call[c].at = "record"
  /\ record' = [record EXCEPT ![call[c].id] = "PLACED"]
  /\ Goto(c, Holding(call[c], call[c].order))
  /\ UNCHANGED <<orders, conn, window, crashes>>

\* The limit order is done before its time is up.
LimitDone(c) ==
  /\ Yielded /\ call[c].at = "wait"
  /\ call[c].view \in Done
  /\ Goto(c, NoCall)
  /\ UNCHANGED <<record, orders, conn, window, crashes>>

\* The time is up: cancelOrder, which raises without a connection.
LimitTimeout(c) ==
  LET n == call[c].order IN
  /\ Yielded /\ call[c].at = "wait"
  /\ call[c].view \notin Done
  /\ IF conn = "down"
       THEN Goto(c, NoCall) /\ UNCHANGED orders
       ELSE /\ Goto(c, [call[c] EXCEPT !.at = "cancel"])
            /\ orders' = [orders EXCEPT ![n].cancel = orders[n].status # "Lost"]
  /\ UNCHANGED <<record, conn, window, crashes>>

\* The limit order was filled, its cancellation is not confirmed, or the window
\* has closed: the call ends without a market order.
NoFallback(c) ==
  /\ Yielded /\ call[c].at = "cancel"
  /\ call[c].view # "Cancelled" \/ ~window
  /\ Goto(c, NoCall)
  /\ UNCHANGED <<record, orders, conn, window, crashes>>

\* Mutant: whatever is not filled counts as cancelled.
MutFallBack(c) ==
  /\ Yielded /\ call[c].at = "cancel"
  /\ call[c].view # "Filled" /\ window
  /\ Goto(c, NewCall(Market, TRUE))
  /\ UNCHANGED <<record, orders, conn, window, crashes>>

\* The cancellation is confirmed: on to the market order.
FallBack(c) ==
  /\ Yielded /\ call[c].at = "cancel"
  /\ call[c].view = "Cancelled" /\ window
  /\ Goto(c, NewCall(Market, TRUE))
  /\ UNCHANGED <<record, orders, conn, window, crashes>>

-----------------------------------------------------------------------------
(* The Gateway, the connection, the clock and the process.                 *)

\* An order arrives and is accepted or rejected.
Deliver(n) ==
  /\ orders[n].status = "PendingSubmit"
  /\ \E s \in {"Submitted", "Inactive"} : orders' = [orders EXCEPT ![n].status = s]
  /\ UNCHANGED <<record, conn, window, call, crashes>>

\* One contract of what is left trades.
Fill(n) ==
  /\ orders[n].status = "Submitted" /\ orders[n].filled < Quantity
  /\ orders' = [orders EXCEPT ![n].filled = @ + 1,
                              ![n].status = IF orders[n].filled + 1 = Quantity
                                              THEN "Filled" ELSE @]
  /\ UNCHANGED <<record, conn, window, call, crashes>>

\* A cancellation arrives; it comes too late for an order that is done.
Cancel(n) ==
  /\ orders[n].cancel /\ orders[n].status # "PendingSubmit"
  /\ orders' = [orders EXCEPT ![n].cancel = FALSE,
                              ![n].status = IF @ = "Submitted" THEN "Cancelled" ELSE @]
  /\ UNCHANGED <<record, conn, window, call, crashes>>

\* A status reaches every call that holds the Trade of this connection.
Report(n) ==
  LET Behind(c) == /\ call[c].at \in {"wait", "cancel"} /\ call[c].live
                   /\ call[c].order = n /\ call[c].view # orders[n].status
  IN
  /\ Yielded /\ conn # "down"
  /\ \E c \in Callers : Behind(c)
  /\ call' = [c \in Callers |->
                IF Behind(c) THEN [call[c] EXCEPT !.view = orders[n].status] ELSE call[c]]
  /\ UNCHANGED <<record, orders, conn, window, crashes>>

\* handle_connectivity_error: 1100 and 1300, then 1101 and 1102.
ConnectivityError ==
  /\ Yielded
  /\ \/ conn = "up" /\ conn' = "impaired"
     \/ conn = "impaired" /\ conn' = "up"
  /\ UNCHANGED <<record, orders, window, call, crashes>>

\* The Gateway restarts or the socket breaks.
Drop ==
  /\ Yielded /\ conn # "down"
  /\ conn' = "down"
  /\ orders' \in Severed
  /\ call' = [c \in Callers |-> Cut(call[c])]
  /\ UNCHANGED <<record, window, crashes>>

\* 14:35 UTC.
WindowCloses ==
  /\ Yielded /\ window
  /\ window' = FALSE
  /\ UNCHANGED <<record, orders, conn, call, crashes>>

\* The process dies; callers of the next one may submit the same ids again.
Crash ==
  /\ crashes < MaxCrashes
  /\ crashes' = crashes + 1
  /\ conn' = "down"
  /\ orders' \in Severed
  /\ call' = [c \in Callers |-> NoCall]
  /\ UNCHANGED <<record, window>>

-----------------------------------------------------------------------------
\* The steps a call takes once it has begun.
Proceed(c) ==
  \/ AttemptTooLate(c) \/ EnsureConnected(c) \/ Reconnect(c) \/ ReconnectFails(c)
  \/ Load(c) \/ FindExisting(c) \/ RefuseDuplicate(c) \/ Place(c) \/ Record(c)
  \/ LimitDone(c) \/ LimitTimeout(c) \/ NoFallback(c) \/ FallBack(c)

Gateway(n) == Deliver(n) \/ Fill(n) \/ Cancel(n) \/ Report(n)

Next ==
  \/ \E c \in Callers : BeginFallback(c)
  \/ \E c \in Callers, id \in Alone : BeginSubmit(c, id)
  \/ \E c \in Callers : Proceed(c)
  \/ \E n \in DOMAIN orders : Gateway(n)
  \/ ConnectivityError \/ Drop \/ WindowCloses \/ Crash

Spec == Init /\ [][Next]_vars

-----------------------------------------------------------------------------
(* Properties.                                                             *)

Attempts(id) == {n \in DOMAIN orders : orders[n].ref = OrderRef(id)}

AtGateway(id) == {n \in Attempts(id) : orders[n].status # "Lost"}

\* Every variable has its type; at most one call is between placing and recording.
TypeOK ==
  /\ record \in [Ids -> {None, "PREPARED", "PLACED"}]
  /\ orders \in Seq(Order)
  /\ conn \in {"up", "impaired", "down"}
  /\ window \in BOOLEAN
  /\ call \in [Callers -> Call]
  /\ \A c \in Callers : call[c].order \in 0..Len(orders)
  /\ crashes \in 0..MaxCrashes

\* persistent idempotency of _submit_trade: however often the pair is submitted,
\* by concurrent calls, retries over broken connections and restarted processes,
\* the Gateway gets at most one LIMIT and one MARKET order.
OneOrderPerId == \A id \in Pair : Cardinality(AtGateway(id)) <= 1

\* submit_limit_with_market_fallback never has both orders of the pair able to
\* trade: a MARKET order is only sent when the LIMIT order is cancelled for
\* good, whatever fills, reports and reconnections come in between.
FallbackExclusive ==
  AtGateway(Market) # {} => \A n \in AtGateway(Limit) : orders[n].status = "Cancelled"

\* "refusing duplicate": once the number of an order of the pair is on record,
\* no order is sent for its id again, not even when the Gateway lost the first.
RecordedNeverResent ==
  [][\A id \in Pair : record[id] = "PLACED" => Attempts(id)' = Attempts(id)]_vars

\* The stages of an attempt, counted down.
Stage == [repair |-> 7, connect |-> 6, load |-> 5, find |-> 4, record |-> 3,
          wait |-> 2, cancel |-> 1, idle |-> 0]

\* What a call has still before it: its legs, its attempts, its stages.
Remaining(k) == IF k.at = "idle" THEN 0
                ELSE (IF k.fallback /\ k.id = Limit THEN 8 * (Retries + 1) ELSE 0)
                     + 8 * k.tries + Stage[k.at]

\* _restart_retry and the fallback are bounded: whatever the Gateway and the
\* connection do, a call that was begun only gets nearer to its end.
CallsAdvance ==
  [][\A c \in Callers :
       call[c].at # "idle" /\ call[c]' # call[c] =>
         \/ Remaining(call[c])' < Remaining(call[c])
         \/ /\ Remaining(call[c])' = Remaining(call[c])
            /\ call[c]'.at \in {"wait", "cancel"}]_vars

\* The limit order was cancelled, for good, at the Gateway.
LimitOver == \E n \in AtGateway(Limit) : orders[n].status = "Cancelled"

\* What holds of a call in progress: it has attempts left; the order it is about
\* to record was sent; what it takes for cancelled is; it missed no number
\* without the Gateway having the order; it is on the market leg only when
\* the limit order is over.
Sound(k) ==
  /\ k.at # "idle" => k.id \in Ids
  /\ k.at \in {"connect", "load", "find"} => k.tries > 0
  /\ k.at = "record" =>
       /\ k.order \in DOMAIN orders
       /\ orders[k.order].ref = OrderRef(k.id) /\ orders[k.order].status # "Lost"
  /\ k.at \in {"wait", "cancel"} =>
       /\ k.order \in DOMAIN orders /\ orders[k.order].ref = Limit
       /\ k.view = "Cancelled" => orders[k.order].status = "Cancelled"
  /\ k.at = "find" /\ k.id \in Pair /\ ~k.prior /\ record[k.id] = "PLACED" =>
       Found(k.id) # {}
  /\ k.at # "idle" /\ k.id = Market => LimitOver

\* The strengthening that makes OneOrderPerId and FallbackExclusive inductive:
\* one order per reference at the Gateway, a MARKET order only after the LIMIT
\* order is over, and every call sound (what _submit_trade and
\* submit_limit_with_market_fallback rely on after each await).
SubmissionInv ==
  /\ TypeOK
  /\ \A id \in Pair : \A m, n \in AtGateway(id) : m = n
  /\ AtGateway(Market) # {} => LimitOver
  /\ \A c \in Callers : Sound(call[c])
=============================================================================
