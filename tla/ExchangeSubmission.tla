------------------------- MODULE ExchangeSubmission -------------------------
(***************************************************************************)
(* crypto/adapters/kraken.py and coinbase.py: how an approved order gets   *)
(* to an exchange over requests that may time out, arrive late or get lost.*)
(* Coinbase orders are idempotent by client id.  For Kraken the adapter    *)
(* looks an order up before it sends it again, and a request that arrives  *)
(* after a later one is refused because its nonce is too low.              *)
(*                                                                         *)
(* Granularity.  A call ends a step where it awaits: the lock, or a        *)
(* response.  Every client id has one caller, which may submit it again.   *)
(* The exchanges are external; Kraken is not taken to look at client ids.  *)
(***************************************************************************)
EXTENDS Integers, Sequences, FiniteSetsExt

CONSTANTS
  KrakenIds,    \* client ids submitted to Kraken
  CoinbaseIds,  \* client ids submitted to Coinbase
  Auditor,      \* the caller of Kraken's get_order_history
  Workloads,    \* which callers are active together: a set of sets
  Payloads,     \* what an order may ask for under one id
  MaxNonce,     \* the largest nonce, 2^64 - 1 in the code
  Clock,        \* the readings of clock_ms, in any order
  MaxCrashes,   \* bound: process deaths
  None

Ids == KrakenIds \cup CoinbaseIds

Callers == Ids \cup {Auditor}

ASSUME CallersAssumption ==
  /\ KrakenIds \cap CoinbaseIds = {}
  /\ Auditor \notin Ids
  /\ Workloads \subseteq SUBSET Callers
  /\ None \notin Payloads \cup Callers \cup Nat
  /\ MaxNonce \in Nat \ {0}
  /\ Clock \subseteq Nat
  /\ MaxCrashes \in Nat

VARIABLES
  active,   \* the callers of this run
  record,   \* per id, the submission document in the StateStore
  nonce,    \* the stored nonce of the Kraken key, 0 before the first
  lock,     \* who holds _private_lock
  call,     \* per caller, where its call stands
  wire,     \* requests on their way; one that is lost stays there
  orders,   \* every order the exchanges accepted, by number
  last,     \* the highest nonce Kraken has seen
  crashes

vars == <<active, record, nonce, lock, call, wire, orders, last, crashes>>

-----------------------------------------------------------------------------
(* Data.                                                                   *)

\* _load_submission, _persist_result: fingerprint and venue_order_id.
NoRecord == [payload |-> None, order |-> None]

\* at: idle; idle and refused, or complete; or the request it waits to send,
\* or, with a ticket, has sent.  failed: AddOrder was answered with an error.
\* due, seen: history, the orders there were when the call began, and listed.
Idle(at) == [at |-> at, payload |-> None, ticket |-> None, failed |-> FALSE,
             due |-> {}, seen |-> {}]

Resting == {"idle", "refused", "listed"}

Init ==
  /\ active \in Workloads
  /\ record = [id \in Ids |-> NoRecord]
  /\ nonce = 0
  /\ lock = None
  /\ call = [c \in Callers |-> Idle("idle")]
  /\ wire = {}
  /\ orders = <<>>
  /\ last = 0
  /\ crashes = 0

\* _find_by_client_id asks for the open orders, then for the closed ones.
MutFindFirst == "closed"
FindFirst == "open"

\* get_order_history queues both requests for the lock, in this order.
MutHistoryFirst == "closed"
HistoryFirst == "open"

First(c) == IF c = Auditor THEN HistoryFirst ELSE FindFirst

Other(section) == IF section = "open" THEN "closed" ELSE "open"

\* submit_order goes on to a request: the id is new, or was prepared with the
\* same order and its venue number is not known.
MaySubmit(id, p) == /\ record[id].payload \in {None, p}
                    /\ record[id].order = None

-----------------------------------------------------------------------------
(* Calls.                                                                  *)

\* submit_order writes PREPARED for a new id; a Kraken order prepared before is
\* looked up first.
Submit(id, p) ==
  /\ id \in active /\ call[id].at \in Resting
  /\ MaySubmit(id, p)
  /\ record' = [record EXCEPT ![id].payload = IF @ = None THEN p ELSE @]
  /\ call' = [call EXCEPT ![id] =
                [Idle(IF id \in KrakenIds /\ record[id] # NoRecord THEN FindFirst ELSE "add")
                   EXCEPT !.payload = p]]
  /\ UNCHANGED <<active, nonce, lock, wire, orders, last, crashes>>

KrakenOrders == {n \in DOMAIN orders : orders[n].id \in KrakenIds}

\* get_order_history.
History ==
  /\ Auditor \in active /\ call[Auditor].at \in Resting
  /\ call' = [call EXCEPT ![Auditor] = [Idle(HistoryFirst) EXCEPT !.due = KrakenOrders]]
  /\ UNCHANGED <<active, record, nonce, lock, wire, orders, last, crashes>>

Waiting(c) == call[c].at \notin Resting /\ call[c].ticket = None

Request(c, ticket) ==
  [from |-> c, kind |-> call[c].at, payload |-> call[c].payload, ticket |-> ticket]

\* PersistentNonce.next: above every nonce stored before, whatever the clock.
NextNonce(now) == Max({nonce + 1, now, 1})

\* Mutant: requests of several callers are on the wire together.
MutPrivate(c) ==
  /\ Waiting(c) /\ c \notin CoinbaseIds
  /\ \E now \in Clock :
       /\ NextNonce(now) <= MaxNonce
       /\ nonce' = NextNonce(now)
       /\ wire' = wire \cup {Request(c, NextNonce(now))}
       /\ call' = [call EXCEPT ![c].ticket = NextNonce(now)]
  /\ UNCHANGED <<active, record, lock, orders, last, crashes>>

\* _private takes the lock, stores the next nonce and posts the request; beyond
\* the range of a nonce it raises.
Private(c) ==
  /\ Waiting(c) /\ c \notin CoinbaseIds /\ lock = None
  /\ \E now \in Clock :
       IF NextNonce(now) <= MaxNonce
         THEN /\ nonce' = NextNonce(now)
              /\ lock' = c
              /\ wire' = wire \cup {Request(c, NextNonce(now))}
              /\ call' = [call EXCEPT ![c].ticket = NextNonce(now)]
         ELSE /\ call' = [call EXCEPT ![c] = Idle("idle")]
              /\ UNCHANGED <<nonce, lock, wire>>
  /\ UNCHANGED <<active, record, orders, last, crashes>>

\* _request of the Coinbase adapter; its ticket tells attempts apart.
Post(c) ==
  /\ Waiting(c) /\ c \in CoinbaseIds
  /\ LET ticket == Max({m.ticket : m \in wire} \cup {0}) + 1 IN
       /\ ticket <= MaxNonce
       /\ wire' = wire \cup {Request(c, ticket)}
       /\ call' = [call EXCEPT ![c].ticket = ticket]
  /\ UNCHANGED <<active, record, nonce, lock, orders, last, crashes>>

\* A call leaves with this outcome; a Kraken call leaves the lock too.
Leave(c, k) ==
  /\ call' = [call EXCEPT ![c] = k]
  /\ lock' = IF lock = c THEN None ELSE lock

\* The caller's request timed out or broke: it may still arrive.
Timeout(c) ==
  /\ call[c].ticket # None
  /\ Leave(c, Idle("idle"))
  /\ UNCHANGED <<active, record, nonce, wire, orders, last, crashes>>

\* A venue number is known: it is recorded and acknowledged.
Accepted(id, n) ==
  /\ record' = [record EXCEPT ![id].order = n]
  /\ Leave(id, Idle("idle"))

\* To the next request of the same call.
Proceed(c, kind, failed) ==
  /\ Leave(c, [call[c] EXCEPT !.at = kind, !.ticket = None, !.failed = failed])
  /\ UNCHANGED record

\* submit_order looks the order up when AddOrder is answered with an error.
AddFailed(id) == Proceed(id, FindFirst, TRUE)

\* A look-up that is answered with an error ends the call it is part of.
LookupFailed(c) == Leave(c, Idle("idle")) /\ UNCHANGED record

\* The answer lists these orders.
Listed(c, numbers) ==
  LET section == call[c].at
      mine == {n \in numbers : orders[n].id = c}
  IN \/ /\ c = Auditor
        /\ UNCHANGED record
        /\ Leave(c, [call[c] EXCEPT !.at = IF section = First(c) THEN Other(section) ELSE "listed",
                                    !.ticket = None,
                                    !.seen = @ \cup numbers])
     \/ \E n \in mine : Accepted(c, n)
     \/ c # Auditor /\ mine = {} /\ section = First(c)
        /\ Proceed(c, Other(section), call[c].failed)
     \/ c # Auditor /\ mine = {} /\ section # First(c)
        /\ IF call[c].failed THEN Leave(c, Idle("refused")) /\ UNCHANGED record
           ELSE Proceed(c, "add", FALSE)

-----------------------------------------------------------------------------
(* The exchanges.                                                          *)

NewOrder(m) == [id |-> m.from, payload |-> m.payload, open |-> TRUE]

Section(kind) == {n \in KrakenOrders : orders[n].open = (kind = "open")}

\* The sender still waits for the answer to this request, and gets it.
Answers(m) == call[m.from].ticket = m.ticket

\* Nobody learns the answer: it is lost, or its caller has gone.
Unheard == UNCHANGED <<call, record, lock>>

KrakenReceives(m) ==
  /\ m.from \notin CoinbaseIds
  /\ wire' = wire \ {m}
  /\ last' = Max({last, m.ticket})
  /\ \/ \* an error: the nonce is too low, or Kraken has some other objection
        /\ UNCHANGED orders
        /\ \/ Unheard
           \/ Answers(m) /\ m.kind = "add" /\ AddFailed(m.from)
           \/ Answers(m) /\ m.kind # "add" /\ LookupFailed(m.from)
     \/ \* a list of orders
        /\ m.ticket > last /\ m.kind # "add" /\ UNCHANGED orders
        /\ Unheard \/ (Answers(m) /\ Listed(m.from, Section(m.kind)))
     \/ \* an order is accepted, whatever the answer says
        /\ m.ticket > last /\ m.kind = "add"
        /\ orders' = Append(orders, NewOrder(m))
        /\ \/ Unheard
           \/ Answers(m) /\ (Accepted(m.from, Len(orders) + 1) \/ AddFailed(m.from))
  /\ UNCHANGED <<active, nonce, crashes>>

\* Coinbase returns the order there is, or accepts or refuses a new one.
CoinbaseReceives(m) ==
  LET known == {n \in DOMAIN orders : orders[n].id = m.from} IN
  /\ m.from \in CoinbaseIds
  /\ wire' = wire \ {m}
  /\ \/ /\ known # {} /\ UNCHANGED orders
        /\ Unheard \/ (Answers(m) /\ \E n \in known : Accepted(m.from, n))
     \/ /\ known = {} /\ orders' = Append(orders, NewOrder(m))
        /\ Unheard \/ (Answers(m) /\ Accepted(m.from, Len(orders) + 1))
     \/ /\ known = {} /\ UNCHANGED orders
        /\ Unheard \/ (Answers(m) /\ Leave(m.from, Idle("refused")) /\ UNCHANGED record)
  /\ UNCHANGED <<active, nonce, last, crashes>>

\* An order is filled or canceled.
Close(n) ==
  /\ orders[n].open
  /\ orders' = [orders EXCEPT ![n].open = FALSE]
  /\ UNCHANGED <<active, record, nonce, lock, call, wire, last, crashes>>

\* Mutant: the nonce is not in the StateStore.
MutCrash ==
  /\ crashes < MaxCrashes
  /\ crashes' = crashes + 1
  /\ lock' = None /\ nonce' = 0
  /\ call' = [c \in Callers |-> Idle("idle")]
  /\ UNCHANGED <<active, record, wire, orders, last>>

\* What a process knows is gone; records and nonce are in the StateStore.
Crash ==
  /\ crashes < MaxCrashes
  /\ crashes' = crashes + 1
  /\ lock' = None
  /\ call' = [c \in Callers |-> Idle("idle")]
  /\ UNCHANGED <<active, record, nonce, wire, orders, last>>

Next ==
  \/ \E id \in Ids, p \in Payloads : Submit(id, p)
  \/ History
  \/ \E c \in Callers : Private(c) \/ Post(c) \/ Timeout(c)
  \/ \E m \in wire : KrakenReceives(m) \/ CoinbaseReceives(m)
  \/ \E n \in DOMAIN orders : Close(n)
  \/ Crash

Spec == Init /\ [][Next]_vars

-----------------------------------------------------------------------------
(* Properties.                                                             *)

Numbers == DOMAIN orders

\* Every variable has its type.
TypeOK ==
  /\ active \in Workloads
  /\ record \in [Ids -> [payload: Payloads \cup {None}, order: Numbers \cup {None}]]
  /\ nonce \in 0..MaxNonce /\ last \in 0..MaxNonce /\ crashes \in 0..MaxCrashes
  /\ lock \in Callers \cup {None}
  /\ call \in [Callers -> [at: Resting \cup {"open", "closed", "add"},
                           payload: Payloads \cup {None}, ticket: 1..MaxNonce \cup {None},
                           failed: BOOLEAN, due: SUBSET Numbers, seen: SUBSET Numbers]]
  /\ wire \subseteq [from: Callers, kind: {"open", "closed", "add"},
                     payload: Payloads \cup {None}, ticket: 1..MaxNonce]
  /\ orders \in Seq([id: Ids, payload: Payloads, open: BOOLEAN])

\* submit_order sends an order once: neither a retry after a time-out, nor one
\* after a restart, nor a request that arrives when nobody waits for it any
\* more brings a second order with the same client id to life.
OneOrderPerId == \A m, n \in Numbers : orders[m].id = orders[n].id => m = n

\* The venue number on record, which callers get as acknowledgement, is that of
\* an order with this id and with the very payload that was asked for
\* (fingerprint, IdempotencyConflictError).
RecordNamesItsOrder ==
  \A id \in Ids : record[id].order # None =>
    /\ record[id].order \in Numbers
    /\ orders[record[id].order].id = id
    /\ orders[record[id].order].payload = record[id].payload

\* When Kraken's submit_order gives up since neither list names its order, there
\* is none, although AddOrder may be answered with an error and yet accepted, and
\* none can appear out of a request sent before.
RefusalIsFinal ==
  \A id \in KrakenIds : call[id].at = "refused" => \A n \in Numbers : orders[n].id # id

\* "one dedicated key is also serialized on the wire": the request a caller
\* waits for is never refused for its nonce, whatever was sent before a crash
\* and whatever the clock says after it.
AwaitedInOrder ==
  \A m \in wire : m.from \notin CoinbaseIds /\ Answers(m) => m.ticket > last

\* get_order_history misses no order, not even one that is closed between its
\* two requests: reconcile_many takes an order it does not list for unknown.
HistoryComplete == call[Auditor].at = "listed" => call[Auditor].due \subseteq call[Auditor].seen

\* What every state keeps while requests time out, arrive late and are answered to
\* nobody: the variables have their types, the submission records name their own
\* orders, and no awaited request of Kraken's is overtaken on the wire.
ExchangeInv == TypeOK /\ RecordNamesItsOrder /\ AwaitedInOrder
=============================================================================
