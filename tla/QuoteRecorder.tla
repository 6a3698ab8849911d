--------------------------- MODULE QuoteRecorder ---------------------------
(***************************************************************************)
(* The quotes: two WebSocket clients (data/feeds/coinbase.py and kraken.py)*)
(* follow an exchange each and put one row per minute into a queue, from   *)
(* which a writer (data/recorder.py) stores them in batches.               *)
(*                                                                         *)
(* Granularity.  A task ends a step where it awaits: a message, the next   *)
(* minute, room in the queue, a row, the thread that writes.  A connection *)
(* delivers in order until it breaks; the client and all it knows is then  *)
(* replaced.  One symbol per exchange; sizes are left out.                 *)
(***************************************************************************)
EXTENDS Integers, SequencesExt

CONSTANTS
  Coinbase,    \* exchanges that send changes of a book
  Kraken,      \* exchanges that send the best bid and ask
  Levels,      \* prices
  QueueSize,   \* maxsize of the queue, 10000 in the code
  BatchSize,   \* rows that are written even if more are waiting, 100
  MaxMinutes,  \* bound: when the clock stops
  MaxMoves,    \* bound: changes of the books
  MaxFaults,   \* bound: connections that break and process deaths
  None

Venues == Coinbase \cup Kraken

ASSUME QuotesAssumption ==
  /\ Coinbase \cap Kraken = {}
  /\ Levels \subseteq Nat /\ IsFiniteSet(Levels)
  /\ QueueSize \in Nat \ {0} /\ BatchSize \in Nat \ {0}
  /\ MaxMinutes \in Nat /\ MaxMoves \in Nat /\ MaxFaults \in Nat
  /\ None \notin Nat

Books == [bids : SUBSET Levels, asks : SUBSET Levels]

\* What an exchange shows.
MarketBooks == {b \in Books : /\ b.bids # {} /\ b.asks # {}
                              /\ \A p \in b.bids, q \in b.asks : p < q}

VARIABLES
  market,   \* the book of every exchange
  up,       \* the recorder runs
  linked,   \* the exchanges it is connected to
  wire,     \* messages of each connection on their way
  local,    \* the book that each client keeps; for Kraken, the last quote
  price,    \* twice the last midpoint a client recorded
  hand,     \* a row a client could not put into the queue yet
  sampled,  \* the last minute each client took a sample in
  queue,    \* rows
  pending,  \* rows the writer has taken
  batch,    \* rows a thread is writing
  put,      \* all rows put into the queue by this process
  written,  \* all rows stored by this process
  minute, moves, faults

feed == <<linked, wire, local, price, hand, sampled>>
writer == <<queue, pending, batch, put, written>>
bounds == <<moves, faults>>
vars == <<market, up, feed, writer, minute, bounds>>

Empty == [bids |-> {}, asks |-> {}]

\* The exchanges begin with one book and differ as soon as one moves.
Init ==
  /\ \E book \in MarketBooks : market = [v \in Venues |-> book]
  /\ up = TRUE
  /\ linked = {}
  /\ wire = [v \in Venues |-> <<>>]
  /\ local = [v \in Venues |-> Empty]
  /\ price = [v \in Venues |-> None]
  /\ hand = [v \in Venues |-> None]
  /\ sampled = [v \in Venues |-> 0]
  /\ queue = <<>> /\ pending = <<>> /\ batch = <<>> /\ put = <<>> /\ written = <<>>
  /\ minute = 0 /\ moves = 0 /\ faults = 0

-----------------------------------------------------------------------------
(* The exchanges.                                                          *)

\* A message says which levels have a quantity now and which have none.
Change(side, levels, gone) == [side |-> side, levels |-> levels, gone |-> gone]

Top(book) == [bids |-> {Max(book.bids)}, asks |-> {Min(book.asks)}]

\* level2 sends a snapshot and then the changes of each side, ticker the best
\* prices whenever they change.
Snapshot(v) ==
  IF v \in Coinbase
    THEN <<Change("bids", market[v].bids, {}), Change("asks", market[v].asks, {})>>
    ELSE <<Top(market[v])>>

Messages(v, book) ==
  IF v \in Coinbase
    THEN <<Change("bids", book.bids, market[v].bids \ book.bids),
           Change("asks", book.asks, market[v].asks \ book.asks)>>
    ELSE IF Top(book) = Top(market[v]) THEN <<>> ELSE <<Top(book)>>

Move(v) ==
  /\ moves < MaxMoves
  /\ moves' = moves + 1
  /\ \E book \in MarketBooks \ {market[v]} :
       /\ market' = [market EXCEPT ![v] = book]
       /\ wire' = IF v \in linked THEN [wire EXCEPT ![v] = @ \o Messages(v, book)] ELSE wire
  /\ UNCHANGED <<up, linked, local, price, hand, sampled, writer, minute, faults>>

-----------------------------------------------------------------------------
(* The clients.                                                            *)

\* record() connects and subscribes.
Connect(v) ==
  /\ up /\ v \notin linked
  /\ linked' = linked \cup {v}
  /\ wire' = [wire EXCEPT ![v] = Snapshot(v)]
  /\ UNCHANGED <<market, up, local, price, hand, sampled, writer, minute, bounds>>

\* _listen of the Coinbase client sets the levels of one side, or removes them.
Updated(v, m) ==
  IF v \in Coinbase THEN [local[v] EXCEPT ![m.side] = (@ \ m.gone) \cup m.levels] ELSE m

Listen(v) ==
  /\ up /\ v \in linked /\ wire[v] # <<>>
  /\ local' = [local EXCEPT ![v] = Updated(v, Head(wire[v]))]
  /\ wire' = [wire EXCEPT ![v] = Tail(@)]
  /\ UNCHANGED <<market, up, linked, price, hand, sampled, writer, minute, bounds>>

\* valid_price.
ValidPrice(mid, previous) ==
  previous = None \/ 2 * (IF mid > previous THEN mid - previous ELSE previous - mid) <= previous

MayRecord(v, bid, ask) == bid < ask /\ ValidPrice(bid + ask, price[v])

\* _sample wakes in a new minute and has a row for the queue, or has none.
Sample(v) ==
  /\ up /\ v \in linked /\ hand[v] = None /\ sampled[v] < minute
  /\ sampled' = [sampled EXCEPT ![v] = minute]
  /\ LET bid == Max(local[v].bids)
         ask == Min(local[v].asks)
     IN IF local[v].bids # {} /\ local[v].asks # {} /\ MayRecord(v, bid, ask)
          THEN /\ price' = [price EXCEPT ![v] = bid + ask]
               /\ hand' = [hand EXCEPT ![v] =
                             [venue |-> v, minute |-> minute, bid |-> bid, ask |-> ask]]
          ELSE UNCHANGED <<price, hand>>
  /\ UNCHANGED <<market, up, linked, wire, local, writer, minute, bounds>>

HasRoom == Len(queue) < QueueSize

\* queue.put has room.
Put(v) ==
  /\ up /\ hand[v] # None /\ HasRoom
  /\ queue' = Append(queue, hand[v])
  /\ put' = Append(put, hand[v])
  /\ hand' = [hand EXCEPT ![v] = None]
  /\ UNCHANGED <<market, up, linked, wire, local, price, sampled, pending, batch,
                 written, minute, bounds>>

\* Mutant: the same client connects again.
MutNewClient(v) == UNCHANGED <<local, price>>

\* _reconnecting makes a new client.
NewClient(v) ==
  /\ local' = [local EXCEPT ![v] = Empty]
  /\ price' = [price EXCEPT ![v] = None]

\* The connection breaks, and record() with it; a row at hand is gone.
Break(v) ==
  /\ up /\ v \in linked /\ faults < MaxFaults
  /\ faults' = faults + 1
  /\ linked' = linked \ {v}
  /\ wire' = [wire EXCEPT ![v] = <<>>]
  /\ NewClient(v)
  /\ hand' = [hand EXCEPT ![v] = None]
  /\ UNCHANGED <<market, up, sampled, writer, minute, moves>>

-----------------------------------------------------------------------------
(* The writer.                                                             *)

\* Mutant: only a full batch is written.
MutWritable(rows, waiting) == Len(rows) >= BatchSize

Writable(rows, waiting) == Len(rows) >= BatchSize \/ waiting = <<>>

\* _buffer_writer takes a row, and has all it took written or takes the next.
Take ==
  /\ up /\ batch = <<>> /\ queue # <<>>
  /\ queue' = Tail(queue)
  /\ LET rows == Append(pending, Head(queue)) IN
     IF Writable(rows, Tail(queue))
       THEN batch' = rows /\ pending' = <<>>
       ELSE pending' = rows /\ UNCHANGED batch
  /\ UNCHANGED <<market, up, feed, put, written, minute, bounds>>

\* Mutant: rows that wait for a batch are written with it and kept.
MutWritten == written' = written \o batch /\ batch' = <<>> /\ pending' = batch

Written == written' = written \o batch /\ batch' = <<>> /\ UNCHANGED pending

\* append_top_of_book returns.
WriteEnd ==
  /\ up /\ batch # <<>>
  /\ Written
  /\ UNCHANGED <<market, up, feed, queue, put, minute, bounds>>

\* Every task of the group ends when one fails, and what is in memory is lost;
\* the batch may be on disk already.
Crash ==
  /\ up /\ faults < MaxFaults
  /\ faults' = faults + 1
  /\ up' = FALSE
  /\ linked' = {}
  /\ wire' = [v \in Venues |-> <<>>]
  /\ local' = [v \in Venues |-> Empty]
  /\ price' = [v \in Venues |-> None]
  /\ hand' = [v \in Venues |-> None]
  /\ queue' = <<>> /\ pending' = <<>> /\ batch' = <<>> /\ put' = <<>> /\ written' = <<>>
  /\ UNCHANGED <<market, sampled, minute, moves>>

Restart ==
  /\ ~up
  /\ up' = TRUE
  /\ UNCHANGED <<market, feed, writer, minute, bounds>>

Tick ==
  /\ minute < MaxMinutes
  /\ minute' = minute + 1
  /\ UNCHANGED <<market, up, feed, writer, bounds>>

Next ==
  \/ \E v \in Venues : Move(v) \/ Connect(v) \/ Listen(v) \/ Sample(v) \/ Put(v) \/ Break(v)
  \/ Take \/ WriteEnd \/ Crash \/ Restart \/ Tick

Spec == Init /\ [][Next]_vars

\* Tasks that can go on do so, the exchanges let a client connect and systemd
\* starts the process again.
Fairness ==
  /\ \A v \in Venues : WF_vars(Connect(v)) /\ WF_vars(Listen(v)) /\ WF_vars(Put(v))
  /\ WF_vars(Take) /\ WF_vars(WriteEnd) /\ WF_vars(Restart)

FairSpec == Spec /\ Fairness

-----------------------------------------------------------------------------
(* Properties.                                                             *)

Rows == [venue : Venues, minute : 1..MaxMinutes, bid : Levels, ask : Levels]

\* Every variable has its type; the queue keeps to its size.
TypeOK ==
  /\ market \in [Venues -> MarketBooks] /\ linked \subseteq Venues
  /\ local \in [Venues -> Books]
  /\ \A v \in Venues : price[v] = None \/ price[v] \in Nat
  /\ \A v \in Venues : hand[v] = None \/ hand[v] \in Rows
  /\ {queue, pending, batch, put, written} \subseteq Seq(Rows)
  /\ Len(queue) <= QueueSize /\ Len(pending) < BatchSize /\ Len(batch) <= BatchSize

\* A client that has heard everything knows the exchange's book: no level of an
\* earlier connection survives in it ("a snapshot" does not clear the book, so it
\* is the new client that must be empty), and no change is missed.
BookFollows ==
  \A v \in linked : wire[v] = <<>> =>
    local[v] = IF v \in Coinbase THEN market[v] ELSE Top(market[v])

\* What a process puts into the queue is stored once, in order, and is at every
\* moment in one place; only the death of the process loses rows, and only those
\* not stored yet.
RowsConserved == written \o batch \o pending \o queue = put

\* No row stays in memory: when samples cease, all there were are on disk, also
\* those that found the queue full and those that filled no batch.
RowsReachDisk == <>[](written = put /\ \A v \in Venues : hand[v] = None)

\* What every state keeps over broken connections, full queues and half batches:
\* the variables have their types, and no row is lost, repeated or reordered on its
\* way to the disk while the process lives.
RowsInv == TypeOK /\ RowsConserved
=============================================================================
