----------------------------- MODULE DataProofs -----------------------------
(***************************************************************************)
(* Proofs about the package data/: the recorder of quotes (QuoteRecorder), *)
(* the chain of futures contracts (FuturesChain) and the recorder of bars  *)
(* with the daily cycle that reads them (BarRecorder), each for any values *)
(* of its constants. The three share no state; what they share is the      *)
(* arithmetic below: a least number of a set, counting up, the extremes of *)
(* an interval. Their names differ (FCNext, BRNext) so that one module can *)
(* extend all three.                                                       *)
(***************************************************************************)
EXTENDS QuoteRecorder, FuturesChain, BarRecorder,
        FiniteSetTheorems, SequenceTheorems, WellFoundedInduction, TLAPS

-----------------------------------------------------------------------------
(* Least and greatest numbers.                                             *)

\* Of some naturals, one is the least.
LEMMA Least ==
  ASSUME NEW S \in SUBSET Nat, S # {}
  PROVE  \E x \in S : \A y \in S : x <= y
<1>1. PICK x \in S : \A y \in S : ~ (<<y, x>> \in OpToRel(<, Nat))
  BY NatLessThanWellFounded, WFMin
<1>2. ASSUME NEW y \in S PROVE x <= y
  <2>1. <<y, x>> \in Nat \X Nat /\ <<y, x>>[1] = y /\ <<y, x>>[2] = x
    OBVIOUS
  <2>2. ~ (<<y, x>>[1] < <<y, x>>[2])
    BY <1>1, <2>1, Zenon DEF OpToRel
  <2> QED
    BY <2>1, <2>2
<1> QED
  BY <1>2

\* Induction: what holds 0 and with every number the next one holds all.
LEMMA CountUp ==
  ASSUME NEW T \in SUBSET Nat, 0 \in T, \A n \in T : n + 1 \in T
  PROVE  T = Nat
<1> SUFFICES ASSUME Nat \ T # {} PROVE FALSE
  OBVIOUS
<1>1. PICK n \in Nat \ T : \A m \in Nat \ T : n <= m
  BY Least
<1>2. n # 0 /\ n - 1 \in Nat
  OBVIOUS
<1>3. n - 1 \in T
  BY <1>1, <1>2
<1>4. (n - 1) + 1 = n
  OBVIOUS
<1> QED
  BY <1>3, <1>4

\* The numbers of an interval have a greatest one, and a least one.
LEMMA Extremes ==
  ASSUME NEW a \in Int, NEW b \in Int, NEW S \in SUBSET (a..b), S # {}
  PROVE  /\ Max(S) \in S /\ \A y \in S : y <= Max(S)
         /\ Min(S) \in S /\ \A y \in S : Min(S) <= y
<1>0. \A x \in S : x \in Int /\ b - x \in Nat /\ x - a \in Nat
  OBVIOUS
<1>1. \E x \in S : \A y \in S : x >= y
  <2> DEFINE T == {b - x : x \in S}
  <2>1. T \in SUBSET Nat /\ T # {}
    BY <1>0
  <2>2. PICK t \in T : \A u \in T : t <= u
    <3> HIDE DEF T
    <3> QED
      BY <2>1, Least
  <2>3. PICK x \in S : t = b - x
    BY <2>2
  <2>4. ASSUME NEW y \in S PROVE x >= y
    <3>1. b - y \in T
      BY <1>0
    <3>2. b - x <= b - y /\ x \in Int /\ y \in Int
      BY <1>0, <2>2, <2>3, <3>1
    <3> QED
      BY <3>2
  <2> QED
    BY <2>4
<1>2. \E x \in S : \A y \in S : x =< y
  <2> DEFINE T == {x - a : x \in S}
  <2>1. T \in SUBSET Nat /\ T # {}
    BY <1>0
  <2>2. PICK t \in T : \A u \in T : t <= u
    <3> HIDE DEF T
    <3> QED
      BY <2>1, Least
  <2>3. PICK x \in S : t = x - a
    BY <2>2
  <2>4. ASSUME NEW y \in S PROVE x =< y
    <3>1. y - a \in T
      OBVIOUS
    <3>2. x - a <= y - a /\ x \in Int /\ y \in Int
      BY <1>0, <2>2, <2>3, <3>1
    <3> QED
      BY <3>2
  <2> QED
    BY <2>4
<1>3. Max(S) \in S /\ \A y \in S : Max(S) >= y
  BY <1>1 DEF Max
<1>4. Min(S) \in S /\ \A y \in S : Min(S) =< y
  BY <1>2 DEF Min
<1> QED
  BY <1>3, <1>4

\* The last index of some of them.
LEMMA LastIndex ==
  ASSUME NEW m \in Nat, NEW T \in SUBSET (1..m), T # {}
  PROVE  Max(T) \in T /\ \A i \in T : i <= Max(T)
<1>1. 1 \in Int /\ m \in Int
  OBVIOUS
<1> QED
  BY ONLY <1>1, T \in SUBSET (1..m), T # {}, Extremes

\* The earlier of two dates.
LEMMA Earlier ==
  ASSUME NEW a \in Int, NEW b \in Int
  PROVE  Min({a, b}) = IF a <= b THEN a ELSE b
<1>1. CASE a <= b
  BY <1>1 DEF Min
<1>2. CASE ~ (a <= b)
  BY <1>2 DEF Min
<1> QED
  BY <1>1, <1>2

-----------------------------------------------------------------------------
(* QuoteRecorder: best prices.                                             *)

\* The best ask of a side that is not empty is on that side.
LEMMA MinInSet ==
  ASSUME NEW S \in SUBSET Nat, S # {}
  PROVE  Min(S) \in S
<1>1. PICK x \in S : \A y \in S : x <= y
  BY Least
<1> QED
  BY <1>1 DEF Min

\* So is the best bid, as a book is finite: of the sets that had no largest level,
\* the smallest would have one.
LEMMA MaxInSet ==
  ASSUME NEW S \in SUBSET Nat, S # {}, IsFiniteSet(S)
  PROVE  Max(S) \in S
<1> DEFINE Topped(T) == \E x \in T : \A y \in T : x >= y
           Sizes == {n \in Nat : \E T \in SUBSET S :
                       T # {} /\ Cardinality(T) = n /\ ~Topped(T)}
<1>1. ASSUME Sizes # {} PROVE FALSE
  <2>1. PICK n \in Sizes : \A m \in Sizes : n <= m
    <3>1. Sizes \in SUBSET Nat
      OBVIOUS
    <3> HIDE DEF Sizes
    <3> QED
      BY <1>1, <3>1, Least
  <2>2. PICK T \in SUBSET S : T # {} /\ Cardinality(T) = n /\ ~Topped(T)
    BY <2>1
  <2>3. PICK x \in T : TRUE
    BY <2>2
  <2>4. IsFiniteSet(T)
    BY FS_Subset
  <2>5. Cardinality(T \ {x}) = n - 1 /\ IsFiniteSet(T \ {x}) /\ n \in Nat
    BY <2>1, <2>2, <2>3, <2>4, FS_RemoveElement
  <2>6. Cardinality(T \ {x}) \in Nat
    BY <2>5, FS_CardinalityType
  <2>7. CASE T \ {x} = {}
    BY <2>2, <2>3, <2>7
  <2>8. CASE T \ {x} # {}
    <3>1. Topped(T \ {x})
      BY <2>1, <2>5, <2>6, <2>8
    <3>2. PICK z \in T \ {x} : \A y \in T \ {x} : z >= y
      BY <3>1
    <3>3. x \in Nat /\ z \in Nat
      BY <2>3
    <3>4. CASE x >= z
      BY <2>2, <2>3, <3>2, <3>3, <3>4
    <3>5. CASE z >= x
      BY <2>2, <2>3, <3>2, <3>3, <3>5
    <3> QED
      BY <3>3, <3>4, <3>5
  <2> QED
    BY <2>7, <2>8
<1>2. Cardinality(S) \in Nat
  BY FS_CardinalityType
<1>3. Topped(S)
  BY <1>1, <1>2
<1> QED
  BY <1>3 DEF Max

\* The best prices of a book with two sides are levels.
LEMMA BestPrices ==
  ASSUME NEW book \in Books, book.bids # {}, book.asks # {}
  PROVE  Max(book.bids) \in book.bids /\ Min(book.asks) \in book.asks
<1>1. book.bids \in SUBSET Levels /\ book.asks \in SUBSET Levels
  BY DEF Books
<1>2. book.bids \in SUBSET Nat /\ book.asks \in SUBSET Nat /\ IsFiniteSet(book.bids)
  BY <1>1, FS_Subset, QuotesAssumption
<1> QED
  BY <1>2, MinInSet, MaxInSet
-----------------------------------------------------------------------------
(* QuoteRecorder: the shape of the variables.                              *)

Sides == {"bids", "asks"}

\* A message of Coinbase; one of Kraken's is a book of the best prices.
BookChange == [side : Sides, levels : SUBSET Levels, gone : SUBSET Levels]

WireType(v) == IF v \in Coinbase THEN Seq(BookChange) ELSE Seq(Books)

\* TypeOK with what is needed for it to be inductive.
Shape ==
  /\ TypeOK
  /\ wire \in [Venues -> Seq(BookChange) \cup Seq(Books)]
  /\ \A v \in Venues : wire[v] \in WireType(v)
  /\ price \in [Venues -> Nat \cup {None}]
  /\ hand \in [Venues -> Rows \cup {None}]
  /\ sampled \in [Venues -> Nat]
  /\ minute \in 0..MaxMinutes

\* One or two messages are a sequence of them.
LEMMA ShortSeq ==
  ASSUME NEW S, NEW a \in S, NEW b \in S
  PROVE  <<a>> \in Seq(S) /\ <<a, b>> \in Seq(S) /\ <<a, b>> = <<a>> \o <<b>>
<1>1. <<a>> \in Seq(S) /\ <<b>> \in Seq(S)
  OBVIOUS
<1>2. <<a, b>> \in Seq(S) /\ Len(<<a, b>>) = 2 /\ <<a, b>>[1] = a /\ <<a, b>>[2] = b
  OBVIOUS
<1>3. /\ <<a>> \o <<b>> \in Seq(S) /\ Len(<<a>> \o <<b>>) = 2
      /\ (<<a>> \o <<b>>)[1] = a /\ (<<a>> \o <<b>>)[2] = b
  <2>1. Len(<<a>>) = 1 /\ Len(<<b>>) = 1 /\ <<a>>[1] = a /\ <<b>>[1] = b
    OBVIOUS
  <2> QED
    BY <1>1, <2>1, ConcatProperties
<1>4. \A i \in 1..2 : <<a, b>>[i] = (<<a>> \o <<b>>)[i]
  BY <1>2, <1>3
<1> QED
  BY <1>1, <1>2, <1>3, <1>4, SeqEqual

\* Two messages are appended one after the other.
LEMMA AppendTwo ==
  ASSUME NEW S, NEW w \in Seq(S), NEW a \in S, NEW b \in S
  PROVE  /\ Append(Append(w, a), b) \in Seq(S)
         /\ w \o <<a, b>> = Append(Append(w, a), b)
<1>1. Append(w, a) = w \o <<a>> /\ Append(w, a) \in Seq(S)
  BY AppendIsConcat, AppendProperties
<1>2. Append(Append(w, a), b) = Append(w, a) \o <<b>>
  BY <1>1, AppendIsConcat
<1>3. <<a>> \in Seq(S) /\ <<b>> \in Seq(S) /\ <<a>> \o <<b>> = <<a, b>>
  BY ShortSeq
<1>4. (w \o <<a>>) \o <<b>> = w \o (<<a>> \o <<b>>)
  BY <1>3, ConcatAssociative
<1> QED
  BY <1>1, <1>2, <1>3, <1>4, AppendProperties

\* What an exchange shows has two sides and best prices.
LEMMA MarketTop ==
  ASSUME NEW book \in MarketBooks
  PROVE  /\ book \in Books /\ book.bids \in SUBSET Levels /\ book.asks \in SUBSET Levels
         /\ Top(book) \in Books
<1>1. book \in Books /\ book.bids # {} /\ book.asks # {}
  BY DEF MarketBooks
<1>2. book.bids \in SUBSET Levels /\ book.asks \in SUBSET Levels
  BY <1>1 DEF Books
<1>3. {Max(book.bids)} \in SUBSET Levels /\ {Min(book.asks)} \in SUBSET Levels
  BY <1>1, <1>2, BestPrices
<1> QED
  BY <1>1, <1>2, <1>3 DEF Top, Books

\* A change of one side is a message.
LEMMA ChangeType ==
  ASSUME NEW side \in Sides, NEW levels \in SUBSET Levels, NEW gone \in SUBSET Levels
  PROVE  Change(side, levels, gone) \in BookChange
BY DEF Change, BookChange

\* Every exchange sends its own kind of message, on connection and after a change.
LEMMA SnapshotType ==
  ASSUME NEW v \in Venues, market[v] \in MarketBooks
  PROVE  Snapshot(v) \in WireType(v)
<1>1. /\ market[v] \in Books /\ Top(market[v]) \in Books
      /\ market[v].bids \in SUBSET Levels /\ market[v].asks \in SUBSET Levels
  BY MarketTop
<1>2. /\ Change("bids", market[v].bids, {}) \in BookChange
      /\ Change("asks", market[v].asks, {}) \in BookChange
  BY <1>1, ChangeType DEF Sides
<1>3. /\ <<Change("bids", market[v].bids, {}), Change("asks", market[v].asks, {})>>
           \in Seq(BookChange)
      /\ <<Top(market[v])>> \in Seq(Books)
  BY <1>1, <1>2, ShortSeq
<1> QED
  BY <1>3 DEF Snapshot, WireType

\* A change of the market puts messages of the connection's kind on the wire.
LEMMA MessagesType ==
  ASSUME NEW v \in Venues, market[v] \in MarketBooks, NEW book \in MarketBooks
  PROVE  Messages(v, book) \in WireType(v)
<1>1. /\ market[v].bids \in SUBSET Levels /\ market[v].asks \in SUBSET Levels
      /\ book.bids \in SUBSET Levels /\ book.asks \in SUBSET Levels /\ Top(book) \in Books
  BY MarketTop
<1>2. /\ Change("bids", book.bids, market[v].bids \ book.bids) \in BookChange
      /\ Change("asks", book.asks, market[v].asks \ book.asks) \in BookChange
  BY <1>1, ChangeType DEF Sides
<1>3. /\ <<Change("bids", book.bids, market[v].bids \ book.bids),
           Change("asks", book.asks, market[v].asks \ book.asks)>> \in Seq(BookChange)
      /\ <<Top(book)>> \in Seq(Books) /\ <<>> \in Seq(Books)
  BY <1>1, <1>2, ShortSeq
<1> QED
  BY <1>3 DEF Messages, WireType

\* A message leaves the client with a book.
LEMMA UpdatedType ==
  ASSUME NEW v \in Venues, local[v] \in Books,
         NEW m, v \in Coinbase => m \in BookChange, v \notin Coinbase => m \in Books
  PROVE  Updated(v, m) \in Books
<1>1. CASE v \in Coinbase
  <2>1. m.side \in {"bids", "asks"} /\ m.levels \in SUBSET Levels
    BY <1>1 DEF BookChange, Sides
  <2>2. local[v].bids \in SUBSET Levels /\ local[v].asks \in SUBSET Levels
    BY DEF Books
  <2>3. CASE m.side = "bids"
    BY <1>1, <2>1, <2>2, <2>3 DEF Updated, Books
  <2>4. CASE m.side = "asks"
    BY <1>1, <2>1, <2>2, <2>4 DEF Updated, Books
  <2> QED
    BY <2>1, <2>3, <2>4
<1>2. CASE v \notin Coinbase
  BY <1>2 DEF Updated
<1> QED
  BY <1>1, <1>2

\* A sampled row is a row, with two prices of which the bid is the lower.
LEMMA SampleType ==
  ASSUME Shape, NEW v \in Venues, sampled[v] < minute,
         local[v].bids # {}, local[v].asks # {}
  PROVE  LET bid == Max(local[v].bids)
             ask == Min(local[v].asks)
         IN /\ bid \in Nat /\ ask \in Nat
            /\ [venue |-> v, minute |-> minute, bid |-> bid, ask |-> ask] \in Rows
<1> DEFINE bid == Max(local[v].bids)
           ask == Min(local[v].asks)
<1>1. local[v] \in Books
  BY DEF Shape, TypeOK
<1>2. local[v].bids \in SUBSET Levels /\ local[v].asks \in SUBSET Levels
  BY <1>1 DEF Books
<1>3. bid \in Levels /\ ask \in Levels
  BY <1>1, <1>2, BestPrices
<1>4. minute \in 1..MaxMinutes
  BY QuotesAssumption DEF Shape
<1> HIDE DEF bid, ask
<1>5. [venue |-> v, minute |-> minute, bid |-> bid, ask |-> ask] \in Rows
  BY <1>3, <1>4 DEF Rows
<1>6. bid \in Nat /\ ask \in Nat
  BY <1>3, QuotesAssumption
<1> QED
  BY <1>5, <1>6 DEF bid, ask
\* The recorder begins in that shape.
LEMMA ShapeInit == Init => Shape
<1> SUFFICES ASSUME Init PROVE Shape
  OBVIOUS
<1>1. PICK book \in MarketBooks : market = [v \in Venues |-> book]
  BY DEF Init
<1>2. TypeOK
  <2>1. Empty \in Books
    BY DEF Empty, Books
  <2>2. \A S : <<>> \in Seq(S) /\ Len(<<>>) = 0
    BY EmptySeq
  <2> QED
    BY <1>1, <2>1, <2>2, QuotesAssumption DEF Init, TypeOK
<1>3. /\ wire \in [Venues -> Seq(BookChange) \cup Seq(Books)]
      /\ \A v \in Venues : wire[v] \in WireType(v)
  BY EmptySeq DEF Init, WireType
<1> QED
  BY <1>2, <1>3, QuotesAssumption DEF Init, Shape

\* No step changes the shape.
LEMMA ShapeStep == Shape /\ [Next]_vars => Shape'
<1> SUFFICES ASSUME Shape, [Next]_vars PROVE Shape'
  OBVIOUS
<1> USE DEF Shape, feed, writer, bounds
<1>a. /\ market \in [Venues -> MarketBooks] /\ linked \subseteq Venues
      /\ local \in [Venues -> Books]
      /\ queue \in Seq(Rows) /\ pending \in Seq(Rows) /\ batch \in Seq(Rows)
      /\ put \in Seq(Rows) /\ written \in Seq(Rows)
      /\ Len(queue) <= QueueSize /\ Len(pending) < BatchSize /\ Len(batch) <= BatchSize
  BY DEF TypeOK
<1>b. QueueSize \in Nat \ {0} /\ BatchSize \in Nat \ {0} /\ MaxMinutes \in Nat
  BY QuotesAssumption
<1>1. ASSUME NEW v \in Venues, Move(v) PROVE Shape'
  <2>1. PICK book \in MarketBooks :
          /\ market' = [market EXCEPT ![v] = book]
          /\ wire' = IF v \in linked THEN [wire EXCEPT ![v] = @ \o Messages(v, book)] ELSE wire
    BY <1>1 DEF Move
  <2>2. wire[v] \o Messages(v, book) \in WireType(v)
    <3>1. wire[v] \in WireType(v) /\ Messages(v, book) \in WireType(v)
      BY <1>a, MessagesType
    <3> QED
      BY <3>1, ConcatProperties DEF WireType
  <2>3. /\ wire' \in [Venues -> Seq(BookChange) \cup Seq(Books)]
        /\ \A u \in Venues : wire'[u] \in WireType(u)
    BY <2>1, <2>2 DEF WireType
  <2>4. market' \in [Venues -> MarketBooks]
    BY <1>a, <2>1
  <2> QED
    BY <1>1, <1>a, <2>3, <2>4 DEF Move, TypeOK, WireType
<1>2. ASSUME NEW v \in Venues, Connect(v) PROVE Shape'
  <2>1. Snapshot(v) \in WireType(v)
    BY <1>a, SnapshotType
  <2>2. /\ wire' \in [Venues -> Seq(BookChange) \cup Seq(Books)]
        /\ \A u \in Venues : wire'[u] \in WireType(u)
    BY <1>2, <2>1 DEF Connect, WireType
  <2> QED
    BY <1>2, <1>a, <2>2 DEF Connect, TypeOK, WireType
<1>3. ASSUME NEW v \in Venues, Listen(v) PROVE Shape'
  <2>1. /\ Tail(wire[v]) \in WireType(v)
        /\ v \in Coinbase => Head(wire[v]) \in BookChange
        /\ v \notin Coinbase => Head(wire[v]) \in Books
    BY <1>3, HeadTailProperties DEF Listen, WireType
  <2>2. Updated(v, Head(wire[v])) \in Books
    BY <1>a, <2>1, UpdatedType
  <2>3. /\ wire' \in [Venues -> Seq(BookChange) \cup Seq(Books)]
        /\ \A u \in Venues : wire'[u] \in WireType(u)
    BY <1>3, <2>1 DEF Listen, WireType
  <2>4. local' \in [Venues -> Books]
    BY <1>3, <1>a, <2>2 DEF Listen
  <2> QED
    BY <1>3, <1>a, <2>3, <2>4 DEF Listen, TypeOK, WireType
<1>4. ASSUME NEW v \in Venues, Sample(v) PROVE Shape'
  <2> DEFINE bid == Max(local[v].bids)
             ask == Min(local[v].asks)
             row == [venue |-> v, minute |-> minute, bid |-> bid, ask |-> ask]
  <2>1. \/ price' = price /\ hand' = hand
        \/ /\ price' = [price EXCEPT ![v] = bid + ask] /\ hand' = [hand EXCEPT ![v] = row]
           /\ local[v].bids # {} /\ local[v].asks # {}
    BY <1>4 DEF Sample
  <2>2. local[v].bids # {} /\ local[v].asks # {} => bid \in Nat /\ ask \in Nat /\ row \in Rows
    BY <1>4, SampleType DEF Sample
  <2> HIDE DEF bid, ask, row
  <2>3. price' \in [Venues -> Nat \cup {None}] /\ hand' \in [Venues -> Rows \cup {None}]
    <3>1. price \in [Venues -> Nat \cup {None}] /\ hand \in [Venues -> Rows \cup {None}]
      BY <1>a DEF TypeOK
    <3>2. CASE price' = price /\ hand' = hand
      BY <3>1, <3>2
    <3>3. CASE /\ price' = [price EXCEPT ![v] = bid + ask] /\ hand' = [hand EXCEPT ![v] = row]
               /\ local[v].bids # {} /\ local[v].asks # {}
      <4>1. bid + ask \in Nat /\ row \in Rows
        BY <2>2, <3>3
      <4> QED
        BY <3>1, <3>3, <4>1
    <3> QED
      BY <2>1, <3>2, <3>3
  <2>4. sampled' \in [Venues -> Nat]
    BY <1>4, <1>b DEF Sample
  <2> QED
    BY <1>4, <1>a, <2>3, <2>4 DEF Sample, TypeOK, WireType
<1>5. ASSUME NEW v \in Venues, Put(v) PROVE Shape'
  <2>1. hand[v] \in Rows
    BY <1>5 DEF Put
  <2>2. /\ queue' \in Seq(Rows) /\ put' \in Seq(Rows)
        /\ Len(queue') = Len(queue) + 1 /\ Len(queue) \in Nat
    BY <1>5, <1>a, <2>1, AppendProperties, LenProperties DEF Put
  <2>3. Len(queue') <= QueueSize
    BY <1>5, <1>b, <2>2 DEF Put, HasRoom
  <2>4. hand' \in [Venues -> Rows \cup {None}]
    BY <1>5 DEF Put
  <2> QED
    BY <1>5, <1>a, <2>2, <2>3, <2>4 DEF Put, TypeOK, WireType
<1>6. ASSUME NEW v \in Venues, Break(v) PROVE Shape'
  <2>1. /\ wire' \in [Venues -> Seq(BookChange) \cup Seq(Books)]
        /\ \A u \in Venues : wire'[u] \in WireType(u)
    BY <1>6, EmptySeq DEF Break, WireType
  <2>2. local' \in [Venues -> Books]
    BY <1>6, <1>a DEF Break, NewClient, Empty, Books
  <2> QED
    BY <1>6, <1>a, <2>1, <2>2 DEF Break, NewClient, TypeOK, WireType
<1>7. CASE Take
  <2> DEFINE rows == Append(pending, Head(queue))
  <2>1. Head(queue) \in Rows /\ queue' \in Seq(Rows) /\ Len(queue') = Len(queue) - 1
    BY <1>7, <1>a, HeadTailProperties DEF Take
  <2>2. rows \in Seq(Rows) /\ Len(rows) = Len(pending) + 1
    BY <1>a, <2>1, AppendProperties
  <2>3. /\ Len(queue) \in Nat /\ Len(pending) \in Nat /\ Len(rows) \in Nat
        /\ <<>> \in Seq(Rows) /\ Len(<<>>) = 0
    BY <1>a, <2>2, LenProperties, EmptySeq
  <2>4. \/ batch' = rows /\ pending' = <<>>
        \/ /\ pending' = rows /\ batch' = batch /\ ~ (Len(rows) >= BatchSize)
    BY <1>7 DEF Take, Writable
  <2> HIDE DEF rows
  <2>5. /\ batch' \in Seq(Rows) /\ pending' \in Seq(Rows)
        /\ Len(pending') < BatchSize /\ Len(batch') <= BatchSize /\ Len(queue') <= QueueSize
    <3>1. BatchSize \in Nat /\ QueueSize \in Nat /\ 0 < BatchSize
      BY <1>b
    <3>2. Len(queue') <= QueueSize
      BY <1>a, <2>1, <2>3, <3>1
    <3>3. CASE batch' = rows /\ pending' = <<>>
      BY <1>a, <2>2, <2>3, <3>1, <3>2, <3>3
    <3>4. CASE pending' = rows /\ batch' = batch /\ ~ (Len(rows) >= BatchSize)
      BY <1>a, <2>2, <2>3, <3>1, <3>2, <3>4
    <3> QED
      BY <2>4, <3>3, <3>4
  <2> QED
    BY <1>7, <1>a, <2>1, <2>5 DEF Take, TypeOK, WireType
<1>8. CASE WriteEnd
  <2>1. written' \in Seq(Rows) /\ batch' \in Seq(Rows) /\ Len(batch') = 0
    BY <1>8, <1>a, ConcatProperties, EmptySeq DEF WriteEnd, Written
  <2> QED
    BY <1>8, <1>a, <1>b, <2>1 DEF WriteEnd, Written, TypeOK, WireType
<1>9. CASE Crash
  <2>1. \A S : <<>> \in Seq(S) /\ Len(<<>>) = 0
    BY EmptySeq
  <2>2. /\ wire' \in [Venues -> Seq(BookChange) \cup Seq(Books)]
        /\ \A u \in Venues : wire'[u] \in WireType(u)
    BY <1>9, <2>1 DEF Crash, WireType
  <2>3. local' \in [Venues -> Books]
    BY <1>9 DEF Crash, Empty, Books
  <2> QED
    BY <1>9, <1>a, <1>b, <2>1, <2>2, <2>3 DEF Crash, TypeOK, WireType
<1>10. CASE Restart
  BY <1>10, <1>a DEF Restart, TypeOK, WireType
<1>11. CASE Tick
  <2>1. minute' \in 0..MaxMinutes
    BY <1>11, <1>b DEF Tick
  <2> QED
    BY <1>11, <1>a, <2>1 DEF Tick, TypeOK, WireType
<1>12. CASE UNCHANGED vars
  BY <1>12, <1>a DEF vars, TypeOK, WireType
<1> QED
  BY <1>1, <1>2, <1>3, <1>4, <1>5, <1>6, <1>7, <1>8, <1>9, <1>10, <1>11, <1>12 DEF Next
-----------------------------------------------------------------------------
(* QuoteRecorder: the rows.                                                *)

RowsKept == Shape /\ RowsConserved

\* A sequence is its first element and the rest.
LEMMA HeadThenTail ==
  ASSUME NEW S, NEW s \in Seq(S), s # <<>>
  PROVE  Head(s) \in S /\ Tail(s) \in Seq(S) /\ s = <<Head(s)>> \o Tail(s)
<1>1. Head(s) \in S /\ Tail(s) \in Seq(S) /\ Tail(s) = SubSeq(s, 2, Len(s)) /\ Head(s) = s[1]
  BY HeadTailProperties, TailIsSubSeq
<1>2. Len(s) \in Nat \ {0}
  BY EmptySeq
<1>3. SubSeq(s, 1, Len(s)) = <<s[1]>> \o SubSeq(s, 2, Len(s))
  <2>1. 1 \in 1..Len(s) /\ Len(s) \in 1..Len(s) /\ 1 + 1 = 2
    BY <1>2
  <2> QED
    BY <2>1, SubSeqRecursiveFirst
<1> QED
  BY <1>1, <1>3, SubSeqFull

\* A row that enters the queue is the last of all.
LEMMA RowPut ==
  ASSUME NEW S, NEW a \in Seq(S), NEW q \in Seq(S), NEW r \in S
  PROVE  a \o Append(q, r) = Append(a \o q, r)
<1>1. <<r>> \in Seq(S) /\ a \o q \in Seq(S)
  BY ConcatProperties, ShortSeq
<1>2. Append(q, r) = q \o <<r>> /\ Append(a \o q, r) = (a \o q) \o <<r>>
  BY <1>1, AppendIsConcat
<1>3. (a \o q) \o <<r>> = a \o (q \o <<r>>)
  BY <1>1, ConcatAssociative
<1> QED
  BY <1>2, <1>3

\* A row that the writer takes stays where it is in the order.
LEMMA RowTaken ==
  ASSUME NEW a \in Seq(Rows), NEW c \in Seq(Rows), NEW q \in Seq(Rows), q # <<>>
  PROVE  (a \o Append(c, Head(q))) \o Tail(q) = (a \o c) \o q
<1> DEFINE h == <<Head(q)>>
           t == Tail(q)
           ac == a \o c
<1>1. Head(q) \in Rows /\ t \in Seq(Rows) /\ q = h \o t /\ h \in Seq(Rows)
  BY HeadThenTail, ShortSeq
<1>2. a \o Append(c, Head(q)) = Append(ac, Head(q)) /\ ac \in Seq(Rows)
  BY <1>1, RowPut, ConcatProperties
<1>3. Append(ac, Head(q)) = ac \o h
  BY <1>1, <1>2, AppendIsConcat
<1>4. (ac \o h) \o t = ac \o (h \o t)
  <2>1. ac \in Seq(Rows) /\ h \in Seq(Rows) /\ t \in Seq(Rows)
    BY <1>1, <1>2
  <2> HIDE DEF h, t, ac
  <2> QED
    BY <2>1, ConcatAssociative, SMTT(60)
<1> QED
  BY <1>1, <1>2, <1>3, <1>4

\* At first there are no rows.
LEMMA RowsInit == Init => RowsKept
<1> SUFFICES ASSUME Init PROVE RowsKept
  OBVIOUS
<1>1. Shape
  BY ShapeInit
<1>2. \A s \in Seq(Rows) : s \o <<>> = s
  BY ConcatEmptySeq
<1>3. <<>> \in Seq(Rows) /\ Len(<<>>) = 0
  BY EmptySeq
<1>4. RowsConserved
  BY <1>2, <1>3 DEF Init, RowsConserved
<1> QED
  BY <1>1, <1>4 DEF RowsKept

\* No step loses, repeats or reorders a row.
LEMMA RowsStep == RowsKept /\ [Next]_vars => RowsKept'
<1> SUFFICES ASSUME RowsKept, [Next]_vars PROVE RowsKept'
  OBVIOUS
<1>a. Shape /\ RowsConserved
  BY DEF RowsKept
<1>b. Shape'
  BY <1>a, ShapeStep
<1>c. /\ queue \in Seq(Rows) /\ pending \in Seq(Rows) /\ batch \in Seq(Rows)
      /\ put \in Seq(Rows) /\ written \in Seq(Rows)
      /\ hand \in [Venues -> Rows \cup {None}]
  BY <1>a DEF Shape, TypeOK
<1>d. UNCHANGED writer => RowsKept'
  BY <1>a, <1>b DEF RowsKept, RowsConserved, writer
<1>1. ASSUME NEW v \in Venues, Move(v) \/ Connect(v) \/ Listen(v) PROVE RowsKept'
  BY <1>1, <1>d DEF Move, Connect, Listen
<1>2. ASSUME NEW v \in Venues, Sample(v) \/ Break(v) PROVE RowsKept'
  BY <1>2, <1>d DEF Sample, Break
<1>3. ASSUME NEW v \in Venues, Put(v) PROVE RowsKept'
  <2>1. /\ hand[v] \in Rows
        /\ queue' = Append(queue, hand[v]) /\ put' = Append(put, hand[v])
        /\ UNCHANGED <<pending, batch, written>>
    BY <1>3, <1>c DEF Put
  <2>2. RowsConserved'
    <3> DEFINE a == written \o batch \o pending
    <3>1. a \in Seq(Rows) /\ put = a \o queue
      BY <1>a, <1>c, ConcatProperties DEF RowsConserved
    <3>2. a \o queue' = put'
      <4> HIDE DEF a
      <4> QED
        BY <1>c, <2>1, <3>1, RowPut
    <3>3. a' = a
      BY <2>1
    <3> QED
      BY <3>2, <3>3 DEF RowsConserved
  <2> QED
    BY <1>b, <2>2 DEF RowsKept
<1>5. CASE Take
  <2> DEFINE rows == Append(pending, Head(queue))
  <2>1. /\ queue # <<>> /\ batch = <<>> /\ queue' = Tail(queue)
        /\ UNCHANGED <<put, written, hand>>
        /\ \/ batch' = rows /\ pending' = <<>>
           \/ pending' = rows /\ batch' = <<>>
    BY <1>5 DEF Take, feed
  <2>2. /\ (written \o rows) \o Tail(queue) = (written \o pending) \o queue
        /\ rows \in Seq(Rows)
    <3>1. Head(queue) \in Rows
      BY <1>c, <2>1, HeadThenTail
    <3>2. rows \in Seq(Rows)
      BY <1>c, <3>1, AppendProperties
    <3>3. (written \o rows) \o Tail(queue) = (written \o pending) \o queue
      <4>1. queue # <<>> /\ written \in Seq(Rows) /\ pending \in Seq(Rows) /\ queue \in Seq(Rows)
        BY <1>c, <2>1
      <4> HIDE DEF Rows
      <4> QED
        BY <4>1, RowTaken
    <3> QED
      BY <3>2, <3>3
  <2> HIDE DEF rows
  <2>3. written \o <<>> = written /\ (written \o rows) \o <<>> = written \o rows
    BY <1>c, <2>2, ConcatProperties, ConcatEmptySeq
  <2>4. (written \o pending) \o queue = put
    BY <1>a, <2>1, <2>3 DEF RowsConserved
  <2>5. RowsConserved'
    <3>1. CASE batch' = rows /\ pending' = <<>>
      BY <2>1, <2>2, <2>3, <2>4, <3>1 DEF RowsConserved
    <3>2. CASE pending' = rows /\ batch' = <<>>
      BY <2>1, <2>2, <2>3, <2>4, <3>2 DEF RowsConserved
    <3> QED
      BY <2>1, <3>1, <3>2
  <2> QED
    BY <1>a, <1>b, <2>1, <2>5 DEF RowsKept
<1>6. CASE WriteEnd
  <2>1. /\ written' = written \o batch /\ batch' = <<>>
        /\ UNCHANGED <<queue, pending, put, hand>>
    BY <1>6 DEF WriteEnd, Written, feed
  <2>2. written \o batch \o <<>> = written \o batch
    BY <1>c, ConcatProperties, ConcatEmptySeq
  <2>3. RowsConserved'
    BY <1>a, <2>1, <2>2 DEF RowsConserved
  <2> QED
    BY <1>a, <1>b, <2>1, <2>3 DEF RowsKept
<1>7. CASE Crash
  <2>1. /\ queue' = <<>> /\ pending' = <<>> /\ batch' = <<>> /\ put' = <<>> /\ written' = <<>>
        /\ hand' = [v \in Venues |-> None]
    BY <1>7 DEF Crash
  <2>2. <<>> \in Seq(Rows) /\ Len(<<>>) = 0 /\ <<>> \o <<>> = <<>>
    BY EmptySeq, ConcatEmptySeq
  <2>3. RowsConserved'
    BY <2>1, <2>2 DEF RowsConserved
  <2> QED
    BY <1>b, <2>3 DEF RowsKept
<1>8. CASE Restart \/ Tick \/ UNCHANGED vars
  BY <1>8, <1>d DEF Restart, Tick, vars, feed
<1> QED
  BY <1>1, <1>2, <1>3, <1>5, <1>6, <1>7, <1>8 DEF Next

\* What every state of the recorder keeps over broken connections, full queues
\* and deaths: types and sizes, and every row in one place and in order from the queue
\* to the disk (_sample, _buffer_writer).
THEOREM RowsInvariant == Spec => []RowsInv
<1>1. RowsKept => RowsInv
  BY DEF RowsKept, RowsInv, Shape
<1> QED
  BY RowsInit, RowsStep, <1>1, PTL DEF Spec
-----------------------------------------------------------------------------
(* QuoteRecorder: the books.                                               *)

\* The messages w, still on their way to a client that knows the levels known of
\* a side, lead it to the levels current: the last one about that side says so, and
\* each takes away what the one before, or the client, has and it has not.
Leads(w, known, current, side) ==
  /\ (\A i \in 1..Len(w) : w[i].side # side) => known = current
  /\ \A j \in 1..Len(w) :
       /\ w[j].side = side
       /\ \A k \in 1..Len(w) : k > j => w[k].side # side
       => w[j].levels = current
  /\ \A j \in 1..Len(w) :
       /\ w[j].side = side
       /\ \A k \in 1..Len(w) : k < j => w[k].side # side
       => known \ w[j].levels \subseteq w[j].gone
  /\ \A i, j \in 1..Len(w) :
       /\ i < j /\ w[i].side = side /\ w[j].side = side
       /\ \A k \in 1..Len(w) : i < k /\ k < j => w[k].side # side
       => w[i].levels \ w[j].levels \subseteq w[j].gone

\* The next message on the other side changes nothing.
LEMMA LeadsOther ==
  ASSUME NEW w \in Seq(BookChange), NEW known, NEW current, NEW side \in Sides,
         Leads(w, known, current, side), NEW m \in BookChange, m.side # side
  PROVE  Leads(Append(w, m), known, current, side)
<1> DEFINE x == Append(w, m)
           n == Len(w)
<1>1. /\ n \in Nat /\ Len(x) = n + 1 /\ x[n + 1] = m /\ \A i \in 1..n : x[i] = w[i]
  BY AppendProperties, LenProperties
<1> HIDE DEF x
<1>2. (\A i \in 1..Len(x) : x[i].side # side) => known = current
  BY <1>1 DEF Leads
<1>3. ASSUME NEW j \in 1..Len(x), x[j].side = side
      PROVE  j \in 1..n /\ x[j] = w[j] /\ w[j].side = side
  BY <1>1, <1>3
<1>4. ASSUME NEW j \in 1..Len(x), x[j].side = side,
             \A k \in 1..Len(x) : k > j => x[k].side # side
      PROVE  x[j].levels = current
  <2>1. \A k \in 1..n : k > j => w[k].side # side
    BY <1>1, <1>4
  <2> QED
    BY <1>3, <1>4, <2>1 DEF Leads
<1>5. ASSUME NEW j \in 1..Len(x), x[j].side = side,
             \A k \in 1..Len(x) : k < j => x[k].side # side
      PROVE  known \ x[j].levels \subseteq x[j].gone
  <2>1. \A k \in 1..n : k < j => w[k].side # side
    BY <1>1, <1>5
  <2> QED
    BY <1>3, <1>5, <2>1 DEF Leads
<1>6. ASSUME NEW i \in 1..Len(x), NEW j \in 1..Len(x), i < j, x[i].side = side, x[j].side = side,
             \A k \in 1..Len(x) : i < k /\ k < j => x[k].side # side
      PROVE  x[i].levels \ x[j].levels \subseteq x[j].gone
  <2>1. \A k \in 1..n : i < k /\ k < j => w[k].side # side
    BY <1>1, <1>6
  <2> QED
    BY <1>3, <1>6, <2>1 DEF Leads
<1> QED
  BY <1>2, <1>4, <1>5, <1>6 DEF Leads, x
\* The next message on the side leads to what it says.
LEMMA LeadsOn ==
  ASSUME NEW w \in Seq(BookChange), NEW known, NEW current, NEW side \in Sides,
         Leads(w, known, current, side), NEW m \in BookChange, m.side = side,
         m.gone = current \ m.levels
  PROVE  Leads(Append(w, m), known, m.levels, side)
<1> DEFINE x == Append(w, m)
           n == Len(w)
<1>1. /\ n \in Nat /\ Len(x) = n + 1 /\ x[n + 1] = m /\ \A i \in 1..n : x[i] = w[i]
  BY AppendProperties, LenProperties
<1> HIDE DEF x
<1>2. ~ \A i \in 1..Len(x) : x[i].side # side
  BY <1>1
<1>3. ASSUME NEW j \in 1..Len(x), \A k \in 1..Len(x) : k > j => x[k].side # side
      PROVE  x[j].levels = m.levels
  <2>1. j = n + 1
    BY <1>1, <1>3
  <2> QED
    BY <1>1, <2>1
<1>4. ASSUME NEW j \in 1..Len(x), x[j].side = side,
             \A k \in 1..Len(x) : k < j => x[k].side # side
      PROVE  known \ x[j].levels \subseteq x[j].gone
  <2>1. \A k \in 1..n : k < j => w[k].side # side
    BY <1>1, <1>4
  <2>2. CASE j \in 1..n
    BY <1>1, <1>4, <2>1, <2>2 DEF Leads
  <2>3. CASE j = n + 1
    <3>1. known = current
      BY <2>1, <2>3, <1>1 DEF Leads
    <3> QED
      BY <1>1, <2>3, <3>1
  <2> QED
    BY <1>1, <2>2, <2>3
<1>5. ASSUME NEW i \in 1..Len(x), NEW j \in 1..Len(x), i < j, x[i].side = side, x[j].side = side,
             \A k \in 1..Len(x) : i < k /\ k < j => x[k].side # side
      PROVE  x[i].levels \ x[j].levels \subseteq x[j].gone
  <2>1. i \in 1..n /\ x[i] = w[i] /\ \A k \in 1..n : i < k /\ k < j => w[k].side # side
    BY <1>1, <1>5
  <2>2. CASE j \in 1..n
    BY <1>1, <1>5, <2>1, <2>2 DEF Leads
  <2>3. CASE j = n + 1
    <3>1. w[i].levels = current
      BY <1>1, <1>5, <2>1, <2>3 DEF Leads
    <3> QED
      BY <1>1, <2>1, <2>3, <3>1
  <2> QED
    BY <1>1, <2>2, <2>3
<1> QED
  BY <1>2, <1>3, <1>4, <1>5 DEF Leads, x

\* A message about the side that has arrived leaves the client with its levels, and
\* the others lead it on.
LEMMA LeadsHeard ==
  ASSUME NEW w \in Seq(BookChange), NEW known, NEW current, NEW side \in Sides,
         Leads(w, known, current, side), w # <<>>, w[1].side = side
  PROVE  Leads(Tail(w), (known \ w[1].gone) \cup w[1].levels, current, side)
<1> DEFINE x == Tail(w)
           n == Len(x)
<1>1. /\ n \in Nat /\ Len(w) = n + 1 /\ \A i \in 1..n : x[i] = w[i + 1]
  BY HeadTailProperties, LenProperties
<1> HIDE DEF x
<1>2. (known \ w[1].gone) \cup w[1].levels = w[1].levels
  <2>1. known \ w[1].levels \subseteq w[1].gone
    BY <1>1 DEF Leads
  <2> QED
    BY <2>1
<1>3. ASSUME \A i \in 1..n : x[i].side # side PROVE w[1].levels = current
  <2>1. \A k \in 1..Len(w) : k > 1 => w[k].side # side
    <3> SUFFICES ASSUME NEW k \in 1..Len(w), k > 1 PROVE w[k].side # side
      OBVIOUS
    <3>1. k - 1 \in 1..n /\ x[k - 1] = w[k]
      BY <1>1
    <3> QED
      BY <1>3, <3>1
  <2> QED
    BY <1>1, <2>1 DEF Leads
<1>4. ASSUME NEW j \in 1..n, x[j].side = side, \A k \in 1..n : k > j => x[k].side # side
      PROVE  x[j].levels = current
  <2>1. j + 1 \in 1..Len(w) /\ x[j] = w[j + 1]
    BY <1>1
  <2>2. \A k \in 1..Len(w) : k > j + 1 => w[k].side # side
    <3> SUFFICES ASSUME NEW k \in 1..Len(w), k > j + 1 PROVE w[k].side # side
      OBVIOUS
    <3>1. k - 1 \in 1..n /\ k - 1 > j /\ x[k - 1] = w[k]
      BY <1>1
    <3> QED
      BY <1>4, <3>1
  <2> QED
    BY <1>4, <2>1, <2>2 DEF Leads
<1>5. ASSUME NEW i \in 0..n, NEW j \in 1..n, i < j,
             w[i + 1].side = side, x[j].side = side,
             \A k \in 1..n : i < k /\ k < j => x[k].side # side
      PROVE  w[i + 1].levels \ x[j].levels \subseteq x[j].gone
  <2>1. /\ j + 1 \in 1..Len(w) /\ x[j] = w[j + 1]
        /\ i + 1 \in 1..Len(w) /\ i + 1 < j + 1
    BY <1>1, <1>5
  <2>2. \A k \in 1..Len(w) : i + 1 < k /\ k < j + 1 => w[k].side # side
    <3> SUFFICES ASSUME NEW k \in 1..Len(w), i + 1 < k, k < j + 1 PROVE w[k].side # side
      OBVIOUS
    <3>1. k - 1 \in 1..n /\ i < k - 1 /\ k - 1 < j
      BY <1>1
    <3>2. x[k - 1] = w[k]
      BY <1>1, <3>1
    <3> QED
      BY <1>5, <3>1, <3>2
  <2> QED
    BY <1>5, <2>1, <2>2 DEF Leads
<1>6. ASSUME NEW j \in 1..n, x[j].side = side, \A k \in 1..n : k < j => x[k].side # side
      PROVE  w[1].levels \ x[j].levels \subseteq x[j].gone
  <2>1. 0 \in 0..n /\ 0 < j /\ 0 + 1 = 1
    BY <1>1
  <2> QED
    BY <1>5, <1>6, <2>1
<1>7. ASSUME NEW i \in 1..n, NEW j \in 1..n, i < j, x[i].side = side, x[j].side = side,
             \A k \in 1..n : i < k /\ k < j => x[k].side # side
      PROVE  x[i].levels \ x[j].levels \subseteq x[j].gone
  <2>1. i \in 0..n /\ x[i] = w[i + 1]
    BY <1>1
  <2> QED
    BY <1>5, <1>7, <2>1
<1> QED
  BY <1>2, <1>3, <1>4, <1>6, <1>7 DEF Leads, x

\* A message about the other side only leaves.
LEMMA LeadsUnheard ==
  ASSUME NEW w \in Seq(BookChange), NEW known, NEW current, NEW side \in Sides,
         Leads(w, known, current, side), w # <<>>, w[1].side # side
  PROVE  Leads(Tail(w), known, current, side)
<1> DEFINE x == Tail(w)
           n == Len(x)
<1>1. /\ n \in Nat /\ Len(w) = n + 1 /\ \A i \in 1..n : x[i] = w[i + 1]
  BY HeadTailProperties, LenProperties
<1> HIDE DEF x
<1>2. ASSUME NEW k \in 1..Len(w), w[k].side = side PROVE k - 1 \in 1..n /\ x[k - 1] = w[k]
  BY <1>1, <1>2
<1>3. (\A i \in 1..n : x[i].side # side) => known = current
  BY <1>2 DEF Leads
<1>4. ASSUME NEW j \in 1..n, x[j].side = side, \A k \in 1..n : k > j => x[k].side # side
      PROVE  x[j].levels = current
  <2>1. j + 1 \in 1..Len(w) /\ x[j] = w[j + 1]
    BY <1>1
  <2>2. \A k \in 1..Len(w) : k > j + 1 => w[k].side # side
    <3> SUFFICES ASSUME NEW k \in 1..Len(w), k > j + 1, w[k].side = side PROVE FALSE
      OBVIOUS
    <3>1. k - 1 \in 1..n /\ x[k - 1].side = side
      BY <1>2
    <3>2. k - 1 > j
      BY <1>1, <3>1
    <3> QED
      BY <1>4, <3>1, <3>2
  <2> QED
    BY <1>4, <2>1, <2>2 DEF Leads
<1>5. ASSUME NEW j \in 1..n, x[j].side = side, \A k \in 1..n : k < j => x[k].side # side
      PROVE  known \ x[j].levels \subseteq x[j].gone
  <2>1. j + 1 \in 1..Len(w) /\ x[j] = w[j + 1]
    BY <1>1
  <2>2. \A k \in 1..Len(w) : k < j + 1 => w[k].side # side
    BY <1>1, <1>2, <1>5
  <2> QED
    BY <1>5, <2>1, <2>2 DEF Leads
<1>6. ASSUME NEW i \in 1..n, NEW j \in 1..n, i < j, x[i].side = side, x[j].side = side,
             \A k \in 1..n : i < k /\ k < j => x[k].side # side
      PROVE  x[i].levels \ x[j].levels \subseteq x[j].gone
  <2>1. /\ j + 1 \in 1..Len(w) /\ x[j] = w[j + 1]
        /\ i + 1 \in 1..Len(w) /\ x[i] = w[i + 1] /\ i + 1 < j + 1
    BY <1>1, <1>6
  <2>2. \A k \in 1..Len(w) : i + 1 < k /\ k < j + 1 => w[k].side # side
    <3> SUFFICES ASSUME NEW k \in 1..Len(w), i + 1 < k, k < j + 1, w[k].side = side PROVE FALSE
      OBVIOUS
    <3>1. k - 1 \in 1..n /\ x[k - 1].side = side
      BY <1>2
    <3>2. i < k - 1 /\ k - 1 < j
      BY <1>1, <3>1
    <3> QED
      BY <1>6, <3>1, <3>2
  <2> QED
    BY <1>6, <2>1, <2>2 DEF Leads
<1> QED
  BY <1>3, <1>4, <1>5, <1>6 DEF Leads, x

\* A client that waits for nothing knows what there is, and only then.
LEMMA LeadsNone ==
  ASSUME NEW known, NEW current, NEW side
  PROVE  Leads(<<>>, known, current, side) <=> known = current
BY EmptySeq DEF Leads
\* A linked client is led to the exchange's book, by Kraken's last message at once;
\* the next connection begins with an empty one.
LedTo(v, w, book, current) ==
  IF v \in Coinbase
    THEN Leads(w, book.bids, current.bids, "bids") /\ Leads(w, book.asks, current.asks, "asks")
    ELSE IF w = <<>> THEN book = Top(current) ELSE w[Len(w)] = Top(current)

BooksKept ==
  /\ Shape
  /\ \A v \in Venues \ linked : local[v] = Empty
  /\ \A v \in linked : LedTo(v, wire[v], local[v], market[v])

\* A new connection's messages lead from nothing to the book.
LEMMA SnapshotLeads ==
  ASSUME NEW v \in Venues, market[v] \in MarketBooks
  PROVE  LedTo(v, Snapshot(v), Empty, market[v])
<1> DEFINE bids == Change("bids", market[v].bids, {})
           asks == Change("asks", market[v].asks, {})
<1>1. market[v].bids \in SUBSET Levels /\ market[v].asks \in SUBSET Levels
  BY MarketTop
<1>2. bids \in BookChange /\ asks \in BookChange
  BY <1>1, ChangeType DEF Sides
<1>3. /\ bids.side = "bids" /\ bids.levels = market[v].bids /\ bids.gone = {} \ bids.levels
      /\ asks.side = "asks" /\ asks.levels = market[v].asks /\ asks.gone = {} \ asks.levels
  BY DEF Change
<1>4. /\ <<>> \in Seq(BookChange) /\ Append(<<>>, bids) \in Seq(BookChange)
      /\ <<bids, asks>> = Append(Append(<<>>, bids), asks)
  BY <1>2, EmptySeq, AppendProperties
<1> HIDE DEF bids, asks
<1>5. Leads(<<>>, {}, {}, "bids") /\ Leads(<<>>, {}, {}, "asks")
  BY LeadsNone
<1>6. /\ Leads(Append(<<>>, bids), {}, market[v].bids, "bids")
      /\ Leads(Append(<<>>, bids), {}, {}, "asks")
  BY <1>2, <1>3, <1>4, <1>5, LeadsOn, LeadsOther DEF Sides
<1>7. /\ Leads(<<bids, asks>>, {}, market[v].bids, "bids")
      /\ Leads(<<bids, asks>>, {}, market[v].asks, "asks")
  BY <1>2, <1>3, <1>4, <1>6, LeadsOn, LeadsOther DEF Sides
<1>8. CASE v \in Coinbase
  BY <1>7, <1>8 DEF LedTo, Snapshot, Empty, bids, asks
<1>9. CASE v \notin Coinbase
  BY <1>9 DEF LedTo, Snapshot
<1> QED
  BY <1>8, <1>9

\* When an exchange's book changes, the messages lead to the new one.
LEMMA MessagesLead ==
  ASSUME NEW v \in Venues, market[v] \in MarketBooks, NEW book \in MarketBooks,
         NEW w \in WireType(v), NEW known, LedTo(v, w, known, market[v])
  PROVE  LedTo(v, w \o Messages(v, book), known, book)
<1> DEFINE old == market[v]
           bids == Change("bids", book.bids, old.bids \ book.bids)
           asks == Change("asks", book.asks, old.asks \ book.asks)
<1>1. CASE v \in Coinbase
  <2>1. /\ old.bids \in SUBSET Levels /\ old.asks \in SUBSET Levels
        /\ book.bids \in SUBSET Levels /\ book.asks \in SUBSET Levels
    BY MarketTop
  <2>2. bids \in BookChange /\ asks \in BookChange
    BY <2>1, ChangeType DEF Sides
  <2>3. /\ bids.side = "bids" /\ bids.levels = book.bids /\ bids.gone = old.bids \ bids.levels
        /\ asks.side = "asks" /\ asks.levels = book.asks /\ asks.gone = old.asks \ asks.levels
    BY DEF Change
  <2>4. w \in Seq(BookChange) /\ Messages(v, book) = <<bids, asks>>
    BY <1>1 DEF WireType, Messages
  <2>5. Leads(w, known.bids, old.bids, "bids") /\ Leads(w, known.asks, old.asks, "asks")
    BY <1>1 DEF LedTo
  <2> HIDE DEF bids, asks, old
  <2>6. /\ Append(w, bids) \in Seq(BookChange)
        /\ w \o <<bids, asks>> = Append(Append(w, bids), asks)
    BY <2>2, <2>4, AppendTwo, AppendProperties
  <2>7. /\ Leads(Append(w, bids), known.bids, book.bids, "bids")
        /\ Leads(Append(w, bids), known.asks, old.asks, "asks")
    BY <2>2, <2>3, <2>4, <2>5, LeadsOn, LeadsOther DEF Sides
  <2>8. Leads(Append(Append(w, bids), asks), known.bids, book.bids, "bids")
    BY <2>2, <2>3, <2>6, <2>7, LeadsOther DEF Sides
  <2>9. Leads(Append(Append(w, bids), asks), known.asks, book.asks, "asks")
    BY <2>2, <2>3, <2>6, <2>7, LeadsOn DEF Sides
  <2> QED
    BY <1>1, <2>4, <2>6, <2>8, <2>9 DEF LedTo, bids, asks, old
<1>2. CASE v \notin Coinbase
  <2>1. w \in Seq(Books) /\ Top(book) \in Books
    BY <1>2, MarketTop DEF WireType
  <2>2. CASE Top(book) = Top(old)
    <3>1. w \o Messages(v, book) = w
      BY <1>2, <2>1, <2>2, ConcatEmptySeq DEF Messages
    <3> QED
      BY <1>2, <2>2, <3>1 DEF LedTo
  <2>3. CASE Top(book) # Top(old)
    <3>1. w \o Messages(v, book) = Append(w, Top(book))
      BY <1>2, <2>1, <2>3, AppendIsConcat DEF Messages
    <3>2. /\ Append(w, Top(book)) # <<>>
          /\ Append(w, Top(book))[Len(Append(w, Top(book)))] = Top(book)
      BY <2>1, AppendProperties
    <3> QED
      BY <1>2, <3>1, <3>2 DEF LedTo
  <2> QED
    BY <2>2, <2>3
<1> QED
  BY <1>1, <1>2

\* A client that hears a message is still led to the book.
LEMMA HearingLeads ==
  ASSUME NEW v \in Venues, local[v] \in Books, NEW w \in WireType(v), w # <<>>,
         NEW current, LedTo(v, w, local[v], current)
  PROVE  LedTo(v, Tail(w), Updated(v, Head(w)), current)
<1>1. CASE v \in Coinbase
  <2>1. w \in Seq(BookChange) /\ Head(w) = w[1] /\ w[1] \in BookChange
    BY <1>1, HeadTailProperties DEF WireType
  <2>2. /\ Leads(w, local[v].bids, current.bids, "bids")
        /\ Leads(w, local[v].asks, current.asks, "asks")
    BY <1>1 DEF LedTo
  <2>3. w[1].side \in {"bids", "asks"}
    BY <2>1 DEF BookChange, Sides
  <2>4. CASE w[1].side = "bids"
    <3>1. /\ Updated(v, Head(w)).bids = (local[v].bids \ w[1].gone) \cup w[1].levels
          /\ Updated(v, Head(w)).asks = local[v].asks
      BY <1>1, <2>1, <2>4 DEF Updated, Books
    <3>2. /\ Leads(Tail(w), (local[v].bids \ w[1].gone) \cup w[1].levels, current.bids, "bids")
          /\ Leads(Tail(w), local[v].asks, current.asks, "asks")
      BY <2>1, <2>2, <2>4, LeadsHeard, LeadsUnheard DEF Sides
    <3> QED
      BY <1>1, <3>1, <3>2 DEF LedTo
  <2>5. CASE w[1].side = "asks"
    <3>1. /\ Updated(v, Head(w)).asks = (local[v].asks \ w[1].gone) \cup w[1].levels
          /\ Updated(v, Head(w)).bids = local[v].bids
      BY <1>1, <2>1, <2>5 DEF Updated, Books
    <3>2. /\ Leads(Tail(w), (local[v].asks \ w[1].gone) \cup w[1].levels, current.asks, "asks")
          /\ Leads(Tail(w), local[v].bids, current.bids, "bids")
      BY <2>1, <2>2, <2>5, LeadsHeard, LeadsUnheard DEF Sides
    <3> QED
      BY <1>1, <3>1, <3>2 DEF LedTo
  <2> QED
    BY <2>3, <2>4, <2>5
<1>2. CASE v \notin Coinbase
  <2>1. /\ w \in Seq(Books) /\ Head(w) = w[1] /\ Tail(w) \in Seq(Books)
        /\ Len(Tail(w)) = Len(w) - 1 /\ \A i \in 1..Len(Tail(w)) : Tail(w)[i] = w[i + 1]
        /\ Len(w) \in Nat \ {0}
    BY <1>2, HeadTailProperties, EmptySeq DEF WireType
  <2>2. w[Len(w)] = Top(current) /\ Updated(v, Head(w)) = w[1]
    BY <1>2, <2>1 DEF LedTo, Updated
  <2>3. CASE Tail(w) = <<>>
    <3>1. Len(Tail(w)) = 0
      BY <2>3, EmptySeq
    <3>a. Len(w) \in Nat \ {0} /\ Len(w) - 1 = 0
      BY <2>1, <3>1
    <3>b. \A n \in Nat \ {0} : n - 1 = 0 => n = 1
      OBVIOUS
    <3>2. Len(w) = 1
      BY <3>a, <3>b, Zenon
    <3> QED
      BY <1>2, <2>2, <2>3, <3>2 DEF LedTo
  <2>4. CASE Tail(w) # <<>>
    <3>1. Len(Tail(w)) \in Nat \ {0}
      BY <2>1, <2>4, EmptySeq
    <3>2. Tail(w)[Len(Tail(w))] = w[Len(w)]
      BY <2>1, <3>1
    <3> QED
      BY <1>2, <2>2, <2>4, <3>2 DEF LedTo
  <2> QED
    BY <2>3, <2>4
<1> QED
  BY <1>1, <1>2
\* At first no connection is open.
LEMMA BooksInit == Init => BooksKept
<1> SUFFICES ASSUME Init PROVE BooksKept
  OBVIOUS
<1>1. Shape
  BY ShapeInit
<1>2. linked = {} /\ \A v \in Venues : local[v] = Empty
  BY DEF Init
<1> QED
  BY <1>1, <1>2 DEF BooksKept

\* Every step keeps it: what an exchange does lengthens the messages, what a client
\* hears shortens them, and a new client and its messages begin afresh together.
LEMMA BooksStep == BooksKept /\ [Next]_vars => BooksKept'
<1> SUFFICES ASSUME BooksKept, [Next]_vars PROVE BooksKept'
  OBVIOUS
<1> DEFINE Led(u) == LedTo(u, wire[u], local[u], market[u])
           LedNext(u) == LedTo(u, wire'[u], local'[u], market'[u])
<1>a. /\ Shape
      /\ \A u \in Venues \ linked : local[u] = Empty
      /\ \A u \in linked : Led(u)
  BY DEF BooksKept
<1>b. Shape'
  BY <1>a, ShapeStep
<1>c. /\ market \in [Venues -> MarketBooks] /\ linked \subseteq Venues
      /\ local \in [Venues -> Books]
      /\ wire \in [Venues -> Seq(BookChange) \cup Seq(Books)]
      /\ \A u \in Venues : wire[u] \in WireType(u)
  BY <1>a DEF Shape, TypeOK
<1>d. ASSUME \A u \in Venues \ linked' : local'[u] = Empty, \A u \in linked' : LedNext(u)
      PROVE  BooksKept'
  BY <1>b, <1>d DEF BooksKept
<1>e. ASSUME NEW u \in linked, market'[u] = market[u], wire'[u] = wire[u], local'[u] = local[u]
      PROVE  LedNext(u)
  BY <1>a, <1>e
<1> HIDE DEF Led, LedNext
<1>1. ASSUME NEW v \in Venues, Move(v) PROVE BooksKept'
  <2>1. PICK book \in MarketBooks :
          /\ market' = [market EXCEPT ![v] = book]
          /\ wire' = IF v \in linked THEN [wire EXCEPT ![v] = @ \o Messages(v, book)] ELSE wire
    BY <1>1 DEF Move
  <2>2. linked' = linked /\ local' = local
    BY <1>1 DEF Move
  <2>3. ASSUME NEW u \in linked, u # v PROVE LedNext(u)
    BY <1>c, <1>e, <2>1, <2>2, <2>3
  <2>4. ASSUME v \in linked PROVE LedNext(v)
    <3>1. /\ market'[v] = book /\ local'[v] = local[v]
          /\ wire'[v] = wire[v] \o Messages(v, book)
      BY <1>c, <2>1, <2>2, <2>4
    <3>2. LedTo(v, wire[v], local[v], market[v])
      BY <1>a, <2>4 DEF Led
    <3>3. LedTo(v, wire[v] \o Messages(v, book), local[v], book)
      BY <1>c, <3>2, MessagesLead
    <3> QED
      BY <3>1, <3>3 DEF LedNext
  <2> QED
    BY <1>a, <1>d, <2>2, <2>3, <2>4
<1>2. ASSUME NEW v \in Venues, Connect(v) PROVE BooksKept'
  <2>1. /\ v \notin linked /\ linked' = linked \cup {v}
        /\ wire' = [wire EXCEPT ![v] = Snapshot(v)]
        /\ market' = market /\ local' = local
    BY <1>2 DEF Connect
  <2>2. ASSUME NEW u \in linked PROVE LedNext(u)
    BY <1>c, <1>e, <2>1, <2>2
  <2>3. LedNext(v)
    <3>1. local'[v] = Empty /\ wire'[v] = Snapshot(v) /\ market'[v] = market[v]
      BY <1>a, <1>c, <2>1
    <3>2. LedTo(v, Snapshot(v), Empty, market[v])
      BY <1>c, SnapshotLeads
    <3> QED
      BY <3>1, <3>2 DEF LedNext
  <2> QED
    BY <1>a, <1>d, <2>1, <2>2, <2>3
<1>3. ASSUME NEW v \in Venues, Listen(v) PROVE BooksKept'
  <2>1. /\ v \in linked /\ wire[v] # <<>> /\ linked' = linked /\ market' = market
        /\ local' = [local EXCEPT ![v] = Updated(v, Head(wire[v]))]
        /\ wire' = [wire EXCEPT ![v] = Tail(@)]
    BY <1>3 DEF Listen
  <2>2. ASSUME NEW u \in linked, u # v PROVE LedNext(u)
    BY <1>c, <1>e, <2>1, <2>2
  <2>3. LedNext(v)
    <3>1. /\ market'[v] = market[v] /\ wire'[v] = Tail(wire[v])
          /\ local'[v] = Updated(v, Head(wire[v]))
      BY <1>c, <2>1
    <3>2. LedTo(v, wire[v], local[v], market[v])
      BY <1>a, <2>1 DEF Led
    <3>3. LedTo(v, Tail(wire[v]), Updated(v, Head(wire[v])), market[v])
      BY <1>c, <2>1, <3>2, HearingLeads
    <3> QED
      BY <3>1, <3>3 DEF LedNext
  <2>4. ASSUME NEW u \in Venues \ linked' PROVE local'[u] = Empty
    BY <1>a, <1>c, <2>1, <2>4
  <2> QED
    BY <1>d, <2>1, <2>2, <2>3, <2>4
<1>4. ASSUME NEW v \in Venues, Break(v) PROVE BooksKept'
  <2>1. /\ linked' = linked \ {v} /\ market' = market
        /\ local' = [local EXCEPT ![v] = Empty] /\ wire' = [wire EXCEPT ![v] = <<>>]
    BY <1>4 DEF Break, NewClient
  <2>2. ASSUME NEW u \in linked' PROVE LedNext(u)
    BY <1>c, <1>e, <2>1, <2>2
  <2>3. ASSUME NEW u \in Venues \ linked' PROVE local'[u] = Empty
    BY <1>a, <1>c, <2>1, <2>3
  <2> QED
    BY <1>d, <2>2, <2>3
<1>5. ASSUME Crash PROVE BooksKept'
  <2>1. linked' = {} /\ \A u \in Venues : local'[u] = Empty
    BY <1>5 DEF Crash
  <2> QED
    BY <1>d, <2>1
<1>6. ASSUME UNCHANGED <<market, linked, wire, local>> PROVE BooksKept'
  BY <1>a, <1>d, <1>e, <1>6
<1>7. ASSUME NEW v \in Venues, Sample(v) \/ Put(v) PROVE BooksKept'
  BY <1>6, <1>7 DEF Sample, Put
<1>8. ASSUME Take \/ WriteEnd \/ Restart \/ Tick \/ UNCHANGED vars PROVE BooksKept'
  BY <1>6, <1>8 DEF Take, WriteEnd, Restart, Tick, vars, feed
<1> QED
  BY <1>1, <1>2, <1>3, <1>4, <1>5, <1>7, <1>8 DEF Next

\* For any exchanges, prices and faults: a client that waits for no message knows
\* the exchange's book, and no level of an earlier connection is left in it.
THEOREM BooksInvariant == Spec => []BookFollows
<1>1. BooksKept => BookFollows
  <2> SUFFICES ASSUME BooksKept, NEW v \in linked, wire[v] = <<>>
               PROVE  local[v] = IF v \in Coinbase THEN market[v] ELSE Top(market[v])
    BY DEF BookFollows
  <2>1. /\ v \in Venues /\ local[v] \in Books /\ market[v] \in Books
        /\ LedTo(v, wire[v], local[v], market[v])
    BY DEF BooksKept, Shape, TypeOK, MarketBooks
  <2>2. CASE v \in Coinbase
    <3>1. local[v].bids = market[v].bids /\ local[v].asks = market[v].asks
      BY <2>1, <2>2, LeadsNone DEF LedTo
    <3> QED
      BY <2>1, <2>2, <3>1 DEF Books
  <2>3. CASE v \notin Coinbase
    BY <2>1, <2>3 DEF LedTo
  <2> QED
    BY <2>2, <2>3
<1> QED
  BY BooksInit, BooksStep, <1>1, PTL DEF Spec

-----------------------------------------------------------------------------
(* FuturesChain: counting business days back.                              *)

\* No two weeks are without a business day.
Working(h) == \A d \in Int : \E e \in (d - 14)..(d - 1) : BusinessDay(e, h)

Days(from, to, h) == {d \in from..to : BusinessDay(d, h)}

\* One business day back.
LEMMA OneBack ==
  ASSUME NEW h, Working(h), NEW d \in Int
  PROVE  LET p == PreviousBusinessDay(d, h) IN
         /\ p \in Int /\ d - 14 <= p /\ p < d /\ BusinessDay(p, h)
         /\ Days(p + 1, d - 1, h) = {}
<1> DEFINE S == {e \in (d - 31)..(d - 1) : BusinessDay(e, h)}
           p == Max(S)
<1>1. PICK e \in (d - 14)..(d - 1) : BusinessDay(e, h)
  BY DEF Working
<1>2. e \in S /\ S \in SUBSET ((d - 31)..(d - 1)) /\ d - 31 \in Int /\ d - 1 \in Int
  BY <1>1
<1>3. p \in S /\ \A y \in S : y <= p
  <2> HIDE DEF S
  <2> QED
    BY <1>2, Extremes
<1>4. p \in Int /\ d - 14 <= p /\ p < d /\ BusinessDay(p, h)
  <2>1. e <= p
    BY <1>2, <1>3
  <2>2. p \in (d - 31)..(d - 1) /\ BusinessDay(p, h)
    BY <1>3
  <2> HIDE DEF p
  <2> QED
    BY <2>1, <2>2
<1>5. ASSUME NEW x \in Days(p + 1, d - 1, h) PROVE FALSE
  <2>1. x \in Int /\ p + 1 <= x /\ x <= d - 1 /\ BusinessDay(x, h)
    <3> HIDE DEF p
    <3> QED
      BY <1>4, <1>5 DEF Days
  <2>2. x \in S
    <3> HIDE DEF p
    <3> QED
      BY <1>4, <2>1
  <2>3. x <= p
    BY <1>3, <2>2
  <2> HIDE DEF p
  <2> QED
    BY <1>4, <2>1, <2>3
<1>6. PreviousBusinessDay(d, h) = p
  BY DEF PreviousBusinessDay
<1> HIDE DEF p
<1> QED
  BY <1>4, <1>5, <1>6

IsBack(f, a, count, h) ==
  f = [n \in 0..count |-> IF n = 0 THEN a ELSE PreviousBusinessDay(f[n - 1], h)]

\* There is a function that goes back day by day.
LEMMA BackExists ==
  ASSUME NEW h, NEW a, NEW count \in Nat
  PROVE  \E f : IsBack(f, a, count, h)
<1> DEFINE Fails == {n \in Nat : ~ \E f : IsBack(f, a, n, h)}
<1> SUFFICES ASSUME Fails # {} PROVE FALSE
  OBVIOUS
<1>1. PICK n \in Fails : \A m \in Fails : n <= m
  <2>1. Fails \in SUBSET Nat
    OBVIOUS
  <2> HIDE DEF Fails
  <2> QED
    BY <2>1, Least
<1>2. CASE n = 0
  <2> DEFINE f == [i \in 0..0 |-> a]
  <2>1. IsBack(f, a, 0, h)
    BY DEF IsBack
  <2> QED
    BY <1>2, <2>1
<1>3. CASE n # 0
  <2>1. n \in Nat /\ n - 1 \in Nat /\ n - 1 \notin Fails
    <3>1. n \in Nat
      OBVIOUS
    <3> HIDE DEF Fails
    <3> QED
      BY <1>1, <1>3, <3>1
  <2>2. PICK f : IsBack(f, a, n - 1, h)
    BY <2>1
  <2> DEFINE g == [i \in 0..n |-> IF i = 0 THEN a ELSE PreviousBusinessDay(f[i - 1], h)]
  <2>3. ASSUME NEW i \in 0..(n - 1) PROVE g[i] = f[i]
    <3>1. i \in 0..n
      BY <2>1
    <3>2. f[i] = IF i = 0 THEN a ELSE PreviousBusinessDay(f[i - 1], h)
      BY <2>2 DEF IsBack
    <3> QED
      BY <3>1, <3>2
  <2>4. ASSUME NEW i \in 0..n
        PROVE  g[i] = IF i = 0 THEN a ELSE PreviousBusinessDay(g[i - 1], h)
    <3>1. CASE i = 0
      BY <3>1
    <3>2. CASE i # 0
      <4>1. i - 1 \in 0..(n - 1)
        BY <2>1, <3>2
      <4>2. g[i - 1] = f[i - 1]
        BY <2>3, <4>1
      <4> QED
        BY <3>2, <4>2
    <3> QED
      BY <3>1, <3>2
  <2>5. IsBack(g, a, n, h)
    BY <2>4 DEF IsBack
  <2> QED
    BY <2>5
<1> QED
  BY <1>2, <1>3

\* Two such functions agree as far as both go.
LEMMA BackAgrees ==
  ASSUME NEW h, NEW a, NEW c \in Nat, NEW d \in Nat, NEW f, NEW g,
         IsBack(f, a, c, h), IsBack(g, a, d, h), NEW n \in Nat, n <= c, n <= d
  PROVE  f[n] = g[n]
<1> DEFINE Fails == {i \in 0..n : f[i] # g[i]}
<1> SUFFICES ASSUME Fails # {} PROVE FALSE
  OBVIOUS
<1>1. PICK i \in Fails : \A j \in Fails : i <= j
  <2>1. Fails \in SUBSET Nat
    OBVIOUS
  <2> HIDE DEF Fails
  <2> QED
    BY <2>1, Least
<1>2. i \in 0..c /\ i \in 0..d /\ i \in 0..n
  OBVIOUS
<1>3. /\ f[i] = IF i = 0 THEN a ELSE PreviousBusinessDay(f[i - 1], h)
      /\ g[i] = IF i = 0 THEN a ELSE PreviousBusinessDay(g[i - 1], h)
  BY <1>2 DEF IsBack
<1>4. i # 0 => f[i - 1] = g[i - 1]
  <2> SUFFICES ASSUME i # 0 PROVE f[i - 1] = g[i - 1]
    OBVIOUS
  <2>1. i - 1 \in 0..n /\ i - 1 \notin Fails
    <3> HIDE DEF Fails
    <3> QED
      BY <1>1, <1>2
  <2> QED
    BY <2>1
<1> QED
  BY <1>3, <1>4

\* No business day before is the day itself, and one more is one more back.
LEMMA BackStep ==
  ASSUME NEW h, NEW a, NEW n \in Nat
  PROVE  /\ BusinessDaysBefore(a, 0, h) = a
         /\ BusinessDaysBefore(a, n + 1, h)
              = PreviousBusinessDay(BusinessDaysBefore(a, n, h), h)
<1> DEFINE F(c) == CHOOSE f : IsBack(f, a, c, h)
<1>1. \A c \in Nat : IsBack(F(c), a, c, h) /\ BusinessDaysBefore(a, c, h) = F(c)[c]
  <2> TAKE c \in Nat
  <2>1. IsBack(F(c), a, c, h)
    BY BackExists
  <2>2. BusinessDaysBefore(a, c, h) = F(c)[c]
    BY DEF BusinessDaysBefore, IsBack
  <2> QED
    BY <2>1, <2>2
<1> HIDE DEF F
<1>2. F(0)[0] = a
  BY <1>1 DEF IsBack
<1>3. F(n + 1)[n + 1] = PreviousBusinessDay(F(n + 1)[n], h)
  BY <1>1 DEF IsBack
<1>4. F(n + 1)[n] = F(n)[n]
  BY <1>1, BackAgrees
<1> QED
  BY <1>1, <1>2, <1>3, <1>4

\* As many business days back as counted, the last of them a business day, and no
\* more than two weeks for each.
LEMMA Back ==
  ASSUME NEW h, Working(h), NEW a \in Int, NEW count \in Nat
  PROVE  LET b == BusinessDaysBefore(a, count, h) IN
         /\ b \in Int /\ b <= a /\ a - 14 * count <= b
         /\ count > 0 => BusinessDay(b, h) /\ b < a
         /\ IsFiniteSet(Days(b, a - 1, h)) /\ Cardinality(Days(b, a - 1, h)) = count
<1> DEFINE B(n) == BusinessDaysBefore(a, n, h)
           Good(n) == /\ B(n) \in Int /\ B(n) <= a /\ a - 14 * n <= B(n)
                      /\ n > 0 => BusinessDay(B(n), h) /\ B(n) < a
                      /\ IsFiniteSet(Days(B(n), a - 1, h))
                      /\ Cardinality(Days(B(n), a - 1, h)) = n
<1>1. Good(0)
  <2>1. B(0) = a
    BY BackStep
  <2>2. Days(a, a - 1, h) = {}
    BY DEF Days
  <2> HIDE DEF B
  <2> QED
    BY <2>1, <2>2, FS_EmptySet
<1>2. ASSUME NEW n \in Nat, Good(n) PROVE Good(n + 1)
  <2> DEFINE b == B(n)
             p == B(n + 1)
  <2>1. p = PreviousBusinessDay(b, h)
    BY BackStep
  <2>2. b \in Int /\ b <= a /\ a - 14 * n <= b
    BY <1>2
  <2>3. /\ p \in Int /\ b - 14 <= p /\ p < b /\ BusinessDay(p, h)
        /\ Days(p + 1, b - 1, h) = {}
    <3> HIDE DEF b, p
    <3> QED
      BY <2>1, <2>2, OneBack
  <2>4. IsFiniteSet(Days(b, a - 1, h)) /\ Cardinality(Days(b, a - 1, h)) = n
    BY <1>2
  <2> HIDE DEF b, p
  <2>5. Days(p, a - 1, h) = Days(b, a - 1, h) \cup {p}
    <3>1. ASSUME NEW x \in Days(p, a - 1, h), x # p PROVE x \in Days(b, a - 1, h)
      <4>1. x \in Int /\ p <= x /\ x <= a - 1 /\ BusinessDay(x, h)
        BY <2>2, <2>3, <3>1 DEF Days
      <4>2. x \notin Days(p + 1, b - 1, h)
        BY <2>3
      <4>3. ~ (x <= b - 1)
        BY <2>2, <2>3, <3>1, <4>1, <4>2 DEF Days
      <4> QED
        BY <2>2, <4>1, <4>3 DEF Days
    <3>2. ASSUME NEW x \in Days(b, a - 1, h) PROVE x \in Days(p, a - 1, h)
      BY <2>2, <2>3, <3>2 DEF Days
    <3>3. p \in Days(p, a - 1, h)
      BY <2>2, <2>3 DEF Days
    <3> QED
      BY <3>1, <3>2, <3>3
  <2>6. p \notin Days(b, a - 1, h)
    BY <2>2, <2>3 DEF Days
  <2>7. IsFiniteSet(Days(p, a - 1, h)) /\ Cardinality(Days(p, a - 1, h)) = n + 1
    BY <2>4, <2>5, <2>6, FS_AddElement
  <2>8. p <= a /\ a - 14 * (n + 1) <= p /\ p < a
    BY <2>2, <2>3
  <2> QED
    BY <2>3, <2>7, <2>8 DEF p
<1>3. \A n \in Nat : Good(n)
  <2> DEFINE T == {n \in Nat : Good(n)}
  <2>1. T \in SUBSET Nat /\ 0 \in T /\ \A n \in T : n + 1 \in T
    BY <1>1, <1>2
  <2>2. T = Nat
    <3> HIDE DEF T
    <3> QED
      BY <2>1, CountUp
  <2> QED
    BY <2>2
<1>4. Good(count)
  BY <1>3
<1> QED
  BY <1>4

\* Two days with a business day between them, the first one included.
Apart(a, b, h) == a \in Int /\ b \in Int /\ a < b /\ Days(a, b - 1, h) # {}

\* What is counted back from two such days is such a pair again.
LEMMA BackApart ==
  ASSUME NEW h, Working(h), NEW a, NEW b, Apart(a, b, h), NEW count \in Nat
  PROVE  Apart(BusinessDaysBefore(a, count, h), BusinessDaysBefore(b, count, h), h)
<1> DEFINE A(n) == BusinessDaysBefore(a, n, h)
           B(n) == BusinessDaysBefore(b, n, h)
           Good(n) == A(n) < B(n) /\ Days(A(n), B(n) - 1, h) # {}
<1>0. a \in Int /\ b \in Int /\ a < b /\ Days(a, b - 1, h) # {}
  BY DEF Apart
<1>1. Good(0)
  BY <1>0, BackStep
<1>2. ASSUME NEW n \in Nat, Good(n) PROVE Good(n + 1)
  <2>1. /\ A(n + 1) = PreviousBusinessDay(A(n), h) /\ B(n + 1) = PreviousBusinessDay(B(n), h)
        /\ A(n) \in Int /\ B(n) \in Int
    BY <1>0, BackStep, Back
  <2> HIDE DEF A, B
  <2>2. /\ A(n + 1) \in Int /\ A(n + 1) < A(n) /\ BusinessDay(A(n + 1), h)
        /\ B(n + 1) \in Int /\ Days(B(n + 1) + 1, B(n) - 1, h) = {}
    BY <2>1, OneBack
  <2>3. PICK x \in Days(A(n), B(n) - 1, h) : TRUE
    BY <1>2
  <2>4. x \in Int /\ A(n) <= x /\ x <= B(n) - 1 /\ BusinessDay(x, h)
    BY <2>1, <2>3 DEF Days
  <2>5. x \notin Days(B(n + 1) + 1, B(n) - 1, h)
    BY <2>2
  <2>6. x <= B(n + 1)
    BY <2>1, <2>2, <2>4, <2>5 DEF Days
  <2>7. A(n + 1) < B(n + 1)
    BY <2>1, <2>2, <2>4, <2>6
  <2>8. A(n + 1) \in Days(A(n + 1), B(n + 1) - 1, h)
    BY <2>2, <2>7 DEF Days
  <2> QED
    BY <2>7, <2>8
<1>3. \A n \in Nat : Good(n)
  <2> DEFINE T == {n \in Nat : Good(n)}
  <2>1. T \in SUBSET Nat /\ 0 \in T /\ \A n \in T : n + 1 \in T
    BY <1>1, <1>2
  <2>2. T = Nat
    <3> HIDE DEF T
    <3> QED
      BY <2>1, CountUp
  <2> QED
    BY <2>2
<1>4. Good(count) /\ A(count) \in Int /\ B(count) \in Int
  BY <1>0, <1>3, Back
<1> QED
  BY <1>4 DEF Apart

\* The first day back may be counted by itself.
LEMMA BackFirst ==
  ASSUME NEW h, NEW a, NEW count \in Nat
  PROVE  BusinessDaysBefore(a, count + 1, h)
           = BusinessDaysBefore(PreviousBusinessDay(a, h), count, h)
<1> DEFINE p == PreviousBusinessDay(a, h)
           Good(n) == BusinessDaysBefore(a, n + 1, h) = BusinessDaysBefore(p, n, h)
<1>1. Good(0)
  <2>1. BusinessDaysBefore(a, 0 + 1, h) = PreviousBusinessDay(BusinessDaysBefore(a, 0, h), h)
    BY BackStep
  <2> QED
    BY <2>1, BackStep
<1>2. ASSUME NEW n \in Nat, Good(n) PROVE Good(n + 1)
  <2>1. n + 1 \in Nat
    OBVIOUS
  <2>2. BusinessDaysBefore(a, (n + 1) + 1, h)
          = PreviousBusinessDay(BusinessDaysBefore(a, n + 1, h), h)
    BY <2>1, BackStep
  <2>3. BusinessDaysBefore(p, n + 1, h) = PreviousBusinessDay(BusinessDaysBefore(p, n, h), h)
    BY BackStep
  <2> QED
    BY <1>2, <2>2, <2>3
<1>3. \A n \in Nat : Good(n)
  <2> DEFINE T == {n \in Nat : Good(n)}
  <2>1. T \in SUBSET Nat /\ 0 \in T /\ \A n \in T : n + 1 \in T
    BY <1>1, <1>2
  <2>2. T = Nat
    <3> HIDE DEF T
    <3> QED
      BY <2>1, CountUp
  <2> QED
    BY <2>2
<1>4. Good(count)
  BY <1>3
<1> QED
  BY <1>4

-----------------------------------------------------------------------------
(* FuturesChain: the days of the months before a month.                    *)

Runs(g, f, m) ==
  g = [T \in SUBSET (1..m) |-> IF T = {} THEN 0 ELSE g[T \ {Max(T)}] + f[Max(T)]]

\* There is a function that adds up what is at some indices.
LEMMA RunsExist ==
  ASSUME NEW f, NEW m \in Nat
  PROVE  \E g : Runs(g, f, m)
<1> DEFINE T == {n \in Nat : \E g : Runs(g, f, n)}
<1>1. 0 \in T
  <2> DEFINE g == [U \in SUBSET (1..0) |-> 0]
  <2>1. \A U \in SUBSET (1..0) : U = {}
    OBVIOUS
  <2>2. Runs(g, f, 0)
    BY <2>1 DEF Runs
  <2> QED
    BY <2>2
<1>2. ASSUME NEW n \in T PROVE n + 1 \in T
  <2>0. n \in Nat
    OBVIOUS
  <2>1. PICK g : Runs(g, f, n)
    OBVIOUS
  <2>2. \A U \in SUBSET (1..n) : g[U] = IF U = {} THEN 0 ELSE g[U \ {Max(U)}] + f[Max(U)]
    BY <2>1 DEF Runs
  <2> DEFINE h == [U \in SUBSET (1..(n + 1)) |->
                     IF n + 1 \in U THEN g[U \ {n + 1}] + f[n + 1] ELSE g[U]]
  <2>3. \A U \in SUBSET (1..n) : U \in SUBSET (1..(n + 1)) /\ n + 1 \notin U /\ h[U] = g[U]
    OBVIOUS
  <2>4. ASSUME NEW U \in SUBSET (1..(n + 1))
        PROVE  h[U] = IF U = {} THEN 0 ELSE h[U \ {Max(U)}] + f[Max(U)]
    <3>1. CASE n + 1 \in U
      <4>1. n + 1 \in Nat /\ U # {}
        BY <3>1
      <4>2. Max(U) \in U /\ \A i \in U : i <= Max(U)
        BY <4>1, LastIndex
      <4>3. Max(U) = n + 1
        <5>1. Max(U) \in 1..(n + 1) /\ n + 1 <= Max(U)
          BY <3>1, <4>2
        <5> QED
          BY <2>0, <5>1
      <4>4. U \ {n + 1} \in SUBSET (1..n)
        OBVIOUS
      <4>5. h[U \ {n + 1}] = g[U \ {n + 1}]
        BY <2>3, <4>4
      <4>6. h[U] = g[U \ {n + 1}] + f[n + 1]
        BY <3>1
      <4> HIDE DEF h
      <4> QED
        BY <4>1, <4>3, <4>5, <4>6
    <3>2. CASE n + 1 \notin U
      <4>0. \A i \in 1..(n + 1) : i # n + 1 => i \in 1..n
        BY <2>0
      <4>1. U \in SUBSET (1..n) /\ U \ {Max(U)} \in SUBSET (1..n)
        BY <3>2, <4>0
      <4>2. h[U] = g[U] /\ h[U \ {Max(U)}] = g[U \ {Max(U)}]
        BY <2>3, <4>1
      <4> HIDE DEF h
      <4> QED
        BY <2>2, <4>1, <4>2
    <3> QED
      BY <3>1, <3>2
  <2>5. Runs(h, f, n + 1)
    BY <2>4 DEF Runs
  <2> HIDE DEF h
  <2> QED
    BY <2>5
<1>3. T = Nat
  <2>1. T \in SUBSET Nat
    OBVIOUS
  <2> HIDE DEF T
  <2> QED
    BY <1>1, <1>2, <2>1, CountUp
<1> QED
  BY <1>3

\* The sum up to an index.
LEMMA RunsStep ==
  ASSUME NEW f, NEW m \in Nat, NEW g, Runs(g, f, m), NEW n \in Nat
  PROVE  /\ g[1..0] = 0
         /\ n + 1 <= m => g[1..(n + 1)] = g[1..n] + f[n + 1]
<1>1. \A U \in SUBSET (1..m) : g[U] = IF U = {} THEN 0 ELSE g[U \ {Max(U)}] + f[Max(U)]
  BY DEF Runs
<1>2. 1..0 \in SUBSET (1..m) /\ 1..0 = {}
  OBVIOUS
<1>3. ASSUME n + 1 <= m PROVE g[1..(n + 1)] = g[1..n] + f[n + 1]
  <2>1. 1..(n + 1) \in SUBSET (1..m) /\ 1..(n + 1) # {} /\ n + 1 \in 1..(n + 1)
    BY <1>3
  <2>2. Max(1..(n + 1)) \in 1..(n + 1) /\ \A i \in 1..(n + 1) : i <= Max(1..(n + 1))
    BY <2>1, LastIndex
  <2>3. Max(1..(n + 1)) = n + 1
    BY <2>1, <2>2
  <2>4. (1..(n + 1)) \ {n + 1} = 1..n
    OBVIOUS
  <2> QED
    BY <1>1, <2>1, <2>3, <2>4
<1> QED
  BY <1>1, <1>2, <1>3

Same(f, e, k) == \A i \in 1..k : f[i] = e[i] /\ f[i] \in Int

\* Sums of the same numbers are the same.
LEMMA RunsAgree ==
  ASSUME NEW f, NEW m \in Nat, NEW g, Runs(g, f, m),
         NEW e, NEW l \in Nat, NEW h, Runs(h, e, l),
         NEW k \in Nat, k <= m, k <= l, Same(f, e, k)
  PROVE  g[1..k] = h[1..k] /\ g[1..k] \in Int
<1> DEFINE Good(n) == n <= k => g[1..n] = h[1..n] /\ g[1..n] \in Int
           T == {n \in Nat : Good(n)}
<1>1. 0 \in T
  <2>1. 0 \in Nat /\ g[1..0] = 0 /\ h[1..0] = 0
    BY RunsStep
  <2> QED
    BY <2>1
<1>2. ASSUME NEW n \in T PROVE n + 1 \in T
  <2>1. n \in Nat /\ Good(n)
    OBVIOUS
  <2>2. n + 1 <= k => /\ g[1..(n + 1)] = g[1..n] + f[n + 1]
                      /\ h[1..(n + 1)] = h[1..n] + e[n + 1]
                      /\ n + 1 \in 1..k
    BY <2>1, RunsStep
  <2> QED
    BY <2>1, <2>2 DEF Same
<1>3. T = Nat
  <2>1. T \in SUBSET Nat
    OBVIOUS
  <2> HIDE DEF T
  <2> QED
    BY <1>1, <1>2, <2>1, CountUp
<1> QED
  BY <1>3

\* A month ends after its days.
LEMMA MonthHasItsDays ==
  ASSUME NEW m \in Nat, m + 1 <= Len(MonthLengths)
  PROVE  /\ MonthStart(m) \in Int /\ MonthStart(m + 1) \in Int
         /\ MonthStart(m + 1) - MonthStart(m) \in 28..31
<1> DEFINE S(n) == SubSeq(MonthLengths, 1, n)
           G(n) == CHOOSE g : Runs(g, S(n), n)
<1>1. ASSUME NEW n \in Nat, n <= Len(MonthLengths)
      PROVE  /\ DOMAIN S(n) = 1..n /\ \A i \in 1..n : S(n)[i] = MonthLengths[i]
             /\ Runs(G(n), S(n), n) /\ MonthStart(n) = G(n)[1..n]
  <2>1. MonthLengths \in Seq(28..31)
    BY FuturesAssumption
  <2>2. /\ S(n) \in Seq(28..31) /\ Len(S(n)) = n
        /\ \A i \in 1..n : S(n)[i] = MonthLengths[i]
    BY <1>1, <2>1, SubSeqProperties
  <2>3. DOMAIN S(n) = 1..n
    BY <2>2
  <2>4. Runs(G(n), S(n), n)
    BY RunsExist
  <2>5. MonthStart(n) = G(n)[1..n]
    BY <2>3 DEF MonthStart, FoldLeft, MapThenFoldSet, Runs
  <2> QED
    BY <2>2, <2>3, <2>4, <2>5
<1> HIDE DEF S, G
<1>2. m \in Nat /\ m + 1 \in Nat /\ m <= Len(MonthLengths) /\ m <= m + 1
  BY FuturesAssumption
<1>3. \A i \in 1..(m + 1) : MonthLengths[i] \in 28..31
  BY FuturesAssumption
<1>4. \A i \in 1..m : i \in 1..(m + 1)
  OBVIOUS
<1>5. G(m + 1)[1..m] = G(m)[1..m] /\ G(m + 1)[1..m] \in Int
  <2>1. Runs(G(m + 1), S(m + 1), m + 1) /\ Runs(G(m), S(m), m)
    BY <1>1, <1>2
  <2>2. \A i \in 1..m : S(m + 1)[i] = S(m)[i] /\ S(m + 1)[i] \in Int
    <3> TAKE i \in 1..m
    <3>1. S(m + 1)[i] = MonthLengths[i] /\ S(m)[i] = MonthLengths[i]
      BY <1>1, <1>2, <1>4
    <3>2. MonthLengths[i] \in Int
      BY <1>3, <1>4
    <3> QED
      BY <3>1, <3>2
  <2>3. Same(S(m + 1), S(m), m)
    BY <2>2 DEF Same
  <2> QED
    BY <1>2, <2>1, <2>3, RunsAgree
<1>6. G(m + 1)[1..(m + 1)] = G(m + 1)[1..m] + MonthLengths[m + 1]
  <2>1. m + 1 \in 1..(m + 1)
    OBVIOUS
  <2>2. G(m + 1)[1..(m + 1)] = G(m + 1)[1..m] + S(m + 1)[m + 1]
    BY <1>1, <1>2, RunsStep
  <2> QED
    BY <1>1, <1>2, <2>1, <2>2
<1>7. MonthStart(m) = G(m)[1..m] /\ MonthStart(m + 1) = G(m + 1)[1..(m + 1)]
  BY <1>1, <1>2
<1>8. MonthLengths[m + 1] \in 28..31
  BY <1>3
<1> QED
  BY <1>5, <1>6, <1>7, <1>8

-----------------------------------------------------------------------------
(* FuturesChain: the dates of a contract.                                  *)

\* A month whose contract has its dates within the known months.
Month(m) == m \in Nat \ {0} /\ m + 1 <= Len(MonthLengths)

\* The months of two contracts begin and end at least four weeks apart.
LEMMA MonthsApart ==
  ASSUME NEW m, NEW n, Month(m), Month(n), n \in {m + 1, m + 2, m + 3}
  PROVE  /\ MonthStart(n - 1) - MonthStart(m - 1) >= 28
         /\ MonthStart(n) - MonthStart(m) >= 28
         /\ MonthStart(n + 1) - MonthStart(m + 1) >= 28
<1>1. /\ m \in Nat \ {0} /\ n \in Nat \ {0} /\ Len(MonthLengths) \in Nat
      /\ n + 1 <= Len(MonthLengths)
  BY FuturesAssumption DEF Month
<1> DEFINE Fits(k) == k \in Nat /\ k + 1 <= Len(MonthLengths)
<1>2. ASSUME NEW k, Fits(k)
      PROVE  /\ MonthStart(k) \in Int /\ MonthStart(k + 1) \in Int
             /\ MonthStart(k + 1) - MonthStart(k) >= 28
  <2>1. k \in Nat /\ k + 1 <= Len(MonthLengths)
    BY <1>2
  <2>2. /\ MonthStart(k) \in Int /\ MonthStart(k + 1) \in Int
        /\ MonthStart(k + 1) - MonthStart(k) \in 28..31
    BY <2>1, MonthHasItsDays
  <2> QED
    BY <2>2
<1>3. \A k \in (m - 1)..n : Fits(k)
  BY <1>1
<1> HIDE DEF Fits
<1>4. \A k \in (m - 1)..n : /\ MonthStart(k) \in Int /\ MonthStart(k + 1) \in Int
                            /\ MonthStart(k + 1) - MonthStart(k) >= 28
  BY <1>2, <1>3
<1>5. CASE n = m + 1
  <2>1. /\ MonthStart((m - 1) + 1) = MonthStart(m) /\ n - 1 = m
        /\ m - 1 \in (m - 1)..n /\ m \in (m - 1)..n /\ m + 1 \in (m - 1)..n
    BY <1>1, <1>5
  <2> QED
    BY <1>4, <1>5, <2>1
<1>6. CASE n = m + 2
  <2>1. /\ (m - 1) + 1 = m /\ (m + 1) + 1 = m + 2 /\ n - 1 = m + 1
        /\ m - 1 \in (m - 1)..n /\ m \in (m - 1)..n
        /\ m + 1 \in (m - 1)..n /\ m + 2 \in (m - 1)..n
    BY <1>1, <1>6
  <2> QED
    BY <1>4, <1>6, <2>1
<1>7. CASE n = m + 3
  <2>1. /\ (m - 1) + 1 = m /\ (m + 1) + 1 = m + 2 /\ (m + 2) + 1 = m + 3 /\ n - 1 = m + 2
        /\ m - 1 \in (m - 1)..n /\ m \in (m - 1)..n
        /\ m + 1 \in (m - 1)..n /\ m + 2 \in (m - 1)..n /\ m + 3 \in (m - 1)..n
    BY <1>1, <1>7
  <2> QED
    BY <1>4, <1>7, <2>1
<1> QED
  BY <1>5, <1>6, <1>7

\* Two weeks apart there is a business day between.
LEMMA TwoWeeks ==
  ASSUME NEW h, Working(h), NEW a \in Int, NEW b \in Int, b - a >= 14
  PROVE  Apart(a, b, h)
<1>1. PICK e \in (b - 14)..(b - 1) : BusinessDay(e, h)
  BY DEF Working
<1>2. e \in a..(b - 1)
  BY <1>1
<1> QED
  BY <1>1, <1>2 DEF Apart, Days

\* The earlier ones of two such pairs are such a pair.
LEMMA EarlierApart ==
  ASSUME NEW h, NEW a, NEW b, Apart(a, b, h), NEW c, NEW d, Apart(c, d, h)
  PROVE  Apart(Min({a, c}), Min({b, d}), h)
<1>1. /\ a \in Int /\ b \in Int /\ a < b /\ c \in Int /\ d \in Int /\ c < d
      /\ Days(a, b - 1, h) # {} /\ Days(c, d - 1, h) # {}
  BY DEF Apart
<1>2. /\ Min({a, c}) = IF a <= c THEN a ELSE c
      /\ Min({b, d}) = IF b <= d THEN b ELSE d
  BY <1>1, Earlier
<1>3. ASSUME NEW x, NEW y, NEW z, x \in Int, y \in Int, z \in Int, x <= y, Days(y, z - 1, h) # {}
      PROVE  Days(x, z - 1, h) # {}
  BY <1>3 DEF Days
<1> DEFINE x == Min({a, c})
           y == Min({b, d})
<1> HIDE DEF x, y
<1>4. /\ x \in Int /\ x <= a /\ x <= c /\ y \in Int /\ x < y
      /\ y = b \/ y = d
  BY <1>1, <1>2 DEF x, y
<1>5. Days(x, y - 1, h) # {}
  BY <1>1, <1>3, <1>4
<1>6. Apart(x, y, h)
  BY <1>4, <1>5 DEF Apart
<1> QED
  BY <1>6 DEF x, y

\* The third weekday is in the third week.
LEMMA ThirdWeek ==
  ASSUME NEW m, MonthStart(m) \in Int, NEW weekday \in 0..6
  PROVE  ThirdWeekday(m, weekday) \in (MonthStart(m) + 14)..(MonthStart(m) + 20)
<1> DEFINE k == weekday - Weekday(MonthStart(m))
<1>1. k \in Int
  BY DEF Weekday
<1> HIDE DEF k
<1>2. k % 7 \in 0..6
  BY <1>1
<1>3. ThirdWeekday(m, weekday) = MonthStart(m) + (k % 7) + 14
  BY DEF ThirdWeekday, k
<1> QED
  BY <1>2, <1>3

\* The business day from which the last trade in oil is counted: the 25th, or the
\* one before it.
OilDay(d, h) == IF BusinessDay(d, h) THEN d ELSE PreviousBusinessDay(d, h)

\* The day an oil contract is counted from, three or four business days back.
LEMMA OilIsCounted ==
  ASSUME NEW h, Working(h), NEW d \in Int
  PROVE  LET e == OilDay(d, h) IN
         /\ e \in (d - 14)..d /\ BusinessDay(e, h) /\ Days(e + 1, d, h) = {}
         /\ BusinessDaysBefore(d, OilLead(d, h), h) = BusinessDaysBefore(e, 4, h)
<1>1. CASE BusinessDay(d, h)
  <2>1. OilDay(d, h) = d /\ OilLead(d, h) = 4
    BY <1>1 DEF OilDay, OilLead
  <2>2. Days(d + 1, d, h) = {}
    BY DEF Days
  <2> QED
    BY <1>1, <2>1, <2>2
<1>2. CASE ~ BusinessDay(d, h)
  <2> DEFINE p == PreviousBusinessDay(d, h)
  <2>1. OilDay(d, h) = p /\ OilLead(d, h) = 4 + 1
    BY <1>2 DEF OilDay, OilLead
  <2>2. p \in Int /\ d - 14 <= p /\ p < d /\ BusinessDay(p, h) /\ Days(p + 1, d - 1, h) = {}
    BY OneBack
  <2>3. BusinessDaysBefore(d, 4 + 1, h) = BusinessDaysBefore(p, 4, h)
    BY BackFirst
  <2> HIDE DEF p
  <2>4. Days(p + 1, d, h) = {}
    BY <1>2, <2>2 DEF Days
  <2> QED
    BY <2>1, <2>2, <2>3, <2>4
<1> QED
  BY <1>1, <1>2

\* The starts of the months about a contract's are days.
LEMMA MonthDays ==
  ASSUME NEW m, Month(m)
  PROVE  /\ MonthStart(m - 1) \in Int /\ MonthStart(m) \in Int /\ MonthStart(m + 1) \in Int
         /\ m \in Int /\ (m - 1) + 1 = m
<1>1. /\ m \in Nat \ {0} /\ m + 1 <= Len(MonthLengths) /\ Len(MonthLengths) \in Nat
      /\ m - 1 \in Nat /\ (m - 1) + 1 = m /\ (m - 1) + 1 <= Len(MonthLengths)
  BY FuturesAssumption DEF Month
<1>2. MonthStart(m - 1) \in Int
  BY <1>1, MonthHasItsDays
<1>3. MonthStart(m) \in Int /\ MonthStart(m + 1) \in Int
  BY <1>1, MonthHasItsDays
<1> QED
  BY <1>1, <1>2, <1>3

\* What the dates of a contract are counted from.
LEMMA DatesOf ==
  ASSUME NEW m, Month(m), NEW h, NEW s
  PROVE  LET dates == ContractDates(s, m, h) IN
         /\ s = "MES" => dates = Dates(ThirdWeekday(m, 4), Nothing)
         /\ s = "M6E" => dates = Dates(BusinessDaysBefore(ThirdWeekday(m, 2), 2, h), Nothing)
         /\ s = "MGC" => dates = Dates(BusinessDaysBefore(MonthStart(m + 1), 3, h),
                                       BusinessDaysBefore(MonthStart(m), 1, h))
         /\ s = "MHG" => dates = Dates(BusinessDaysBefore(MonthStart(m), 3, h), Nothing)
         /\ s = "MCL" => dates = Dates(BusinessDaysBefore(OilDay(MonthStart(m - 1) + 24, h), 4, h),
                                       Nothing)
                         \/ ~ Working(h)
         /\ s = "MNG" => dates = Dates(BusinessDaysBefore(MonthStart(m), 4, h), Nothing)
<1>1. (m - 1) + 1 = m /\ MonthStart(m - 1) + 24 \in Int
  BY MonthDays
<1>2. NthLastBusinessDay(m, 3, h) = BusinessDaysBefore(MonthStart(m + 1), 3, h)
  BY DEF NthLastBusinessDay
<1>3. \A n : NthLastBusinessDay(m - 1, n, h) = BusinessDaysBefore(MonthStart(m), n, h)
  BY <1>1 DEF NthLastBusinessDay
<1>4. ASSUME Working(h)
      PROVE  LET d == MonthStart(m - 1) + 24 IN
             BusinessDaysBefore(d, OilLead(d, h), h) = BusinessDaysBefore(OilDay(d, h), 4, h)
  BY <1>1, <1>4, OilIsCounted
<1>5. CASE s = "MES"
  BY <1>5 DEF ContractDates
<1>6. CASE s = "M6E"
  BY <1>6 DEF ContractDates
<1>7. CASE s = "MGC"
  BY <1>2, <1>3, <1>7 DEF ContractDates
<1>8. CASE s = "MHG"
  BY <1>3, <1>8 DEF ContractDates
<1>9. CASE s = "MCL"
  BY <1>4, <1>9 DEF ContractDates
<1>10. CASE s = "MNG"
  BY <1>3, <1>10 DEF ContractDates
<1> QED
  BY <1>5, <1>6, <1>7, <1>8, <1>9, <1>10

Symbol == {"MES", "MGC", "MHG", "MCL", "MNG", "M6E"}

\* The contract ends on a day, the earlier one of its two dates.
LEMMA AnchorIsDay ==
  ASSUME NEW s \in Symbol, NEW m, Month(m), NEW h, Working(h)
  PROVE  LET dates == ContractDates(s, m, h) IN
         /\ dates.lastTrade \in Int /\ dates.firstNotice \in Int \cup {Nothing}
         /\ Anchor(dates) \in Int
         /\ Anchor(dates) = Min({dates.lastTrade, IF dates.firstNotice = Nothing
                                                    THEN dates.lastTrade
                                                    ELSE dates.firstNotice})
<1> DEFINE dates == ContractDates(s, m, h)
<1>1. /\ MonthStart(m) \in Int /\ MonthStart(m + 1) \in Int /\ MonthStart(m - 1) + 24 \in Int
      /\ ThirdWeekday(m, 4) \in Int /\ ThirdWeekday(m, 2) \in Int
  BY MonthDays, ThirdWeek
<1>2. \A d \in Int, n \in Nat : BusinessDaysBefore(d, n, h) \in Int
  BY Back
<1>3. OilDay(MonthStart(m - 1) + 24, h) \in Int
  BY <1>1, OilIsCounted
<1>4. dates.lastTrade \in Int /\ dates.firstNotice \in Int \cup {Nothing}
  <2>1. \A a, b : Dates(a, b).lastTrade = a /\ Dates(a, b).firstNotice = b
    BY DEF Dates
  <2>2. /\ BusinessDaysBefore(ThirdWeekday(m, 2), 2, h) \in Int
        /\ BusinessDaysBefore(MonthStart(m + 1), 3, h) \in Int
        /\ \A n \in Nat : BusinessDaysBefore(MonthStart(m), n, h) \in Int
        /\ BusinessDaysBefore(OilDay(MonthStart(m - 1) + 24, h), 4, h) \in Int
    BY <1>1, <1>2, <1>3
  <2>3. CASE s = "MES"
    BY <1>1, <2>1, <2>3, DatesOf
  <2>4. CASE s = "M6E"
    BY <2>1, <2>2, <2>4, DatesOf
  <2>5. CASE s = "MGC"
    BY <2>1, <2>2, <2>5, DatesOf
  <2>6. CASE s = "MHG"
    BY <2>1, <2>2, <2>6, DatesOf
  <2>7. CASE s = "MCL"
    BY <2>1, <2>2, <2>7, DatesOf
  <2>8. CASE s = "MNG"
    BY <2>1, <2>2, <2>8, DatesOf
  <2> QED
    BY <2>3, <2>4, <2>5, <2>6, <2>7, <2>8 DEF Symbol
<1> HIDE DEF dates
<1>5. CASE dates.firstNotice = Nothing
  <2>1. Anchor(dates) = dates.lastTrade /\ Min({dates.lastTrade, dates.lastTrade}) = dates.lastTrade
    BY <1>4, <1>5, Earlier DEF Anchor
  <2> QED
    BY <1>4, <1>5, <2>1 DEF dates
<1>6. CASE dates.firstNotice # Nothing
  <2>1. Anchor(dates) = Min({dates.lastTrade, dates.firstNotice}) /\ Anchor(dates) \in Int
    BY <1>4, <1>6, Earlier DEF Anchor
  <2> QED
    BY <1>4, <1>6, <2>1 DEF dates
<1> QED
  BY <1>5, <1>6

\* The ends of two contracts have a business day between them.
LEMMA AnchorsApart ==
  ASSUME NEW s \in Symbol, NEW m, Month(m), NEW n, Month(n), n \in {m + 1, m + 2, m + 3},
         NEW h, Working(h)
  PROVE  Apart(Anchor(ContractDates(s, m, h)), Anchor(ContractDates(s, n, h)), h)
<1>1. /\ MonthStart(m - 1) \in Int /\ MonthStart(m) \in Int /\ MonthStart(m + 1) \in Int
      /\ MonthStart(n - 1) \in Int /\ MonthStart(n) \in Int /\ MonthStart(n + 1) \in Int
  BY MonthDays
<1>2. /\ MonthStart(n - 1) - MonthStart(m - 1) >= 28
      /\ MonthStart(n) - MonthStart(m) >= 28
      /\ MonthStart(n + 1) - MonthStart(m + 1) >= 28
  BY MonthsApart
<1>3. \A a, b : \A k \in Nat :
        Apart(a, b, h) => Apart(BusinessDaysBefore(a, k, h), BusinessDaysBefore(b, k, h), h)
  BY BackApart
<1>4. /\ Apart(MonthStart(m), MonthStart(n), h)
      /\ Apart(MonthStart(m + 1), MonthStart(n + 1), h)
  BY <1>1, <1>2, TwoWeeks
<1>5. \A w \in 0..6 : Apart(ThirdWeekday(m, w), ThirdWeekday(n, w), h)
  <2> TAKE w \in 0..6
  <2>1. /\ ThirdWeekday(m, w) \in (MonthStart(m) + 14)..(MonthStart(m) + 20)
        /\ ThirdWeekday(n, w) \in (MonthStart(n) + 14)..(MonthStart(n) + 20)
    BY <1>1, ThirdWeek
  <2>2. /\ ThirdWeekday(m, w) \in Int /\ ThirdWeekday(n, w) \in Int
        /\ ThirdWeekday(n, w) - ThirdWeekday(m, w) >= 14
    BY <1>1, <1>2, <2>1
  <2> QED
    BY <2>2, TwoWeeks
<1>6. Apart(OilDay(MonthStart(m - 1) + 24, h), OilDay(MonthStart(n - 1) + 24, h), h)
  <2> DEFINE d == MonthStart(m - 1) + 24
             e == MonthStart(n - 1) + 24
  <2>1. d \in Int /\ e \in Int /\ e - d >= 28
    BY <1>1, <1>2
  <2> HIDE DEF d, e
  <2>2. OilDay(d, h) \in (d - 14)..d /\ OilDay(e, h) \in (e - 14)..e
    BY <2>1, OilIsCounted
  <2>3. OilDay(d, h) \in Int /\ OilDay(e, h) \in Int /\ OilDay(e, h) - OilDay(d, h) >= 14
    BY <2>1, <2>2
  <2>4. Apart(OilDay(d, h), OilDay(e, h), h)
    BY <2>3, TwoWeeks
  <2> QED
    BY <2>4 DEF d, e
<1>7. ASSUME NEW a, Anchor(Dates(a, Nothing)) # a PROVE FALSE
  BY <1>7 DEF Anchor, Dates
<1>8. CASE s \in {"MES", "M6E", "MHG", "MNG", "MCL"}
  BY <1>3, <1>4, <1>5, <1>6, <1>7, <1>8, DatesOf
<1>9. CASE s = "MGC"
  <2>1. /\ Apart(BusinessDaysBefore(MonthStart(m + 1), 3, h),
                 BusinessDaysBefore(MonthStart(n + 1), 3, h), h)
        /\ Apart(BusinessDaysBefore(MonthStart(m), 1, h),
                 BusinessDaysBefore(MonthStart(n), 1, h), h)
    BY <1>3, <1>4
  <2>2. ASSUME NEW a \in Int, NEW b \in Int PROVE Anchor(Dates(a, b)) = Min({a, b})
    BY <2>2, FuturesAssumption DEF Anchor, Dates
  <2>3. \A k \in Nat : /\ BusinessDaysBefore(MonthStart(m), k, h) \in Int
                       /\ BusinessDaysBefore(MonthStart(m + 1), k, h) \in Int
                       /\ BusinessDaysBefore(MonthStart(n), k, h) \in Int
                       /\ BusinessDaysBefore(MonthStart(n + 1), k, h) \in Int
    BY <1>1, Back
  <2>4. /\ Anchor(ContractDates(s, m, h)) = Min({BusinessDaysBefore(MonthStart(m + 1), 3, h),
                                                 BusinessDaysBefore(MonthStart(m), 1, h)})
        /\ Anchor(ContractDates(s, n, h)) = Min({BusinessDaysBefore(MonthStart(n + 1), 3, h),
                                                 BusinessDaysBefore(MonthStart(n), 1, h)})
    BY <1>9, <2>2, <2>3, DatesOf
  <2> QED
    BY <2>1, <2>4, EarlierApart
<1> QED
  BY <1>8, <1>9 DEF Symbol

-----------------------------------------------------------------------------
(* FuturesChain: the calendar.                                             *)

\* No week is all holidays, so every two weeks have a business day.
LEMMA WeeksWork ==
  ASSUME NEW h \in Holidays
  PROVE  Working(h)
<1> SUFFICES ASSUME NEW d \in Int
             PROVE  \E e \in (d - 14)..(d - 1) : BusinessDay(e, h)
  BY DEF Working
<1> DEFINE m == d - 14 + ((14 - d) % 7)
<1>1. m \in (d - 14)..(d - 8) /\ m % 7 = 0
  OBVIOUS
<1> HIDE DEF m
<1>2. \E k \in 0..4 : m + k \notin h
  <2>1. ASSUME \A k \in 0..4 : m + k \in h
        PROVE  FALSE
    <3>1. m \in Int /\ m + 0 = m /\ 0 \in 0..4
      BY <1>1
    <3>2. m \in h
      BY <2>1, <3>1
    <3>3. ASSUME NEW x \in m..(m + 4) PROVE x \in h
      <4>1. x - m \in 0..4 /\ m + (x - m) = x
        BY <3>1
      <4> QED
        BY <2>1, <4>1
    <3> QED
      BY <1>1, <3>1, <3>2, <3>3, FuturesAssumption
  <2> QED
    BY <2>1
<1>3. PICK k \in 0..4 : m + k \notin h
  BY <1>2
<1>4. (m + k) % 7 = k /\ m + k \in (d - 14)..(d - 1)
  BY <1>1
<1>5. BusinessDay(m + k, h)
  BY <1>3, <1>4 DEF BusinessDay, Weekday
<1> QED
  BY <1>4, <1>5

\* The months of a calendar are known, and one, two or three apart.
LEMMA MonthOf ==
  ASSUME NEW s \in Symbol, NEW first \in FirstMonths, NEW i \in Contract
  PROVE  LET m == first + (i - 1) * ListedEvery[s]
             n == first + ((i + 1) - 1) * ListedEvery[s]
         IN /\ Month(m)
            /\ i < Contracts => Month(n) /\ n \in {m + 1, m + 2, m + 3}
<1>1. /\ first \in Nat \ {0} /\ first + 3 * (Contracts - 1) + 1 <= Len(MonthLengths)
      /\ Contracts \in Nat /\ Len(MonthLengths) \in Nat /\ i \in Nat /\ 1 <= i /\ i <= Contracts
  BY FuturesAssumption DEF Contract
<1>2. ListedEvery[s] \in {1, 2, 3}
  BY DEF ListedEvery, Symbol
<1>3. CASE ListedEvery[s] = 1
  BY <1>1, <1>3 DEF Month
<1>4. CASE ListedEvery[s] = 2
  BY <1>1, <1>4 DEF Month
<1>5. CASE ListedEvery[s] = 3
  BY <1>1, <1>5 DEF Month
<1> QED
  BY <1>2, <1>3, <1>4, <1>5

\* The calendar is one the program can have built.
Built ==
  /\ symbol \in Symbols /\ holidays \in Holidays
  /\ \E first \in FirstMonths : calendar = BuildRollCalendar(symbol, first, holidays)

\* What a calendar says of a contract.
LEMMA EntryOf ==
  ASSUME NEW s \in Symbols, NEW h \in Holidays, NEW first \in FirstMonths, NEW i \in Contract
  PROVE  LET m == first + (i - 1) * ListedEvery[s]
             dates == ContractDates(s, m, h)
             c == BuildRollCalendar(s, first, h)[i]
         IN /\ s \in Symbol /\ Working(h) /\ Month(m)
            /\ c.month = m /\ c.lastTrade = dates.lastTrade /\ c.firstNotice = dates.firstNotice
            /\ c.roll = BusinessDaysBefore(Anchor(dates), RollLead[s], h)
            /\ RollLead[s] \in Nat \ {0} /\ c.roll \in Int
<1> DEFINE m == first + (i - 1) * ListedEvery[s]
           dates == ContractDates(s, m, h)
<1>1. s \in Symbol /\ Working(h)
  BY WeeksWork, FuturesAssumption DEF Symbol
<1>2. Month(m)
  BY <1>1, MonthOf
<1>3. RollLead[s] \in Nat \ {0}
  BY <1>1 DEF RollLead, Symbol
<1>4. Anchor(dates) \in Int
  <2> HIDE DEF m
  <2> QED
    BY <1>1, <1>2, AnchorIsDay
<1>5. BuildRollCalendar(s, first, h)[i] = Schedule(s, m, h)
  BY DEF BuildRollCalendar, Contract
<1>6. BusinessDaysBefore(Anchor(dates), RollLead[s], h) \in Int
  <2> HIDE DEF dates
  <2> QED
    BY <1>1, <1>3, <1>4, Back
<1> HIDE DEF m
<1>7. /\ Schedule(s, m, h).month = m
      /\ Schedule(s, m, h).lastTrade = dates.lastTrade
      /\ Schedule(s, m, h).firstNotice = dates.firstNotice
      /\ Schedule(s, m, h).roll = BusinessDaysBefore(Anchor(dates), RollLead[s], h)
  BY DEF Schedule
<1> QED
  BY <1>1, <1>2, <1>3, <1>5, <1>6, <1>7 DEF m

\* Every roll is the business day by which the lead is kept.
LEMMA BuiltInTime ==
  ASSUME Built
  PROVE  RollsInTime
<1> SUFFICES ASSUME NEW i \in Contract
             PROVE  LET c == calendar[i]
                        end == Min({c.lastTrade, IF c.firstNotice = Nothing
                                                   THEN c.lastTrade ELSE c.firstNotice})
                    IN /\ BusinessDay(c.roll, holidays)
                       /\ Cardinality(BusinessDays(c.roll, end - 1)) = RollLead[symbol]
  BY DEF RollsInTime
<1>1. PICK first \in FirstMonths : calendar = BuildRollCalendar(symbol, first, holidays)
  BY DEF Built
<1> DEFINE m == first + (i - 1) * ListedEvery[symbol]
           dates == ContractDates(symbol, m, holidays)
           c == calendar[i]
<1>2. /\ symbol \in Symbol /\ Working(holidays) /\ Month(m)
      /\ c.lastTrade = dates.lastTrade /\ c.firstNotice = dates.firstNotice
      /\ c.roll = BusinessDaysBefore(Anchor(dates), RollLead[symbol], holidays)
      /\ RollLead[symbol] \in Nat \ {0}
  BY <1>1, EntryOf DEF Built
<1> HIDE DEF m
<1>3. /\ Anchor(dates) \in Int
      /\ Anchor(dates) = Min({dates.lastTrade, IF dates.firstNotice = Nothing
                                                 THEN dates.lastTrade ELSE dates.firstNotice})
  BY <1>2, AnchorIsDay
<1> HIDE DEF dates
<1>4. /\ BusinessDay(c.roll, holidays)
      /\ Cardinality(Days(c.roll, Anchor(dates) - 1, holidays)) = RollLead[symbol]
  <2>1. RollLead[symbol] \in Nat /\ RollLead[symbol] > 0
    BY <1>2
  <2> HIDE DEF c
  <2> QED
    BY <1>2, <1>3, <2>1, Back
<1>5. \A a, b : BusinessDays(a, b) = Days(a, b, holidays)
  BY DEF BusinessDays, Days
<1> QED
  BY <1>2, <1>3, <1>4, <1>5

\* The last trading days are those of the rules.
LEMMA BuiltByTheRule ==
  ASSUME Built
  PROVE  LastTradeIsTheRule
<1> DEFINE Rule(c) ==
             LET Left(m) == Cardinality(BusinessDays(c.lastTrade, MonthStart(m + 1) - 1))
                 the25th == MonthStart(c.month - 1) + 24
                 oilDay == Max(BusinessDays(the25th - 14, the25th))
             IN CASE symbol = "MGC" -> Left(c.month) = 3
                  [] symbol = "MHG" -> Left(c.month - 1) = 3
                  [] symbol = "MNG" -> Left(c.month - 1) = 4
                  [] symbol = "MCL" -> Cardinality(BusinessDays(c.lastTrade, oilDay - 1)) = 4
                  [] OTHER -> TRUE
<1> SUFFICES ASSUME NEW i \in Contract PROVE Rule(calendar[i])
  BY DEF LastTradeIsTheRule
<1>1. PICK first \in FirstMonths : calendar = BuildRollCalendar(symbol, first, holidays)
  BY DEF Built
<1> DEFINE m == first + (i - 1) * ListedEvery[symbol]
           dates == ContractDates(symbol, m, holidays)
           c == calendar[i]
<1>2. /\ symbol \in Symbol /\ Working(holidays) /\ Month(m)
      /\ c.month = m /\ c.lastTrade = dates.lastTrade
  BY <1>1, EntryOf DEF Built
<1> HIDE DEF m, c
<1>3. /\ MonthStart(m - 1) + 24 \in Int /\ MonthStart(m) \in Int /\ MonthStart(m + 1) \in Int
      /\ (m - 1) + 1 = m
  BY <1>2, MonthDays
<1>4. \A a, b : BusinessDays(a, b) = Days(a, b, holidays)
  BY DEF BusinessDays, Days
<1>5. \A a \in Int, n \in Nat :
        Cardinality(BusinessDays(BusinessDaysBefore(a, n, holidays), a - 1)) = n
  BY <1>2, <1>4, Back
<1>6. \A a, b : Dates(a, b).lastTrade = a
  BY DEF Dates
<1>7. CASE symbol = "MGC"
  <2>1. c.lastTrade = BusinessDaysBefore(MonthStart(m + 1), 3, holidays)
    BY <1>2, <1>6, <1>7, DatesOf
  <2>2. Cardinality(BusinessDays(c.lastTrade, MonthStart(m + 1) - 1)) = 3
    BY <1>3, <1>5, <2>1
  <2>3. MonthStart(c.month + 1) - 1 = MonthStart(m + 1) - 1
    BY <1>2, <1>3
  <2> QED
    BY <1>7, <2>2, <2>3 DEF c
<1>8. CASE symbol = "MHG"
  <2>1. c.lastTrade = BusinessDaysBefore(MonthStart(m), 3, holidays)
    BY <1>2, <1>6, <1>8, DatesOf
  <2>2. Cardinality(BusinessDays(c.lastTrade, MonthStart(m) - 1)) = 3
    BY <1>3, <1>5, <2>1
  <2>3. MonthStart((c.month - 1) + 1) - 1 = MonthStart(m) - 1
    BY <1>2, <1>3
  <2> QED
    BY <1>8, <2>2, <2>3 DEF c
<1>9. CASE symbol = "MNG"
  <2>1. c.lastTrade = BusinessDaysBefore(MonthStart(m), 4, holidays)
    BY <1>2, <1>6, <1>9, DatesOf
  <2>2. Cardinality(BusinessDays(c.lastTrade, MonthStart(m) - 1)) = 4
    BY <1>3, <1>5, <2>1
  <2>3. MonthStart((c.month - 1) + 1) - 1 = MonthStart(m) - 1
    BY <1>2, <1>3
  <2> QED
    BY <1>9, <2>2, <2>3 DEF c
<1>10. CASE symbol = "MCL"
  <2> DEFINE d == MonthStart(m - 1) + 24
             e == OilDay(d, holidays)
  <2>1. c.lastTrade = BusinessDaysBefore(e, 4, holidays)
    BY <1>2, <1>6, <1>10, DatesOf
  <2>2. d \in Int
    BY <1>3
  <2> HIDE DEF d
  <2>3. e \in (d - 14)..d /\ BusinessDay(e, holidays) /\ Days(e + 1, d, holidays) = {}
    BY <1>2, <2>2, OilIsCounted
  <2> HIDE DEF e
  <2>4. e = Max(BusinessDays(d - 14, d))
    <3> DEFINE S == BusinessDays(d - 14, d)
    <3>1. e \in S /\ S \in SUBSET ((d - 14)..d) /\ d - 14 \in Int
      BY <2>2, <2>3 DEF BusinessDays
    <3> HIDE DEF S
    <3>2. Max(S) \in S /\ e <= Max(S)
      BY <2>2, <3>1, Extremes
    <3>3. BusinessDay(Max(S), holidays) /\ Max(S) \in (d - 14)..d
      BY <3>2 DEF S, BusinessDays
    <3>4. Max(S) \notin Days(e + 1, d, holidays)
      BY <2>3
    <3> QED
      BY <2>2, <2>3, <3>2, <3>3, <3>4 DEF Days, S
  <2>5. e \in Int
    BY <2>2, <2>3
  <2>6. Cardinality(BusinessDays(c.lastTrade, e - 1)) = 4
    BY <1>5, <2>1, <2>5
  <2> QED
    BY <1>2, <1>10, <2>4, <2>6 DEF c, d
<1>11. CASE symbol \in {"MES", "M6E"}
  BY <1>11
<1> HIDE DEF Rule
<1> QED
  BY <1>2, <1>7, <1>8, <1>9, <1>10, <1>11 DEF Symbol

\* One contract after another rolls.
LEMMA BuiltApart ==
  ASSUME Built, NEW i \in 1..(Contracts - 1)
  PROVE  /\ calendar[i].roll \in Int /\ calendar[i + 1].roll \in Int
         /\ calendar[i].roll < calendar[i + 1].roll
<1>1. PICK first \in FirstMonths : calendar = BuildRollCalendar(symbol, first, holidays)
  BY DEF Built
<1> DEFINE m == first + (i - 1) * ListedEvery[symbol]
           n == first + ((i + 1) - 1) * ListedEvery[symbol]
<1>2. i \in Contract /\ i + 1 \in Contract /\ i < Contracts
  BY FuturesAssumption DEF Contract
<1>3. /\ symbol \in Symbol /\ Working(holidays) /\ Month(m) /\ RollLead[symbol] \in Nat
      /\ calendar[i].roll = BusinessDaysBefore(Anchor(ContractDates(symbol, m, holidays)),
                                               RollLead[symbol], holidays)
  BY <1>1, <1>2, EntryOf DEF Built
<1>4. /\ Month(n)
      /\ calendar[i + 1].roll = BusinessDaysBefore(Anchor(ContractDates(symbol, n, holidays)),
                                                   RollLead[symbol], holidays)
  BY <1>1, <1>2, EntryOf DEF Built
<1>5. n \in {m + 1, m + 2, m + 3}
  BY <1>2, <1>3, MonthOf
<1> HIDE DEF m, n
<1>6. Apart(Anchor(ContractDates(symbol, m, holidays)),
            Anchor(ContractDates(symbol, n, holidays)), holidays)
  BY <1>3, <1>4, <1>5, AnchorsApart
<1>7. Apart(calendar[i].roll, calendar[i + 1].roll, holidays)
  BY <1>3, <1>4, <1>6, BackApart
<1> QED
  BY <1>7 DEF Apart

\* The active contract is the first that has not rolled.
LEMMA ActiveIs ==
  ASSUME NEW d
  PROVE  /\ ActiveContract(d) \in Contract
         /\ ActiveContract(d) = Contracts \/ d < calendar[ActiveContract(d)].roll
         /\ \A j \in Contract : j = Contracts \/ d < calendar[j].roll => ActiveContract(d) <= j
<1> DEFINE S == {j \in Contract : j = Contracts \/ d < calendar[j].roll}
<1>1. Contracts \in S /\ S \in SUBSET (1..Contracts) /\ 1 \in Int /\ Contracts \in Int
  BY FuturesAssumption DEF Contract
<1>2. ActiveContract(d) = Min(S)
  BY DEF ActiveContract
<1>3. Min(S) \in S /\ \A j \in S : Min(S) <= j
  <2> HIDE DEF S
  <2> QED
    BY <1>1, Extremes
<1> QED
  BY <1>2, <1>3

\* So they roll in their order.
LEMMA BuiltInOrder ==
  ASSUME Built
  PROVE  RollsInOrder
<1> DEFINE roll(i) == calendar[i].roll
<1>0. Contracts \in Nat /\ Contracts > 1
  BY FuturesAssumption
<1>1. \A i \in 1..(Contracts - 1) :
        roll(i) \in Int /\ roll(i + 1) \in Int /\ roll(i) < roll(i + 1)
  BY BuiltApart
<1>2. \A i \in Contract : roll(i) \in Int
  <2> TAKE i \in Contract
  <2>1. CASE i < Contracts
    BY <1>0, <1>1, <2>1 DEF Contract
  <2>2. CASE ~ (i < Contracts)
    <3>1. i = (i - 1) + 1 /\ i - 1 \in 1..(Contracts - 1)
      BY <1>0, <2>2 DEF Contract
    <3>2. roll((i - 1) + 1) \in Int
      BY <1>1, <3>1
    <3> QED
      BY <3>1, <3>2
  <2> QED
    BY <2>1, <2>2
<1> DEFINE T == {k \in Nat : \A i \in Contract : i + k \in Contract => roll(i) <= roll(i + k)}
<1>3. T = Nat
  <2> HIDE DEF roll
  <2>1. 0 \in T
    <3>1. \A i \in Contract : i + 0 = i /\ roll(i) <= roll(i)
      BY <1>0, <1>2 DEF Contract
    <3> QED
      BY <3>1
  <2>2. ASSUME NEW k \in T PROVE k + 1 \in T
    <3>1. k \in Nat
      OBVIOUS
    <3>2. ASSUME NEW i \in Contract, i + (k + 1) \in Contract
          PROVE  roll(i) <= roll(i + (k + 1))
      <4>1. /\ i + k \in Contract /\ i + k \in 1..(Contracts - 1)
            /\ i + (k + 1) = (i + k) + 1
        BY <1>0, <3>1, <3>2 DEF Contract
      <4>2. roll(i) <= roll(i + k)
        BY <4>1
      <4>3. roll(i + k) \in Int /\ roll((i + k) + 1) \in Int /\ roll(i + k) < roll((i + k) + 1)
        BY <1>1, <4>1
      <4>4. roll(i) \in Int
        BY <1>2
      <4> HIDE DEF T
      <4>5. roll(i) <= roll((i + k) + 1)
        BY <4>2, <4>3, <4>4
      <4> QED
        BY <4>1, <4>5
    <3> QED
      BY <3>1, <3>2
  <2>3. T \in SUBSET Nat
    OBVIOUS
  <2> HIDE DEF T
  <2> QED
    BY <2>1, <2>2, <2>3, CountUp
<1>4. ASSUME NEW i \in Contract, NEW j \in Contract, j <= i
      PROVE  roll(j) <= roll(i)
  <2>1. i - j \in Nat /\ j + (i - j) = i
    BY <1>0, <1>4 DEF Contract
  <2>2. i - j \in T
    BY <1>3, <2>1
  <2> HIDE DEF roll
  <2> QED
    BY <2>1, <2>2
<1> HIDE DEF T
<1>5. ASSUME NEW i \in 1..(Contracts - 1)
      PROVE  /\ roll(i) < roll(i + 1)
             /\ ActiveContract(roll(i) - 1) <= i /\ ActiveContract(roll(i)) = i + 1
  <2>1. i \in Contract /\ i + 1 \in Contract /\ i # Contracts /\ i \in Nat
    BY <1>0 DEF Contract
  <2>2. roll(i) \in Int /\ roll(i + 1) \in Int /\ roll(i) < roll(i + 1)
    BY <1>1
  <2>3. roll(i) - 1 < roll(i)
    BY <2>2
  <2>4. ActiveContract(roll(i) - 1) <= i
    BY <2>1, <2>3, ActiveIs
  <2> DEFINE a == ActiveContract(roll(i))
  <2>5. /\ a \in Contract /\ a <= i + 1
        /\ a = Contracts \/ roll(i) < roll(a)
    BY <2>1, <2>2, ActiveIs
  <2> HIDE DEF a, roll
  <2>6. ASSUME a <= i PROVE FALSE
    <3>1. roll(a) <= roll(i) /\ roll(a) \in Int
      BY <1>2, <1>4, <2>1, <2>5, <2>6
    <3>2. a # Contracts
      BY <1>0, <2>1, <2>5, <2>6 DEF Contract
    <3> QED
      BY <2>2, <2>5, <3>1, <3>2
  <2>7. a = i + 1
    BY <1>0, <2>1, <2>5, <2>6 DEF Contract
  <2> QED
    BY <2>2, <2>4, <2>7 DEF a
<1> QED
  BY <1>5 DEF RollsInOrder

-----------------------------------------------------------------------------
(* FuturesChain: the series and the position.                              *)

\* The series has a price of the contract it ends with, as the last bars do, and
\* the position is in one contract, that of the series while bars are there.
SeriesInv ==
  /\ Built
  /\ output \in Seq([contract : Contract, close : Nat \ {0}])
  /\ bars \in [Contract -> Prices \cup {Nothing}] /\ skipped \in BOOLEAN
  /\ output # <<>> => bars[Prior] # Nothing /\ Last(output).close = bars[Prior]
  /\ positions \in [Contract -> {0, Quantity}] /\ held \in Contract \cup {Nothing}
  /\ held = Nothing => output = <<>> /\ \A c \in Contract : positions[c] = 0
  /\ status \in {"running", "no overlap", "not positive"}
  /\ ExposureKept

Item == [contract : Contract, close : Nat \ {0}]

\* A series with one more item.
LEMMA Longer ==
  ASSUME NEW items \in Seq(Item), NEW e \in Item
  PROVE  /\ Append(items, e) \in Seq(Item) /\ Append(items, e) # <<>>
         /\ Len(Append(items, e)) = Len(items) + 1 /\ Len(items) \in Nat
         /\ \A i \in 1..Len(items) : Append(items, e)[i] = items[i]
         /\ Append(items, e)[Len(items) + 1] = e /\ Last(Append(items, e)) = e
<1>1. /\ Append(items, e) \in Seq(Item) /\ Len(items) \in Nat
      /\ Len(Append(items, e)) = Len(items) + 1
      /\ \A i \in 1..Len(items) : Append(items, e)[i] = items[i]
      /\ Append(items, e)[Len(items) + 1] = e
  OBVIOUS
<1>2. Append(items, e) # <<>>
  BY <1>1
<1> QED
  BY <1>1, <1>2 DEF Last

\* All prices are shifted alike, and stay prices where none falls to zero.
LEMMA Shifted ==
  ASSUME NEW items \in Seq(Item), NEW gap \in Int,
         Positive([i \in DOMAIN items |-> Shift(items[i], gap)])
  PROVE  LET shifted == [i \in DOMAIN items |-> Shift(items[i], gap)]
         IN /\ shifted \in Seq(Item) /\ Len(shifted) = Len(items)
            /\ \A i \in 1..Len(items) : shifted[i].close = items[i].close + gap
<1> DEFINE shifted == [i \in DOMAIN items |-> Shift(items[i], gap)]
<1>1. DOMAIN items = 1..Len(items) /\ Len(items) \in Nat /\ DOMAIN shifted = 1..Len(items)
  OBVIOUS
<1>2. ASSUME NEW i \in 1..Len(items)
      PROVE  shifted[i] \in Item /\ shifted[i].close = items[i].close + gap
  <2>1. items[i] \in Item
    OBVIOUS
  <2>2. /\ items[i].contract \in Contract /\ items[i].close \in Nat
        /\ items[i] = [contract |-> items[i].contract, close |-> items[i].close]
    BY <2>1 DEF Item
  <2>3. shifted[i] = [contract |-> items[i].contract, close |-> items[i].close + gap]
    BY <1>1, <2>2 DEF Shift
  <2>4. shifted[i].close > 0
    BY <1>1 DEF Positive
  <2>5. items[i].close + gap \in Nat \ {0}
    BY <2>2, <2>3, <2>4
  <2> QED
    BY <2>2, <2>3, <2>5 DEF Item
<1>3. shifted = [i \in 1..Len(items) |-> shifted[i]]
  BY <1>1
<1> HIDE DEF shifted
<1>4. shifted \in Seq(Item)
  BY <1>1, <1>2, <1>3
<1>5. Len(shifted) = Len(items)
  BY <1>1, <1>4
<1> QED
  BY <1>2, <1>4, <1>5 DEF shifted

\* The contract the series ends with, once it has begun.
LEMMA PriorIs ==
  ASSUME output \in Seq(Item)
  PROVE  /\ Prior # Nothing <=> output # <<>>
         /\ output # <<>> =>
              /\ Len(output) \in Nat \ {0} /\ Prior \in Contract
              /\ Last(output) = output[Len(output)] /\ output[Len(output)].close \in Nat
              /\ Prior = output[Len(output)].contract
<1>1. Nothing \notin Contract
  BY FuturesAssumption DEF Contract
<1>2. CASE output = <<>>
  BY <1>2 DEF Prior
<1>3. CASE output # <<>>
  <2>1. Len(output) \in Nat \ {0} /\ output[Len(output)] \in Item
    BY <1>3
  <2>2. Last(output) = output[Len(output)]
    BY DEF Last
  <2> QED
    BY <1>1, <1>3, <2>1, <2>2 DEF Prior, Item
<1> QED
  BY <1>2, <1>3

\* A session of the series: it is left alone, or it goes on with the bars of the
\* session, its past shifted as a whole so that the last move is the contract's.
Left ==
  /\ output' = output /\ bars' = bars /\ skipped' \in BOOLEAN
  /\ status' \in {"running", "no overlap", "not positive"}
  /\ status' = "running" /\ output # <<>> => skipped'

Grows(d, b) ==
  /\ b[ActiveContract(d)] \in Nat \ {0}
  /\ bars' = b /\ skipped' = FALSE /\ status' = status
  /\ \E past \in Seq(Item) :
       /\ Len(past) = Len(output)
       /\ output' = Append(past, [contract |-> ActiveContract(d),
                                  close |-> b[ActiveContract(d)]])
       /\ \A i \in 1..(Len(output) - 1) :
            past[i + 1].close - past[i].close = output[i + 1].close - output[i].close
       /\ output # <<>> =>
            b[ActiveContract(d)] - past[Len(output)].close = b[Prior] - bars[Prior]

\* A session leaves the series as it was or adds one item to it.
LEMMA Continues ==
  ASSUME SeriesInv, status = "running", NEW d, NEW b \in [Contract -> Prices \cup {Nothing}],
         Continue(d, b)
  PROVE  Left \/ Grows(d, b)
<1> DEFINE active == ActiveContract(d)
           rolls == Prior # Nothing /\ active # Prior
           gap == b[active] - b[Prior]
           shifted == [i \in DOMAIN output |-> Shift(output[i], gap)]
<1>1. active \in Contract
  BY ActiveIs
<1> HIDE DEF active
<1>2. /\ output \in Seq(Item) /\ skipped \in BOOLEAN
      /\ bars \in [Contract -> Prices \cup {Nothing}]
      /\ output # <<>> => bars[Prior] # Nothing /\ Last(output).close = bars[Prior]
  BY DEF SeriesInv, Item
<1>3. /\ Prior # Nothing <=> output # <<>>
      /\ output # <<>> =>
           /\ Len(output) \in Nat \ {0} /\ Prior \in Contract
           /\ Last(output) = output[Len(output)] /\ output[Len(output)].close \in Nat
  BY <1>2, PriorIs
<1>4. /\ \A c \in Contract : b[c] # Nothing => b[c] \in Nat \ {0}
      /\ Len(output) \in Nat
      /\ \A i \in 1..Len(output) : output[i].close \in Nat
  <2>1. ASSUME NEW c \in Contract, b[c] # Nothing PROVE b[c] \in Nat \ {0}
    BY <2>1, FuturesAssumption
  <2>2. ASSUME NEW i \in 1..Len(output) PROVE output[i].close \in Nat
    <3>1. output[i] \in Item
      BY <1>2
    <3> QED
      BY <3>1 DEF Item
  <2>3. Len(output) \in Nat
    BY <1>2
  <2> QED
    BY <2>1, <2>2, <2>3
<1>5. CASE b[active] = Nothing
  <2>1. skipped' = (output # <<>>) /\ UNCHANGED <<output, bars, status>>
    BY <1>5 DEF Continue, active
  <2> QED
    BY <2>1 DEF Left
<1>6. CASE b[active] # Nothing /\ rolls /\ b[Prior] = Nothing
  <2>1. status' = "no overlap" /\ UNCHANGED <<output, bars, skipped>>
    BY <1>6 DEF Continue, active
  <2> QED
    BY <1>2, <2>1 DEF Left
<1>7. CASE b[active] # Nothing /\ rolls /\ b[Prior] # Nothing
  <2>1. \/ status' = "not positive" /\ UNCHANGED <<output, bars, skipped>>
        \/ /\ Positive(shifted)
           /\ output' = Append(shifted, [contract |-> active, close |-> b[active]])
           /\ bars' = b /\ skipped' = FALSE /\ UNCHANGED status
    BY <1>7 DEF Continue, active
  <2>2. CASE status' = "not positive" /\ UNCHANGED <<output, bars, skipped>>
    BY <1>2, <2>2 DEF Left
  <2>3. CASE /\ Positive(shifted)
             /\ output' = Append(shifted, [contract |-> active, close |-> b[active]])
             /\ bars' = b /\ skipped' = FALSE /\ UNCHANGED status
    <3>1. output # <<>> /\ Prior \in Contract /\ b[Prior] \in Nat /\ b[active] \in Nat \ {0}
      BY <1>1, <1>3, <1>4, <1>7
    <3>2. gap \in Int
      BY <3>1
    <3>3. /\ shifted \in Seq(Item) /\ Len(shifted) = Len(output)
          /\ \A i \in 1..Len(output) : shifted[i].close = output[i].close + gap
      <4> HIDE DEF gap
      <4> QED
        BY <1>2, <2>3, <3>2, Shifted
    <3> HIDE DEF shifted
    <3>4. ASSUME NEW i \in 1..(Len(output) - 1)
          PROVE  shifted[i + 1].close - shifted[i].close = output[i + 1].close - output[i].close
      <4>1. i \in 1..Len(output) /\ i + 1 \in 1..Len(output)
        BY <1>4
      <4>2. /\ shifted[i].close = output[i].close + gap
            /\ shifted[i + 1].close = output[i + 1].close + gap
            /\ output[i].close \in Nat /\ output[i + 1].close \in Nat
        BY <1>4, <3>3, <4>1
      <4> HIDE DEF gap
      <4> QED
        BY <3>2, <4>2
    <3>5. b[active] - shifted[Len(output)].close = b[Prior] - bars[Prior]
      <4>1. Len(output) \in 1..Len(output)
        BY <1>3, <3>1
      <4>2. shifted[Len(output)].close = bars[Prior] + gap /\ bars[Prior] \in Nat
        BY <1>2, <1>3, <3>1, <3>3, <4>1
      <4> QED
        BY <3>1, <4>2
    <3> HIDE DEF gap, rolls
    <3>6. \A i \in 1..(Len(output) - 1) :
            shifted[i + 1].close - shifted[i].close = output[i + 1].close - output[i].close
      BY <3>4
    <3> QED
      BY <2>3, <3>1, <3>3, <3>5, <3>6 DEF Grows, active
  <2> QED
    BY <2>1, <2>2, <2>3
<1>8. CASE b[active] # Nothing /\ ~ rolls
  <2>1. \/ status' = "not positive" /\ UNCHANGED <<output, bars, skipped>>
        \/ /\ output' = Append(output, [contract |-> active, close |-> b[active]])
           /\ bars' = b /\ skipped' = FALSE /\ UNCHANGED status
    BY <1>8 DEF Continue, active
  <2>2. CASE status' = "not positive" /\ UNCHANGED <<output, bars, skipped>>
    BY <1>2, <2>2 DEF Left
  <2>3. CASE /\ output' = Append(output, [contract |-> active, close |-> b[active]])
             /\ bars' = b /\ skipped' = FALSE /\ UNCHANGED status
    <3>1. b[active] \in Nat \ {0}
      BY <1>1, <1>4, <1>8
    <3>2. output # <<>> => b[active] - output[Len(output)].close = b[Prior] - bars[Prior]
      BY <1>2, <1>3, <1>8
    <3>3. \A i \in 1..(Len(output) - 1) :
            output[i + 1].close - output[i].close = output[i + 1].close - output[i].close
      OBVIOUS
    <3> QED
      BY <1>2, <2>3, <3>1, <3>2, <3>3 DEF Grows, active
  <2> QED
    BY <2>1, <2>2, <2>3
<1> QED
  BY <1>5, <1>6, <1>7, <1>8

\* The position is rolled as a whole.
LEMMA Rolled ==
  ASSUME SeriesInv, NEW d, RollPosition(d)
  PROVE  /\ held' = ActiveContract(d) /\ held' \in Contract
         /\ positions' \in [Contract -> {0, Quantity}]
         /\ positions'[held'] = Quantity /\ \A c \in Contract \ {held'} : positions'[c] = 0
<1> DEFINE active == ActiveContract(d)
<1>1. active \in Contract /\ held' = active
  BY ActiveIs DEF RollPosition
<1>2. positions' = IF active = held THEN positions ELSE Moved(active)
  BY DEF RollPosition
<1> HIDE DEF active
<1>3. /\ positions \in [Contract -> {0, Quantity}] /\ held \in Contract \cup {Nothing}
      /\ held = Nothing => \A c \in Contract : positions[c] = 0
      /\ held # Nothing => /\ positions[held] = Quantity
                           /\ \A c \in Contract \ {held} : positions[c] = 0
  BY DEF SeriesInv, ExposureKept
<1>4. held \in Contract => held # Nothing
  BY FuturesAssumption DEF Contract
<1>5. CASE active = held
  BY <1>1, <1>2, <1>3, <1>4, <1>5 DEF active
<1>6. CASE active # held
  <2>1. \A c \in Contract : Moved(active)[c] = IF c = active THEN Quantity ELSE
                                              IF c = held THEN 0 ELSE positions[c]
    BY DEF Moved
  <2>2. \A c \in Contract : Moved(active)[c] = IF c = active THEN Quantity ELSE 0
    BY <1>3, <2>1
  <2>3. Moved(active) \in [Contract -> {0, Quantity}]
    BY <2>2 DEF Moved
  <2> QED
    BY <1>1, <1>2, <1>6, <2>2, <2>3 DEF active
<1> QED
  BY <1>5, <1>6

\* What the series ends with after a session.
LEMMA PriorAfter ==
  ASSUME NEW past \in Seq(Item), NEW c \in Contract, NEW worth \in Nat \ {0},
         output' = Append(past, [contract |-> c, close |-> worth])
  PROVE  /\ output' \in Seq(Item) /\ output' # <<>>
         /\ Prior' = c /\ Last(output)'.close = worth
<1> DEFINE e == [contract |-> c, close |-> worth]
<1>1. e \in Item /\ e.contract = c /\ e.close = worth
  BY DEF Item
<1> HIDE DEF e
<1>2. output' = Append(past, e)
  BY DEF e
<1>3. output' \in Seq(Item) /\ output' # <<>> /\ Last(output)' = e
  BY <1>1, <1>2, Longer DEF Last
<1> QED
  BY <1>1, <1>3 DEF Prior

\* At first the series is empty and no position is held.
LEMMA SeriesBegins == FCInit => SeriesInv
<1> SUFFICES ASSUME FCInit PROVE SeriesInv
  OBVIOUS
<1>1. Built
  BY DEF FCInit, Built
<1>2. output \in Seq(Item) /\ bars \in [Contract -> Prices \cup {Nothing}] /\ output = <<>>
  BY DEF FCInit
<1>3. positions \in [Contract -> {0, Quantity}] /\ \A c \in Contract : positions[c] = 0
  BY DEF FCInit
<1>4. held = Nothing /\ skipped \in BOOLEAN /\ status = "running"
  BY DEF FCInit
<1> QED
  BY <1>1, <1>2, <1>3, <1>4 DEF SeriesInv, ExposureKept, Item

\* Every session keeps it.
LEMMA SeriesGoesOn == SeriesInv /\ [FCNext]_FCvars => SeriesInv'
<1> SUFFICES ASSUME SeriesInv, [FCNext]_FCvars PROVE SeriesInv'
  OBVIOUS
<1>1. CASE UNCHANGED FCvars
  BY <1>1 DEF FCvars, rules, SeriesInv, Built, ExposureKept, Prior
<1>2. CASE FCNext
  <2>1. PICK d \in Sessions, b \in [Contract -> Prices \cup {Nothing}] :
          RollPosition(d) /\ Continue(d, b)
    BY <1>2 DEF FCNext, Step
  <2>2. status = "running" /\ UNCHANGED rules
    BY <1>2 DEF FCNext, Step
  <2>3. Built'
    BY <2>2 DEF SeriesInv, Built, rules
  <2>4. /\ held' = ActiveContract(d) /\ held' \in Contract
        /\ positions' \in [Contract -> {0, Quantity}]
        /\ positions'[held'] = Quantity /\ \A c \in Contract \ {held'} : positions'[c] = 0
    BY <2>1, Rolled
  <2>5. held' # Nothing
    BY <2>4, FuturesAssumption DEF Contract
  <2>6. Left \/ Grows(d, b)
    BY <2>1, <2>2, Continues
  <2>7. /\ output \in Seq(Item) /\ bars \in [Contract -> Prices \cup {Nothing}]
        /\ output # <<>> => bars[Prior] # Nothing /\ Last(output).close = bars[Prior]
    BY DEF SeriesInv, Item
  <2>8. /\ output' \in Seq(Item) /\ bars' \in [Contract -> Prices \cup {Nothing}]
        /\ skipped' \in BOOLEAN /\ status' \in {"running", "no overlap", "not positive"}
        /\ output' # <<>> => bars'[Prior'] # Nothing /\ Last(output)'.close = bars'[Prior']
        /\ status' = "running" /\ output' # <<>> /\ ~ skipped' => held' = Prior'
    <3>1. CASE Left
      <4>1. /\ output' = output /\ bars' = bars /\ skipped' \in BOOLEAN
            /\ status' \in {"running", "no overlap", "not positive"}
            /\ status' = "running" /\ output # <<>> => skipped'
        BY <3>1 DEF Left
      <4>2. Prior' = Prior /\ Last(output)' = Last(output)
        BY <4>1 DEF Prior, Last
      <4> QED
        BY <2>7, <4>1, <4>2
    <3>2. CASE Grows(d, b)
      <4>1. PICK past \in Seq(Item) :
              output' = Append(past, [contract |-> ActiveContract(d),
                                      close |-> b[ActiveContract(d)]])
        BY <3>2 DEF Grows
      <4>2. /\ b[ActiveContract(d)] \in Nat \ {0} /\ ActiveContract(d) \in Contract
            /\ bars' = b /\ skipped' = FALSE /\ status' = "running"
        BY <2>2, <2>4, <3>2 DEF Grows
      <4>3. /\ output' \in Seq(Item) /\ output' # <<>>
            /\ Prior' = ActiveContract(d) /\ Last(output)'.close = b[ActiveContract(d)]
        BY <4>1, <4>2, PriorAfter
      <4>4. b[ActiveContract(d)] # Nothing
        BY <4>2, FuturesAssumption
      <4> QED
        BY <2>1, <2>4, <4>2, <4>3, <4>4
    <3> QED
      BY <2>6, <3>1, <3>2
  <2>9. ExposureKept'
    BY <2>4, <2>8 DEF ExposureKept
  <2> QED
    BY <2>3, <2>4, <2>5, <2>8, <2>9 DEF SeriesInv, Item
<1> QED
  BY <1>1, <1>2

\* The series and the position are as said in every state.
THEOREM SeriesInvariant == FCSpec => []SeriesInv
<1> QED
  BY SeriesBegins, SeriesGoesOn, PTL DEF FCSpec

\* Without duplicating or dropping exposure: simulate_position_rolls keeps the whole
\* position in one contract, the one the series of panama_back_adjust shows.
THEOREM ExposureIsKept == FCSpec => []ExposureKept
<1>1. SeriesInv => ExposureKept
  BY DEF SeriesInv
<1> QED
  BY <1>1, SeriesInvariant, PTL

\* For every future, every set of holidays that leaves no week without a business
\* day and every lengths of the months, build_roll_calendar's rolls are in time and
\* in order, and its last trading days are those of the rules.
THEOREM CalendarIsRight == FCSpec => []CalendarInv
<1>1. SeriesInv => CalendarInv
  <2> SUFFICES ASSUME SeriesInv PROVE CalendarInv
    OBVIOUS
  <2>1. Built /\ output \in Seq(Item)
    BY DEF SeriesInv, Item
  <2>2. RollsInTime /\ LastTradeIsTheRule /\ RollsInOrder
    BY <2>1, BuiltInTime, BuiltByTheRule, BuiltInOrder
  <2>3. symbol \in Symbols /\ Len(calendar) = Contracts
    <3>1. PICK first \in FirstMonths : calendar = BuildRollCalendar(symbol, first, holidays)
      BY <2>1 DEF Built
    <3>2. Contracts \in Nat
      BY FuturesAssumption
    <3> QED
      BY <2>1, <3>1, <3>2 DEF Built, BuildRollCalendar
  <2>4. \A item \in Range(output) : item.contract \in Contract /\ item.close \in Nat \ {0}
    <3>1. ASSUME NEW item \in Range(output) PROVE item \in Item
      BY <2>1, <3>1 DEF Range
    <3> QED
      BY <3>1 DEF Item
  <2> QED
    BY <2>2, <2>3, <2>4 DEF CalendarInv, FCTypeOK, SeriesInv
<1> QED
  BY <1>1, SeriesInvariant, PTL

\* Panama adjustment: no roll and no later shift of the past makes a move that the
\* contract held did not make.
THEOREM NoGapAtRolls == FCSpec => NoRollGap
<1> DEFINE Moves ==
             Len(output') > Len(output) =>
               LET n == Len(output) IN
               /\ \A i \in 1..(n - 1) : output'[i + 1].close - output'[i].close
                                          = output[i + 1].close - output[i].close
               /\ n > 0 => output'[n + 1].close - output'[n].close = bars'[Prior] - bars[Prior]
<1>1. SeriesInv /\ [FCNext]_FCvars => [Moves]_FCvars
  <2> SUFFICES ASSUME SeriesInv, FCNext PROVE Moves
    OBVIOUS
  <2>1. PICK d \in Sessions, b \in [Contract -> Prices \cup {Nothing}] : Continue(d, b)
    BY DEF FCNext, Step
  <2>2. status = "running" /\ output \in Seq(Item)
    BY DEF FCNext, Step, SeriesInv, Item
  <2>3. Left \/ Grows(d, b)
    BY <2>1, <2>2, Continues
  <2>4. CASE Left
    <3>1. output' = output
      BY <2>4 DEF Left
    <3>2. Len(output) \in Nat
      BY <2>2
    <3>3. Len(output') = Len(output)
      BY <3>1
    <3>4. ~ (Len(output') > Len(output))
      BY <3>2, <3>3
    <3> QED
      BY <3>4
  <2>5. CASE Grows(d, b)
    <3> DEFINE n == Len(output)
               e == [contract |-> ActiveContract(d), close |-> b[ActiveContract(d)]]
    <3>1. PICK past \in Seq(Item) :
            /\ Len(past) = n /\ output' = Append(past, e)
            /\ \A i \in 1..(n - 1) :
                 past[i + 1].close - past[i].close = output[i + 1].close - output[i].close
            /\ output # <<>> =>
                 b[ActiveContract(d)] - past[n].close = b[Prior] - bars[Prior]
      BY <2>5 DEF Grows
    <3>2. e \in Item /\ e.close = b[ActiveContract(d)] /\ bars' = b
      BY <2>5, ActiveIs DEF Grows, Item
    <3> HIDE DEF e
    <3>3. /\ n \in Nat /\ \A i \in 1..n : output'[i] = past[i]
          /\ output'[n + 1] = e
      BY <3>1, <3>2, Longer
    <3>4. n > 0 => output # <<>>
      BY <2>2
    <3> HIDE DEF n
    <3>5. ASSUME NEW i \in 1..(n - 1)
          PROVE  output'[i + 1].close - output'[i].close = output[i + 1].close - output[i].close
      <4>1. i \in 1..n /\ i + 1 \in 1..n
        BY <3>3
      <4> QED
        BY <3>1, <3>3, <4>1
    <3>6. ASSUME n > 0
          PROVE  output'[n + 1].close - output'[n].close = bars'[Prior] - bars[Prior]
      <4>1. n \in 1..n
        BY <3>3, <3>6
      <4> QED
        BY <3>1, <3>2, <3>3, <3>4, <3>6, <4>1
    <3> QED
      BY <3>5, <3>6 DEF n
  <2> QED
    BY <2>3, <2>4, <2>5
<1> HIDE DEF Moves
<1>2. FCSpec => [][Moves]_FCvars
  BY <1>1, SeriesInvariant, PTL DEF FCSpec
<1> QED
  BY <1>2 DEF NoRollGap, Moves

-----------------------------------------------------------------------------
(* BarRecorder: hours and buckets.                                         *)

\* A longer time has no fewer hours.
LEMMA MoreHours ==
  ASSUME NEW a \in Int, NEW b \in Int, a <= b, NEW len \in Nat
  PROVE  a * len <= b * len
<1> DEFINE T == {n \in Nat : a * n <= b * n}
<1>1. 0 \in T
  OBVIOUS
<1>2. ASSUME NEW n \in T PROVE n + 1 \in T
  <2>1. n \in Nat /\ a * n <= b * n
    OBVIOUS
  <2>2. a * (n + 1) = a * n + a /\ b * (n + 1) = b * n + b /\ a * n \in Int /\ b * n \in Int
    BY <2>1
  <2> QED
    BY <2>1, <2>2
<1>3. T = Nat
  <2>1. T \in SUBSET Nat
    OBVIOUS
  <2> HIDE DEF T
  <2> QED
    BY <1>1, <1>2, <2>1, CountUp
<1> QED
  BY <1>3

\* The bucket of an hour begins before it and ends after it.
LEMMA BucketOf ==
  ASSUME NEW h \in Nat, NEW len \in Nat \ {0}
  PROVE  /\ h \div len \in Nat /\ (h \div len) * len <= h
         /\ h < ((h \div len) + 1) * len
<1> DEFINE q == h \div len
<1>1. q \in Int /\ h = len * q + (h % len) /\ h % len \in 0..(len - 1)
  OBVIOUS
<1> HIDE DEF q
<1>2. q * len = len * q /\ (q + 1) * len = len * q + len /\ len * q \in Int
  BY <1>1
<1>3. q * len <= h /\ h < (q + 1) * len
  BY <1>1, <1>2
<1>4. q \in Nat
  <2> SUFFICES ASSUME q + 1 <= 0 PROVE FALSE
    BY <1>1
  <2>1. (q + 1) * len <= 0 * len
    BY <1>1, MoreHours
  <2> QED
    BY <1>1, <1>2, <1>3, <2>1
<1> QED
  BY <1>3, <1>4 DEF q

\* What is before an hour begins before it.
LEMMA FewerHours ==
  ASSUME NEW a \in Int, NEW b \in Int, NEW len \in Nat, a * len < b * len
  PROVE  a < b
<1> SUFFICES ASSUME b <= a PROVE FALSE
  OBVIOUS
<1>1. b * len <= a * len
  BY MoreHours
<1>2. a * len \in Int /\ b * len \in Int
  OBVIOUS
<1> QED
  BY <1>1, <1>2

\* A later hour is in no earlier bucket.
LEMMA LaterBucket ==
  ASSUME NEW a \in Nat, NEW b \in Nat, a <= b, NEW len \in Nat \ {0}
  PROVE  a \div len <= b \div len
<1> DEFINE p == a \div len
           q == b \div len
<1>1. p \in Nat /\ p * len <= a /\ q \in Nat /\ b < (q + 1) * len
  BY BucketOf
<1> HIDE DEF p, q
<1>2. p * len < (q + 1) * len
  <2>1. p * len \in Int /\ (q + 1) * len \in Int
    BY <1>1
  <2> QED
    BY <1>1, <2>1
<1>3. p < q + 1
  BY <1>1, <1>2, FewerHours
<1> QED
  BY <1>1, <1>3 DEF p, q

-----------------------------------------------------------------------------
(* BarRecorder: what a fetch brings.                                       *)

\* A candle of an interval that is over.
Over(row) ==
  /\ row.series \in Range(Series) /\ row.len \in Lens /\ row.bucket \in Nat
  /\ (row.bucket + 1) * row.len <= hour

\* And as the exchange has it then, if it was over when the answer was made.
Taken(row, at) ==
  /\ Over(row)
  /\ row.bucket < at \div row.len => Final(row)

\* An interval has at least an hour.
LEMMA LensAre == \A len \in Lens : len \in Nat \ {0}
BY RecorderAssumption DEF Lens

\* A candle has the bucket it is of.
LEMMA CandleOf ==
  ASSUME NEW s, NEW len, NEW bucket
  PROVE  LET c == Candle(s, len, bucket)
         IN c.series = s /\ c.len = len /\ c.bucket = bucket
BY DEF Candle, Row

\* The candles before the open bucket are final.
LEMMA ListedAreFinal ==
  ASSUME hour \in Nat, NEW s \in Range(Series), NEW len \in Lens, NEW first \in Nat,
         NEW open \in Int, open <= hour \div len
  PROVE  LET rows == ListedCandles(s, len, first, open) IN
         /\ rows \in Seq(Range(rows)) /\ Len(rows) \in Nat
         /\ \A i \in 1..Len(rows) : Over(rows[i]) /\ Final(rows[i])
<1> DEFINE rows == ListedCandles(s, len, first, open)
<1>1. len \in Nat \ {0}
  BY LensAre
<1>2. /\ hour \div len \in Nat /\ (hour \div len) * len <= hour
  BY <1>1, BucketOf
<1>3. ASSUME NEW i \in 1..(open - first)
      PROVE  Over(Candle(s, len, first + i - 1)) /\ Final(Candle(s, len, first + i - 1))
  <2> DEFINE b == first + i - 1
  <2>1. b \in Nat /\ b + 1 <= hour \div len
    BY <1>2, <1>3
  <2> HIDE DEF b
  <2>2. (b + 1) * len <= (hour \div len) * len
    BY <1>1, <1>2, <2>1, MoreHours
  <2>3. (b + 1) * len \in Int /\ (hour \div len) * len \in Int
    BY <1>1, <1>2, <2>1
  <2>4. (b + 1) * len <= hour
    BY <1>2, <2>2, <2>3
  <2>5. Over(Candle(s, len, b)) /\ Final(Candle(s, len, b))
    BY <2>1, <2>4, CandleOf DEF Over, Final
  <2> QED
    BY <2>5 DEF b
<1>4. rows = [i \in 1..(open - first) |-> Candle(s, len, first + i - 1)]
  BY DEF ListedCandles
<1>5. \E n \in Nat : 1..n = 1..(open - first)
  <2>1. CASE open - first \in Nat
    BY <2>1
  <2>2. CASE open - first \notin Nat
    <3>1. 1..0 = 1..(open - first)
      BY <2>2
    <3> QED
      BY <3>1
  <2> QED
    BY <2>1, <2>2
<1>6. PICK n \in Nat : 1..n = 1..(open - first)
  BY <1>5
<1> HIDE DEF rows
<1>7. /\ DOMAIN rows = 1..n /\ \A i \in 1..n : rows[i] = Candle(s, len, first + i - 1)
      /\ rows = [i \in 1..n |-> rows[i]]
  BY <1>4, <1>6
<1>8. rows \in Seq(Range(rows)) /\ Len(rows) = n
  <2>1. \A i \in 1..n : rows[i] \in Range(rows)
    BY <1>7 DEF Range
  <2>2. rows \in Seq(Range(rows))
    BY <1>7, <2>1
  <2> QED
    BY <1>7, <2>2
<1>9. \A i \in 1..n : Over(rows[i]) /\ Final(rows[i])
  BY <1>3, <1>6, <1>7
<1> QED
  BY <1>8, <1>9 DEF rows

\* The symbols of one exchange are not the other's.
LEMMA OneExchange ==
  ASSUME NEW s, Contains(CoinbaseSpot, s), Contains(KrakenSpot, s)
  PROVE  FALSE
<1>1. /\ CoinbaseSpot \in Seq(Range(CoinbaseSpot)) /\ KrakenSpot \in Seq(Range(KrakenSpot))
      /\ \A a, b \in DOMAIN Series : Series[a] = Series[b] => a = b
  BY RecorderAssumption DEF IsInjective
<1>2. PICK i \in 1..Len(CoinbaseSpot) : CoinbaseSpot[i] = s
  BY DEF Contains
<1>3. PICK j \in 1..Len(KrakenSpot) : KrakenSpot[j] = s
  BY DEF Contains
<1> DEFINE k == Len(CoinbaseSpot) + j
<1>4. /\ i \in DOMAIN Series /\ Series[i] = s
      /\ k \in DOMAIN Series /\ Series[k] = s /\ i # k
  BY <1>1, <1>2, <1>3 DEF Series
<1> HIDE DEF k
<1> QED
  BY <1>1, <1>4

\* A sequence and one more element.
LEMMA OneMore ==
  ASSUME NEW S, NEW list \in Seq(S), NEW x
  PROVE  /\ list \o <<x>> \in Seq(S \cup {x}) /\ Len(list \o <<x>>) = Len(list) + 1
         /\ \A i \in 1..Len(list) : (list \o <<x>>)[i] = list[i]
         /\ (list \o <<x>>)[Len(list) + 1] = x
<1>1. list \in Seq(S \cup {x}) /\ <<x>> \in Seq(S \cup {x}) /\ Len(<<x>>) = 1 /\ <<x>>[1] = x
  OBVIOUS
<1> QED
  BY <1>1

\* Of an answer, what is taken for closed is over, and final if it was over then.
LEMMA ClosedIsTaken ==
  ASSUME hour \in Nat, NEW s \in Range(Series), NEW len \in Lens, NEW first \in Nat,
         NEW late \in BOOLEAN, NEW at \in 0..hour, job.now \in Nat,
         NEW rows \in Answers(s, len, first, late, at)
  PROVE  LET taken == IF Contains(KrakenSpot, s) THEN Front(rows) ELSE rows IN
         /\ taken \in Seq(Range(taken))
         /\ \A i \in 1..Len(taken) : Closed(s, taken[i]) => Taken(taken[i], at)
<1> DEFINE open == (at \div len) - (IF late THEN 1 ELSE 0)
           next == IF Contains(CoinbaseSpot, s) THEN Min({open, (job.now \div len) + 1}) ELSE open
           list == ListedCandles(s, len, first, next)
           Forming == {<<Row(s, len, open, close, FALSE)>> : close \in Closes}
           end == IF next < open \/ (late /\ Contains(CoinbaseSpot, s)) THEN {<<>>} ELSE Forming
<1>1. /\ len \in Nat \ {0} /\ at \in Nat /\ at <= hour
      /\ at \div len \in Nat /\ hour \div len \in Nat /\ at \div len <= hour \div len
      /\ job.now \div len \in Nat
  BY LensAre, BucketOf, LaterBucket
<1>2. open \in Int /\ open <= at \div len /\ next \in Int /\ next <= hour \div len
  <2>1. open \in Int /\ open <= at \div len
    BY <1>1
  <2>2. CASE Contains(CoinbaseSpot, s)
    <3> DEFINE asked == (job.now \div len) + 1
    <3>1. asked \in Int
      BY <1>1
    <3> HIDE DEF open, asked
    <3>2. Min({open, asked}) = IF open <= asked THEN open ELSE asked
      BY <2>1, <3>1, Earlier
    <3>3. next = Min({open, asked})
      BY <2>2 DEF asked
    <3> QED
      BY <1>1, <2>1, <3>1, <3>2, <3>3
  <2>3. CASE ~ Contains(CoinbaseSpot, s)
    <3>1. next = open
      BY <2>3
    <3> QED
      BY <1>1, <2>1, <3>1
  <2> QED
    BY <2>2, <2>3
<1>3. /\ list \in Seq(Range(list)) /\ Len(list) \in Nat
      /\ \A i \in 1..Len(list) : Taken(list[i], at)
  <2> HIDE DEF next
  <2>1. /\ list \in Seq(Range(list)) /\ Len(list) \in Nat
        /\ \A i \in 1..Len(list) : Over(list[i]) /\ Final(list[i])
    BY <1>2, ListedAreFinal
  <2> HIDE DEF list
  <2> QED
    BY <2>1 DEF Taken
<1>4. PICK f \in end : rows = list \o f
  BY DEF Answers
<1> HIDE DEF list, next
<1>5. CASE f = <<>>
  <2>1. rows = list
    BY <1>3, <1>4, <1>5
  <2>2. Front(rows) \in Seq(Range(list)) /\ \A i \in 1..Len(Front(rows)) :
          Front(rows)[i] = list[i] /\ i \in 1..Len(list)
    BY <1>3, <2>1, SubSeqProperties DEF Front
  <2>3. \A i \in 1..Len(Front(rows)) : Taken(Front(rows)[i], at)
    BY <1>3, <2>2
  <2>4. Front(rows) \in Seq(Range(Front(rows)))
    BY <2>2 DEF Range
  <2> QED
    BY <1>3, <2>1, <2>3, <2>4
<1>6. CASE f # <<>>
  <2>1. PICK close \in Closes : f = <<Row(s, len, open, close, FALSE)>>
    BY <1>4, <1>6
  <2>2. ~ late \/ ~ Contains(CoinbaseSpot, s)
    BY <1>4, <1>6
  <2> DEFINE last == Row(s, len, open, close, FALSE)
  <2>3. last.bucket = open /\ last.len = len
    BY DEF Row
  <2> HIDE DEF last
  <2>4. /\ rows \in Seq(Range(list) \cup {last}) /\ Len(rows) = Len(list) + 1
        /\ \A i \in 1..Len(list) : rows[i] = list[i]
        /\ rows[Len(list) + 1] = last
    <3>1. rows = list \o <<last>>
      BY <1>4, <2>1 DEF last
    <3> QED
      BY <1>3, <3>1, OneMore
  <2>5. CASE Contains(KrakenSpot, s)
    <3>1. /\ Front(rows) \in Seq(Range(list) \cup {last}) /\ Len(Front(rows)) = Len(list)
          /\ \A i \in 1..Len(list) : Front(rows)[i] = rows[i]
      BY <1>3, <2>4, SubSeqProperties DEF Front
    <3>2. Front(rows) \in Seq(Range(Front(rows)))
      BY <3>1 DEF Range
    <3> QED
      BY <1>3, <2>4, <2>5, <3>1, <3>2
  <2>6. CASE ~ Contains(KrakenSpot, s)
    <3>1. Contains(CoinbaseSpot, s)
      <4>1. /\ CoinbaseSpot \in Seq(Range(CoinbaseSpot)) /\ KrakenSpot \in Seq(Range(KrakenSpot))
        BY RecorderAssumption
      <4>2. PICK i \in DOMAIN Series : Series[i] = s
        BY DEF Range
      <4>3. i \in 1..(Len(CoinbaseSpot) + Len(KrakenSpot))
        BY <4>1, <4>2 DEF Series
      <4>4. CASE i <= Len(CoinbaseSpot)
        <5>1. i \in 1..Len(CoinbaseSpot) /\ CoinbaseSpot[i] = s
          BY <4>1, <4>2, <4>3, <4>4 DEF Series
        <5> QED
          BY <5>1 DEF Contains
      <4>5. CASE ~ (i <= Len(CoinbaseSpot))
        <5>1. /\ i - Len(CoinbaseSpot) \in 1..Len(KrakenSpot)
              /\ KrakenSpot[i - Len(CoinbaseSpot)] = s
          BY <4>1, <4>2, <4>3, <4>5 DEF Series
        <5> QED
          BY <2>6, <5>1 DEF Contains
      <4> QED
        BY <4>4, <4>5
    <3>2. open = at \div len /\ open \in Nat
      BY <1>1, <2>2, <3>1
    <3>3. Closed(s, last) => Taken(last, at)
      <4> HIDE DEF open
      <4>1. /\ last.series = s /\ ~ (last.bucket < at \div len)
            /\ last.bucket \in Nat
        BY <1>1, <2>3, <3>2 DEF last, Row
      <4> QED
        BY <2>3, <2>6, <4>1 DEF Closed, Over, Taken
    <3>4. \A i \in 1..Len(rows) : Closed(s, rows[i]) => Taken(rows[i], at)
      <4> TAKE i \in 1..Len(rows)
      <4>1. i \in 1..Len(list) \/ i = Len(list) + 1
        BY <1>3, <2>4
      <4> QED
        BY <1>3, <2>4, <3>3, <4>1
    <3>5. rows \in Seq(Range(rows))
      BY <2>4 DEF Range
    <3> QED
      BY <2>6, <3>4, <3>5
  <2> QED
    BY <2>5, <2>6
<1> QED
  BY <1>5, <1>6

-----------------------------------------------------------------------------
(* BarRecorder: what is kept of a page.                                    *)

Kept(s, page, old, i) == IF Closed(s, page[i]) THEN Accept(old, page[i]) ELSE old

Keeps(g, s, page, m) ==
  g = [T \in SUBSET (1..m) |-> IF T = {} THEN <<>> ELSE Kept(s, page, g[T \ {Max(T)}], Max(T))]

\* There is a function that goes along the page.
LEMMA KeepsExist ==
  ASSUME NEW s, NEW page, NEW m \in Nat
  PROVE  \E g : Keeps(g, s, page, m)
<1> DEFINE T == {n \in Nat : \E g : Keeps(g, s, page, n)}
<1>1. 0 \in T
  <2> DEFINE g == [U \in SUBSET (1..0) |-> <<>>]
  <2>1. \A U \in SUBSET (1..0) : U = {}
    OBVIOUS
  <2>2. Keeps(g, s, page, 0)
    BY <2>1 DEF Keeps
  <2> QED
    BY <2>2
<1>2. ASSUME NEW n \in T PROVE n + 1 \in T
  <2>0. n \in Nat
    OBVIOUS
  <2>1. PICK g : Keeps(g, s, page, n)
    OBVIOUS
  <2>2. \A U \in SUBSET (1..n) :
          g[U] = IF U = {} THEN <<>> ELSE Kept(s, page, g[U \ {Max(U)}], Max(U))
    BY <2>1 DEF Keeps
  <2> DEFINE h == [U \in SUBSET (1..(n + 1)) |->
                     IF n + 1 \in U THEN Kept(s, page, g[U \ {n + 1}], n + 1) ELSE g[U]]
  <2>3. \A U \in SUBSET (1..n) : U \in SUBSET (1..(n + 1)) /\ n + 1 \notin U /\ h[U] = g[U]
    OBVIOUS
  <2>4. ASSUME NEW U \in SUBSET (1..(n + 1))
        PROVE  h[U] = IF U = {} THEN <<>> ELSE Kept(s, page, h[U \ {Max(U)}], Max(U))
    <3>1. CASE n + 1 \in U
      <4>1. n + 1 \in Nat /\ U # {}
        BY <3>1
      <4>2. Max(U) \in U /\ \A i \in U : i <= Max(U)
        BY <4>1, LastIndex
      <4>3. Max(U) = n + 1
        <5>1. Max(U) \in 1..(n + 1) /\ n + 1 <= Max(U)
          BY <3>1, <4>2
        <5> QED
          BY <2>0, <5>1
      <4>4. U \ {n + 1} \in SUBSET (1..n)
        OBVIOUS
      <4>5. h[U \ {n + 1}] = g[U \ {n + 1}]
        BY <2>3, <4>4
      <4>6. h[U] = Kept(s, page, g[U \ {n + 1}], n + 1)
        BY <3>1
      <4> HIDE DEF h
      <4> QED
        BY <4>1, <4>3, <4>5, <4>6
    <3>2. CASE n + 1 \notin U
      <4>0. \A i \in 1..(n + 1) : i # n + 1 => i \in 1..n
        BY <2>0
      <4>1. U \in SUBSET (1..n) /\ U \ {Max(U)} \in SUBSET (1..n)
        BY <3>2, <4>0
      <4>2. h[U] = g[U] /\ h[U \ {Max(U)}] = g[U \ {Max(U)}]
        BY <2>3, <4>1
      <4> HIDE DEF h
      <4> QED
        BY <2>2, <4>1, <4>2
    <3> QED
      BY <3>1, <3>2
  <2>5. Keeps(h, s, page, n + 1)
    BY <2>4 DEF Keeps
  <2> HIDE DEF h
  <2> QED
    BY <2>5
<1>3. T = Nat
  <2>1. T \in SUBSET Nat
    OBVIOUS
  <2> HIDE DEF T
  <2> QED
    BY <1>1, <1>2, <2>1, CountUp
<1> QED
  BY <1>3

ClosedRows(s, page) == {row \in Range(page) : Closed(s, row)}

\* What is kept of a page are closed candles of it.
LEMMA KeptAreClosed ==
  ASSUME NEW s, NEW page, page \in Seq(Range(page)),
         NEW g, Keeps(g, s, page, Len(page))
  PROVE  g[1..Len(page)] \in Seq(ClosedRows(s, page))
<1> DEFINE m == Len(page)
           T == {n \in Nat : n <= m => g[1..n] \in Seq(ClosedRows(s, page))}
<1>0. m \in Nat
  OBVIOUS
<1>1. \A U \in SUBSET (1..m) :
        g[U] = IF U = {} THEN <<>> ELSE Kept(s, page, g[U \ {Max(U)}], Max(U))
  BY DEF Keeps
<1>2. 0 \in T
  <2>1. 1..0 = {} /\ 1..0 \in SUBSET (1..m)
    OBVIOUS
  <2>2. g[1..0] = <<>>
    BY <1>1, <2>1
  <2>3. g[1..0] \in Seq(ClosedRows(s, page))
    BY <2>2
  <2> QED
    BY <2>3
<1>3. ASSUME NEW n \in T PROVE n + 1 \in T
  <2> SUFFICES ASSUME n + 1 <= m PROVE g[1..(n + 1)] \in Seq(ClosedRows(s, page))
    OBVIOUS
  <2>0. n \in Nat /\ (n <= m => g[1..n] \in Seq(ClosedRows(s, page)))
    OBVIOUS
  <2>1. g[1..n] \in Seq(ClosedRows(s, page))
    <3>1. n <= m
      <4> HIDE DEF T, m
      <4> QED
        BY <1>0, <2>0
    <3> HIDE DEF T, m
    <3> QED
      BY ONLY <2>0, <3>1
  <2> HIDE DEF T, m
  <2>2. 1..(n + 1) \in SUBSET (1..m) /\ 1..(n + 1) # {} /\ n + 1 \in 1..(n + 1)
    <3>1. \A i \in 1..(n + 1) : i \in 1..m
      BY <1>0, <2>0
    <3>2. n + 1 \in 1..(n + 1)
      BY <2>0
    <3> QED
      BY <3>1, <3>2
  <2>3. Max(1..(n + 1)) \in 1..(n + 1) /\ \A i \in 1..(n + 1) : i <= Max(1..(n + 1))
    BY <1>0, <2>2, LastIndex
  <2>4. Max(1..(n + 1)) = n + 1
    BY <2>0, <2>2, <2>3
  <2>5. (1..(n + 1)) \ {n + 1} = 1..n
    BY <2>0
  <2>6. g[1..(n + 1)] = Kept(s, page, g[1..n], n + 1)
    BY <1>1, <2>2, <2>4, <2>5
  <2>7. Closed(s, page[n + 1]) => page[n + 1] \in ClosedRows(s, page)
    <3>1. n + 1 \in 1..Len(page)
      BY <1>0, <2>0 DEF m
    <3> QED
      BY <3>1 DEF ClosedRows, Range
  <2>8. ASSUME Closed(s, page[n + 1])
        PROVE  Accept(g[1..n], page[n + 1]) \in Seq(ClosedRows(s, page))
    <3>1. Append(g[1..n], page[n + 1]) \in Seq(ClosedRows(s, page))
      BY <2>1, <2>7, <2>8
    <3> QED
      BY <2>1, <3>1 DEF Accept
  <2> QED
    BY <2>1, <2>6, <2>8 DEF Kept
<1>4. T = Nat
  <2>1. T \in SUBSET Nat
    OBVIOUS
  <2> HIDE DEF T
  <2> QED
    BY <1>2, <1>3, <2>1, CountUp
<1> QED
  BY <1>0, <1>4

\* Every row of a fetch is over, and final if it was over when the answer was made.
LEMMA FetchedAreTaken ==
  ASSUME hour \in Nat, job.now \in Nat, job.asked \in 0..hour, NEW s \in Range(Series), NEW len \in Lens, NEW first \in Nat,
         NEW answer \in Fetched(s, len, first)
  PROVE  /\ answer.late \in BOOLEAN /\ answer.late => troubles < MaxTroubles
         /\ \E at \in job.asked..hour : \A row \in Range(answer.rows) : Taken(row, at)
<1>1. PICK late \in BOOLEAN, at \in job.asked..hour :
        /\ late => troubles < MaxTroubles
        /\ \E rows \in Answers(s, len, first, late, at) :
             answer = [late |-> late, rows |-> Parsed(s, rows)]
  BY DEF Fetched
<1>2. PICK rows \in Answers(s, len, first, late, at) :
        answer = [late |-> late, rows |-> Parsed(s, rows)]
  BY <1>1
<1> DEFINE page == IF Contains(KrakenSpot, s) THEN Front(rows) ELSE rows
           m == Len(page)
           g == CHOOSE f : Keeps(f, s, page, m)
<1>3. /\ page \in Seq(Range(page))
      /\ \A i \in 1..Len(page) : Closed(s, page[i]) => Taken(page[i], at)
  <2>1. at \in 0..hour
    OBVIOUS
  <2> QED
    BY <2>1, ClosedIsTaken
<1>4. Parsed(s, rows) =
        FoldLeft(LAMBDA kept, row : IF Closed(s, row) THEN Accept(kept, row) ELSE kept,
                 <<>>, page)
  BY DEF Parsed
<1> HIDE DEF page
<1>5. m \in Nat /\ DOMAIN page = 1..m
  BY <1>3
<1>6. Keeps(g, s, page, m)
  <2> HIDE DEF m
  <2> QED
    BY <1>5, KeepsExist
<1>7. Parsed(s, rows) = g[1..m]
  <2> HIDE DEF m
  <2> QED
    BY <1>4, <1>5 DEF FoldLeft, MapThenFoldSet, Keeps, Kept
<1> HIDE DEF g
<1>8. Parsed(s, rows) \in Seq(ClosedRows(s, page))
  BY <1>3, <1>6, <1>7, KeptAreClosed
<1>9. \A row \in Range(Parsed(s, rows)) : row \in ClosedRows(s, page)
  BY <1>8 DEF Range
<1>10. \A row \in ClosedRows(s, page) : Taken(row, at)
  BY <1>3, <1>5 DEF ClosedRows, Range
<1> QED
  BY <1>1, <1>2, <1>9, <1>10

-----------------------------------------------------------------------------
(* BarRecorder: the fetches of a poll or backfill.                         *)

Flattens(f, seqs, m) ==
  f = [i \in 1..m |-> IF i = 1 THEN seqs[i] ELSE f[i - 1] \o seqs[i]]

\* There is a function that puts the sequences together one by one.
LEMMA FlattensExist ==
  ASSUME NEW seqs, NEW m \in Nat
  PROVE  \E f : Flattens(f, seqs, m)
<1> DEFINE T == {n \in Nat : \E f : Flattens(f, seqs, n)}
<1>1. 0 \in T
  <2> DEFINE f == [i \in 1..0 |-> <<>>]
  <2>1. Flattens(f, seqs, 0)
    BY DEF Flattens
  <2> QED
    BY <2>1
<1>2. ASSUME NEW n \in T PROVE n + 1 \in T
  <2>1. n \in Nat
    OBVIOUS
  <2>2. PICK f : Flattens(f, seqs, n)
    OBVIOUS
  <2> DEFINE g == [i \in 1..(n + 1) |-> IF i = 1 THEN seqs[i] ELSE f[i - 1] \o seqs[i]]
  <2>3. ASSUME NEW i \in 1..n PROVE g[i] = f[i]
    <3>1. i \in 1..(n + 1)
      BY <2>1
    <3>2. f[i] = IF i = 1 THEN seqs[i] ELSE f[i - 1] \o seqs[i]
      BY <2>2 DEF Flattens
    <3> QED
      BY <3>1, <3>2
  <2>4. ASSUME NEW i \in 1..(n + 1)
        PROVE  g[i] = IF i = 1 THEN seqs[i] ELSE g[i - 1] \o seqs[i]
    <3>1. CASE i = 1
      BY <3>1
    <3>2. CASE i # 1
      <4>1. i - 1 \in 1..n
        BY <2>1, <3>2
      <4>2. g[i - 1] = f[i - 1]
        BY <2>3, <4>1
      <4> QED
        BY <3>2, <4>2
    <3> QED
      BY <3>1, <3>2
  <2>5. Flattens(g, seqs, n + 1)
    BY <2>4 DEF Flattens
  <2> HIDE DEF g
  <2> QED
    BY <2>1, <2>5
<1>3. T = Nat
  <2>1. T \in SUBSET Nat
    OBVIOUS
  <2> HIDE DEF T
  <2> QED
    BY <1>1, <1>2, <2>1, CountUp
<1> QED
  BY <1>3

\* Sequences put together are a sequence of what they have.
LEMMA Flat ==
  ASSUME NEW S, NEW seqs \in Seq(Seq(S))
  PROVE  FlattenSeq(seqs) \in Seq(S)
<1> DEFINE m == Len(seqs)
           f == CHOOSE g : Flattens(g, seqs, m)
<1>1. m \in Nat /\ \A i \in 1..m : seqs[i] \in Seq(S)
  OBVIOUS
<1>2. CASE m = 0
  <2>1. seqs = <<>>
    BY <1>2
  <2>2. FlattenSeq(seqs) = seqs
    BY <1>2 DEF FlattenSeq
  <2>3. <<>> \in Seq(S)
    OBVIOUS
  <2> QED
    BY ONLY <2>1, <2>2, <2>3
<1>3. CASE m # 0
  <2>1. FlattenSeq(seqs) = f[m]
    BY <1>3 DEF FlattenSeq, Flattens
  <2> HIDE DEF m
  <2>2. Flattens(f, seqs, m)
    BY <1>1, FlattensExist
  <2> HIDE DEF f
  <2>3. \A i \in 1..m : f[i] = IF i = 1 THEN seqs[i] ELSE f[i - 1] \o seqs[i]
    BY <2>2 DEF Flattens
  <2> DEFINE T == {n \in Nat : n + 1 <= m => f[n + 1] \in Seq(S)}
  <2>4. 0 \in T
    <3>1. 1 \in 1..m /\ 0 + 1 = 1
      BY <1>1, <1>3
    <3>2. f[0 + 1] \in Seq(S)
      BY <1>1, <2>3, <3>1
    <3> QED
      BY <3>2
  <2>5. ASSUME NEW n \in T PROVE n + 1 \in T
    <3>1. n \in Nat /\ (n + 1 <= m => f[n + 1] \in Seq(S))
      OBVIOUS
    <3> HIDE DEF T
    <3>2. ASSUME (n + 1) + 1 <= m PROVE f[(n + 1) + 1] \in Seq(S)
      <4>1. (n + 1) + 1 \in 1..m /\ (n + 1) + 1 # 1 /\ ((n + 1) + 1) - 1 = n + 1 /\ n + 1 <= m
        BY <1>1, <3>1, <3>2
      <4>2. f[(n + 1) + 1] = f[n + 1] \o seqs[(n + 1) + 1]
        BY <2>3, <4>1
      <4>3. f[n + 1] \in Seq(S) /\ seqs[(n + 1) + 1] \in Seq(S)
        BY <1>1, <3>1, <4>1
      <4> QED
        BY <4>2, <4>3
    <3> QED
      BY <3>1, <3>2 DEF T
  <2>6. T = Nat
    <3>1. T \in SUBSET Nat
      OBVIOUS
    <3> HIDE DEF T
    <3> QED
      BY <2>4, <2>5, <3>1, CountUp
  <2>7. m - 1 \in Nat /\ (m - 1) + 1 = m /\ m <= m
    BY <1>1, <1>3
  <2>8. f[(m - 1) + 1] \in Seq(S)
    BY <2>6, <2>7
  <2>9. f[m] \in Seq(S)
    BY <2>7, <2>8
  <2> QED
    BY <2>1, <2>9
<1> QED
  BY <1>2, <1>3

FetchOf == [series : Range(Series), len : Lens]

Jobs == {j \in [now : 0..hour, asked : 0..hour, left : Seq(FetchOf)] : j.now <= j.asked}

\* The symbols in their order.
LEMMA SeriesAre == Series \in Seq(Range(Series))
<1>1. /\ CoinbaseSpot \in Seq(Range(CoinbaseSpot)) /\ KrakenSpot \in Seq(Range(KrakenSpot))
  BY RecorderAssumption
<1>2. Series \in Seq(Range(CoinbaseSpot) \cup Range(KrakenSpot))
  BY <1>1 DEF Series
<1> QED
  BY <1>2 DEF Range

\* A poll is one of known series and lengths.
LEMMA PollIsJob ==
  ASSUME hour \in Nat
  PROVE  PollJob \in Jobs
<1> DEFINE each == [i \in DOMAIN Series |-> Fetches(Series[i], hour)]
<1>1. \A s \in Range(Series) : Fetches(s, hour) \in Seq(FetchOf)
  <2> TAKE s \in Range(Series)
  <2>1. [series |-> s, len |-> 1] \in FetchOf /\ [series |-> s, len |-> DayHours] \in FetchOf
    BY DEF FetchOf, Lens
  <2>2. \A x \in FetchOf : <<x>> \in Seq(FetchOf)
    OBVIOUS
  <2>3. \A p, q \in Seq(FetchOf) : p \o q \in Seq(FetchOf)
    OBVIOUS
  <2>4. <<>> \in Seq(FetchOf)
    OBVIOUS
  <2> QED
    BY <2>1, <2>2, <2>3, <2>4 DEF Fetches
<1>2. DOMAIN Series = 1..Len(Series) /\ Len(Series) \in Nat
      /\ \A i \in DOMAIN Series : Series[i] \in Range(Series)
  BY SeriesAre
<1>3. each \in Seq(Seq(FetchOf))
  BY <1>1, <1>2
<1> HIDE DEF each
<1>4. FlattenSeq(each) \in Seq(FetchOf)
  BY <1>3, Flat
<1>5. PollJob = [now |-> hour, asked |-> hour, left |-> FlattenSeq(each)]
  BY DEF PollJob, each
<1> QED
  BY <1>4, <1>5 DEF Jobs

\* So is the backfill.
LEMMA BackfillIsJob ==
  ASSUME hour \in Nat
  PROVE  BackfillJob \in Jobs
<1> DEFINE each == [i \in DOMAIN Series |-> <<[series |-> Series[i], len |-> 1],
                                              [series |-> Series[i], len |-> DayHours]>>]
<1>1. \A s \in Range(Series) : <<[series |-> s, len |-> 1],
                                 [series |-> s, len |-> DayHours]>> \in Seq(FetchOf)
  <2> TAKE s \in Range(Series)
  <2>1. [series |-> s, len |-> 1] \in FetchOf /\ [series |-> s, len |-> DayHours] \in FetchOf
    BY DEF FetchOf, Lens
  <2>2. \A x, y \in FetchOf : <<x, y>> \in Seq(FetchOf)
    OBVIOUS
  <2> QED
    BY <2>1, <2>2
<1>2. DOMAIN Series = 1..Len(Series) /\ Len(Series) \in Nat
      /\ \A i \in DOMAIN Series : Series[i] \in Range(Series)
  BY SeriesAre
<1>3. each \in Seq(Seq(FetchOf))
  BY <1>1, <1>2
<1> HIDE DEF each
<1>4. FlattenSeq(each) \in Seq(FetchOf)
  BY <1>3, Flat
<1>5. BackfillJob = [now |-> hour, asked |-> hour, left |-> FlattenSeq(each)]
  BY DEF BackfillJob, each
<1> QED
  BY <1>4, <1>5 DEF Jobs

-----------------------------------------------------------------------------
(* BarRecorder: what every state keeps.                                    *)

\* Types, that a backfill has its job, and that every stored candle's interval is over.
RecInv ==
  /\ hour \in 0..MaxHour /\ closing \in [1..hour -> Closes]
  /\ phase \in {"down", "backfill", "run"} /\ marker \in BOOLEAN
  /\ wake \in 0..(MaxHour + 1) /\ troubles \in 0..MaxTroubles
  /\ job = Idle \/ job \in Jobs
  /\ phase = "backfill" => job \in Jobs
  /\ \A row \in stored : Over(row)
  /\ cycle \in [day : 0..hour, bar : 0..hour]
  /\ vouched \in 0..hour

\* What a fetch does to the store and the job.
LEMMA FetchKeeps ==
  ASSUME RecInv, job \in Jobs, job.left # <<>>, NEW first \in Nat,
         NEW answer \in Fetched(Head(job.left).series, Head(job.left).len, first),
         NEW rows \in SUBSET Range(answer.rows),
         stored' = stored \cup rows, troubles' = troubles + (IF answer.late THEN 1 ELSE 0),
         job' = [job EXCEPT !.left = Tail(@), !.asked = hour],
         UNCHANGED <<hour, closing, phase, wake, marker, cycle, vouched>>
  PROVE  RecInv'
<1>1. hour \in Nat /\ closing \in [1..hour -> Closes] /\ troubles \in 0..MaxTroubles
      /\ MaxTroubles \in Nat
  BY RecorderAssumption DEF RecInv
<1>2. /\ job.now \in 0..hour /\ job.asked \in 0..hour /\ job.left \in Seq(FetchOf)
      /\ job = [now |-> job.now, asked |-> job.asked, left |-> job.left]
  BY DEF Jobs
<1>3. Head(job.left) \in FetchOf /\ Tail(job.left) \in Seq(FetchOf)
  BY <1>2
<1>4. Head(job.left).series \in Range(Series) /\ Head(job.left).len \in Lens
  BY <1>3 DEF FetchOf
<1>5. /\ answer.late \in BOOLEAN /\ answer.late => troubles < MaxTroubles
      /\ \A row \in Range(answer.rows) : Over(row)
  <2>1. job.now \in Nat
    BY <1>2
  <2> QED
    BY <1>1, <1>2, <1>4, <2>1, FetchedAreTaken DEF Taken
<1>6. \A row \in stored' : Over(row)'
  <2> TAKE row \in stored'
  <2>1. Over(row)
    BY <1>5 DEF RecInv
  <2> QED
    BY <2>1 DEF Over
<1>7. troubles' \in 0..MaxTroubles
  <2>1. CASE answer.late
    <3>1. troubles' = troubles + 1 /\ troubles < MaxTroubles
      BY <1>5, <2>1
    <3> QED
      BY <1>1, <3>1
  <2>2. CASE ~ answer.late
    <3>1. troubles' = troubles + 0
      BY <2>2
    <3> QED
      BY <1>1, <3>1
  <2> QED
    BY <2>1, <2>2
<1>8. job' = [now |-> job.now, asked |-> hour, left |-> Tail(job.left)]
  BY <1>2
<1>9. job' \in Jobs'
  <2>1. hour \in 0..hour /\ job.now <= hour /\ hour' = hour
    BY <1>1, <1>2
  <2>2. [now |-> job.now, asked |-> hour, left |-> Tail(job.left)] \in Jobs
    BY <1>2, <1>3, <2>1 DEF Jobs
  <2>3. Jobs' = Jobs
    BY <2>1 DEF Jobs
  <2> QED
    BY <1>8, <2>2, <2>3
<1> QED
  BY <1>6, <1>7, <1>9 DEF RecInv

\* The first bucket of a page.
LEMMA PageStartIs ==
  ASSUME RecInv, job \in Jobs, NEW f \in FetchOf
  PROVE  PageStart(f) \in Nat
<1>1. CASE Contains(KrakenSpot, f.series)
  BY <1>1 DEF PageStart
<1>2. CASE ~ Contains(KrakenSpot, f.series)
  <2> DEFINE n == (job.now \div f.len) - PageRows + 1
  <2>1. job.now \in Nat /\ f.len \in Nat \ {0} /\ PageRows \in Nat
    BY RecorderAssumption, LensAre DEF Jobs, FetchOf
  <2>2. n \in Int
    BY <2>1
  <2>3. PageStart(f) = Max({0, n})
    BY <1>2 DEF PageStart
  <2> HIDE DEF n
  <2>4. CASE n <= 0
    <3>1. {0, n} \in SUBSET (n..0) /\ {0, n} # {} /\ 0 \in Int /\ 0 \in {0, n}
      BY <2>2, <2>4
    <3>2. Max({0, n}) \in {0, n} /\ 0 <= Max({0, n})
      BY ONLY <2>2, <3>1, Extremes
    <3> QED
      BY <2>2, <2>3, <3>2
  <2>5. CASE ~ (n <= 0)
    <3>1. {0, n} \in SUBSET (0..n) /\ {0, n} # {}
      BY <2>2, <2>5
    <3>2. Max({0, n}) \in {0, n}
      BY <2>2, <3>1, Extremes
    <3> QED
      BY <2>2, <2>3, <2>5, <3>2
  <2> QED
    BY <2>4, <2>5
<1> QED
  BY <1>1, <1>2

\* The buckets of the stored candles of a series lie before the present hour.
LEMMA TimesAre ==
  ASSUME RecInv, NEW s, NEW len \in Lens
  PROVE  /\ Times(s, len) \in SUBSET (0..hour)
         /\ \A b \in Times(s, len) : b \in Nat /\ (b + 1) * len <= hour /\ b < hour
<1>1. ASSUME NEW b \in Times(s, len)
      PROVE  b \in Nat /\ (b + 1) * len <= hour /\ b < hour
  <2>1. PICK row \in stored : row.len = len /\ row.bucket = b
    BY DEF Times
  <2>2. b \in Nat /\ (b + 1) * len <= hour /\ len \in Nat \ {0} /\ hour \in Nat
    BY <2>1, LensAre, RecorderAssumption DEF RecInv, Over
  <2>3. (b + 1) * 1 <= (b + 1) * len
    <3>1. 1 * (b + 1) <= len * (b + 1)
      BY <2>2, MoreHours
    <3>2. 1 * (b + 1) = (b + 1) * 1 /\ len * (b + 1) = (b + 1) * len
      BY <2>2
    <3> QED
      BY <3>1, <3>2
  <2>4. b + 1 <= hour
    <3>1. (b + 1) * len \in Int /\ (b + 1) * 1 = b + 1
      BY <2>2
    <3> QED
      BY <2>2, <2>3, <3>1
  <2> QED
    BY <2>2, <2>4
<1>2. hour \in Nat
  BY RecorderAssumption DEF RecInv
<1> QED
  BY <1>1, <1>2

\* At first nothing is stored.
LEMMA RecBegins == BRInit => RecInv
<1> SUFFICES ASSUME BRInit PROVE RecInv
  OBVIOUS
<1>1. DayHours \in Nat /\ MaxHour \in Nat /\ DayHours <= MaxHour /\ MaxTroubles \in Nat
  BY RecorderAssumption
<1>2. hour \in 0..MaxHour /\ closing \in [1..hour -> Closes] /\ job = Idle /\ stored = {}
  BY <1>1 DEF BRInit
<1>3. phase = "down" /\ marker \in BOOLEAN /\ wake \in 0..(MaxHour + 1)
      /\ troubles \in 0..MaxTroubles
  <2>1. 0 \in 0..(MaxHour + 1) /\ 0 \in 0..MaxTroubles
    BY <1>1
  <2> QED
    BY <2>1 DEF BRInit
<1>4. cycle \in [day : 0..hour, bar : 0..hour]
  <2>1. 0 \in 0..hour /\ cycle = [day |-> 0, bar |-> 0]
    BY <1>1 DEF BRInit
  <2> QED
    BY <2>1
<1>5. vouched \in 0..hour
  BY <1>1 DEF BRInit
<1> QED
  BY <1>2, <1>3, <1>4, <1>5 DEF RecInv

\* The day of an hour.
LEMMA DayIs ==
  ASSUME hour \in Nat
  PROVE  hour \div DayHours \in 0..hour
<1>1. /\ DayHours \in Nat \ {0} /\ 1 <= DayHours
  BY RecorderAssumption
<1> DEFINE q == hour \div DayHours
<1>2. q \in Nat /\ q * DayHours <= hour
  BY <1>1, BucketOf
<1> HIDE DEF q
<1>3. 1 * q <= DayHours * q
  BY <1>1, <1>2, MoreHours
<1>4. 1 * q = q /\ DayHours * q = q * DayHours /\ q * DayHours \in Int
  BY <1>1, <1>2
<1>5. q <= hour
  BY <1>1, <1>2, <1>3, <1>4
<1>6. q \in 0..hour
  BY <1>1, <1>2, <1>5
<1> QED
  BY <1>6 DEF q

\* Every step keeps it.
LEMMA RecGoesOn == RecInv /\ [BRNext]_BRvars => RecInv'
<1> SUFFICES ASSUME RecInv, [BRNext]_BRvars PROVE RecInv'
  OBVIOUS
<1>1. /\ hour \in Nat /\ hour <= MaxHour /\ closing \in [1..hour -> Closes]
      /\ MaxHour \in Nat /\ MaxTroubles \in Nat /\ troubles \in 0..MaxTroubles
  BY RecorderAssumption DEF RecInv
<1> DEFINE Calm == UNCHANGED <<hour, closing, stored, cycle, vouched>>
<1>2. ASSUME Calm PROVE /\ \A row \in stored' : Over(row)'
                        /\ cycle' \in [day : 0..hour', bar : 0..hour'] /\ Jobs' = Jobs
                        /\ vouched' \in 0..hour'
  <2>1. \A row \in stored' : Over(row)'
    BY <1>2 DEF RecInv, Over
  <2> QED
    BY <1>2, <2>1 DEF RecInv, Jobs
<1>3. CASE UNCHANGED BRvars
  BY <1>2, <1>3 DEF BRvars, RecInv
<1>4. CASE HourPasses
  <2>1. /\ hour < MaxHour /\ hour' = hour + 1
        /\ troubles' \in 0..MaxTroubles
        /\ UNCHANGED <<phase, job, wake, marker, stored, cycle, vouched>>
    <3>1. /\ troubles' = troubles + (IF job = Idle THEN 0 ELSE 1) /\ troubles' <= MaxTroubles
      BY <1>4 DEF HourPasses
    <3> QED
      BY <1>1, <1>4, <3>1 DEF HourPasses
  <2>2. PICK close \in Closes : closing' = Append(closing, close)
    BY <1>4 DEF HourPasses
  <2>3. closing' \in [1..hour' -> Closes]
    <3>1. closing \in Seq(Closes) /\ Len(closing) = hour
      BY <1>1
    <3>2. closing' \in Seq(Closes) /\ Len(closing') = hour + 1
      BY <2>2, <3>1
    <3> QED
      BY <2>1, <3>2
  <2>4. \A row \in stored' : Over(row)'
    <3> TAKE row \in stored'
    <3>1. Over(row)
      BY <2>1 DEF RecInv
    <3>2. (row.bucket + 1) * row.len \in Int
      BY <3>1, LensAre DEF Over
    <3> QED
      BY <1>1, <2>1, <3>1, <3>2 DEF Over
  <2>5. \A x : x \in 0..hour => x \in 0..hour'
    BY <1>1, <2>1
  <2>6. cycle' \in [day : 0..hour', bar : 0..hour'] /\ vouched' \in 0..hour'
    BY <2>1, <2>5 DEF RecInv
  <2>7. job \in Jobs => job' \in Jobs'
    BY <2>1, <2>5 DEF Jobs
  <2>8. hour' \in 0..MaxHour
    BY <1>1, <2>1
  <2> QED
    BY <2>1, <2>3, <2>4, <2>6, <2>7, <2>8 DEF RecInv
<1>5. CASE Start
  <2>1. Calm /\ UNCHANGED <<marker, troubles>> /\ phase = "down"
    BY <1>5 DEF Start
  <2>2. CASE marker
    <3>1. phase' = "run" /\ wake' \in {hour, hour + 1} /\ UNCHANGED job
      BY <1>5, <2>2 DEF Start, NextMinute5
    <3>2. wake' \in 0..(MaxHour + 1)
      BY <1>1, <3>1
    <3> QED
      BY <1>2, <2>1, <3>1, <3>2 DEF RecInv
  <2>3. CASE ~ marker
    <3>1. phase' = "backfill" /\ job' = BackfillJob /\ UNCHANGED wake
      BY <1>5, <2>3 DEF Start
    <3>2. BackfillJob \in Jobs
      BY <1>1, BackfillIsJob
    <3> QED
      BY <1>2, <2>1, <3>1, <3>2 DEF RecInv
  <2> QED
    BY <2>2, <2>3
<1>6. CASE BackfillFetch
  <2>1. job \in Jobs /\ job.left # <<>>
    BY <1>6 DEF BackfillFetch, RecInv
  <2>2. PICK answer \in Fetched(Head(job.left).series, Head(job.left).len, 0) :
          /\ stored' = stored \cup Range(answer.rows)
          /\ troubles' = troubles + (IF answer.late THEN 1 ELSE 0)
    BY <1>6 DEF BackfillFetch
  <2>3. /\ job' = [job EXCEPT !.left = Tail(@), !.asked = hour]
        /\ UNCHANGED <<hour, closing, phase, wake, marker, cycle, vouched>>
    BY <1>6 DEF BackfillFetch
  <2>4. 0 \in Nat /\ Range(answer.rows) \in SUBSET Range(answer.rows)
    OBVIOUS
  <2> QED
    BY <2>1, <2>2, <2>3, <2>4, FetchKeeps
<1>7. CASE BackfillEnd
  <2>1. /\ Calm /\ UNCHANGED troubles /\ marker' = TRUE /\ phase' = "run" /\ job' = Idle
        /\ wake' \in {hour, hour + 1}
    BY <1>7 DEF BackfillEnd, NextMinute5
  <2>2. wake' \in 0..(MaxHour + 1)
    BY <1>1, <2>1
  <2> QED
    BY <1>2, <2>1, <2>2 DEF RecInv
<1>8. CASE PollBegin
  <2>1. Calm /\ UNCHANGED <<phase, wake, marker, troubles>> /\ job' = PollJob
    BY <1>8 DEF PollBegin
  <2>2. PollJob \in Jobs
    BY <1>1, PollIsJob
  <2> QED
    BY <1>2, <2>1, <2>2 DEF RecInv
<1>9. CASE PollFetch
  <2>1. job \in Jobs /\ job.left # <<>>
    BY <1>9 DEF PollFetch, RecInv
  <2> DEFINE f == Head(job.left)
  <2>2. f \in FetchOf
    BY <2>1 DEF Jobs
  <2>3. PageStart(f) \in Nat
    <3> HIDE DEF f
    <3> QED
      BY <2>1, <2>2, PageStartIs
  <2>4. PICK answer \in Fetched(f.series, f.len, PageStart(f)) :
          /\ stored' = stored \cup LatestCompleted(answer.rows, job.now)
          /\ troubles' = troubles + (IF answer.late THEN 1 ELSE 0)
    BY <1>9 DEF PollFetch
  <2>5. /\ job' = [job EXCEPT !.left = Tail(@), !.asked = hour]
        /\ UNCHANGED <<hour, closing, phase, wake, marker, cycle, vouched>>
    BY <1>9 DEF PollFetch
  <2>6. LatestCompleted(answer.rows, job.now) \in SUBSET Range(answer.rows)
    BY DEF LatestCompleted
  <2> QED
    BY <2>1, <2>3, <2>4, <2>5, <2>6, FetchKeeps
<1>10. CASE PollEnd
  <2>1. /\ Calm /\ UNCHANGED <<troubles, marker, phase>> /\ phase = "run" /\ job' = Idle
        /\ wake' \in {hour, hour + 1}
    BY <1>10 DEF PollEnd, NextMinute5
  <2>2. wake' \in 0..(MaxHour + 1)
    BY <1>1, <2>1
  <2> QED
    BY <1>2, <2>1, <2>2 DEF RecInv
<1>11. CASE Fail
  <2>1. /\ Calm /\ UNCHANGED <<wake, marker>> /\ phase' = "down" /\ job' = Idle
        /\ troubles < MaxTroubles /\ troubles' = troubles + 1
    BY <1>11 DEF Fail
  <2>2. troubles' \in 0..MaxTroubles
    BY <1>1, <2>1
  <2> QED
    BY <1>2, <2>1, <2>2 DEF RecInv
<1>12. CASE Cycle
  <2>1. /\ UNCHANGED <<hour, closing, phase, job, wake, marker, stored, vouched, troubles>>
        /\ cycle' = [day |-> hour \div DayHours, bar |-> Max(CommonDays)] /\ CommonDays # {}
    BY <1>12 DEF Cycle
  <2>2. hour \div DayHours \in 0..hour
    BY <1>1, DayIs
  <2>3. Max(CommonDays) \in 0..hour
    <3>1. CommonDays \in SUBSET (0..hour)
      BY TimesAre DEF CommonDays, Lens
    <3>2. hour \in Int /\ 0 \in Int /\ CommonDays # {}
      BY <1>1, <2>1
    <3>3. Max(CommonDays) \in CommonDays
      BY ONLY <3>1, <3>2, Extremes
    <3> QED
      BY <3>1, <3>3
  <2>4. cycle' \in [day : 0..hour, bar : 0..hour]
    BY <2>1, <2>2, <2>3
  <2>5. \A row \in stored' : Over(row)'
    BY <2>1 DEF RecInv, Over
  <2>6. Jobs' = Jobs
    BY <2>1 DEF Jobs
  <2> QED
    BY <2>1, <2>4, <2>5, <2>6 DEF RecInv
<1>13. CASE Report
  <2>1. /\ UNCHANGED <<hour, closing, phase, job, wake, marker, stored, cycle, troubles>>
        /\ vouched' = hour \div DayHours
    BY <1>13 DEF Report
  <2>2. vouched' \in 0..hour
    BY <1>1, <2>1, DayIs
  <2>3. \A row \in stored' : Over(row)'
    BY <2>1 DEF RecInv, Over
  <2>4. Jobs' = Jobs
    BY <2>1 DEF Jobs
  <2> QED
    BY <2>1, <2>2, <2>3, <2>4 DEF RecInv
<1> QED
  BY <1>3, <1>4, <1>5, <1>6, <1>7, <1>8, <1>9, <1>10, <1>11, <1>12, <1>13
  DEF BRNext

\* Every reachable state keeps it: whatever was stored, its interval is over (though
\* a backfill's last candle may not be final), and a backfill has its job.
THEOREM RecInvariant == BRSpec => []RecInv
<1> QED
  BY RecBegins, RecGoesOn, PTL DEF BRSpec

\* Every variable has its type.
THEOREM RecTypeCorrect == BRSpec => []BRTypeOK
<1>1. RecInv => BRTypeOK
  <2> SUFFICES ASSUME RecInv PROVE BRTypeOK
    OBVIOUS
  <2>1. /\ \A row \in stored : /\ row.series \in Range(Series) /\ row.len \in Lens
                               /\ (row.bucket + 1) * row.len <= hour
    BY DEF RecInv, Over
  <2>2. job = Idle \/ (/\ job.now \in 0..hour /\ job.asked \in job.now..hour
                       /\ \A f \in Range(job.left) : f.len \in Lens)
    <3>1. ASSUME job \in Jobs
          PROVE  /\ job.now \in 0..hour /\ job.asked \in job.now..hour
                 /\ \A f \in Range(job.left) : f.len \in Lens
      <4>1. /\ job.now \in 0..hour /\ job.asked \in 0..hour /\ job.now <= job.asked
            /\ job.left \in Seq(FetchOf)
        BY <3>1 DEF Jobs
      <4>2. \A f \in Range(job.left) : f \in FetchOf
        BY <4>1 DEF Range
      <4> QED
        BY <4>1, <4>2 DEF FetchOf
    <3> QED
      BY <3>1 DEF RecInv
  <2>3. cycle.day \in 0..hour /\ cycle.bar \in 0..hour
    BY DEF RecInv
  <2> QED
    BY <2>1, <2>2, <2>3 DEF BRTypeOK, RecInv
<1> QED
  BY <1>1, RecInvariant, PTL

\* What an hourly poll stores is what the exchange says when the interval is over,
\* whenever between request and parsing the exchange made its answer, and however
\* many hours the poll takes (_latest_completed with the now of its begin).
THEOREM PolledAreFinal == BRSpec => PolledFinal
<1> DEFINE Stores == phase = "run" => \A row \in stored' \ stored : Final(row)
<1>1. RecInv /\ [BRNext]_BRvars => [Stores]_BRvars
  <2> SUFFICES ASSUME RecInv, BRNext, phase = "run", NEW row \in stored', row \notin stored
               PROVE  Final(row)
    OBVIOUS
  <2>1. PollFetch
    BY DEF BRNext, HourPasses, Start, BackfillFetch, BackfillEnd, PollBegin, PollEnd,
           Fail, Cycle, Report
  <2> DEFINE f == Head(job.left)
  <2>2. /\ job \in Jobs /\ job.left # <<>>
    BY <2>1 DEF PollFetch, RecInv
  <2>3. /\ job.now \in Nat /\ job.asked \in 0..hour /\ job.now <= job.asked /\ f \in FetchOf
        /\ hour \in Nat
    BY <2>2, RecorderAssumption DEF Jobs, RecInv
  <2>4. PageStart(f) \in Nat
    <3> HIDE DEF f
    <3> QED
      BY <2>2, <2>3, PageStartIs
  <2>5. PICK answer \in Fetched(f.series, f.len, PageStart(f)) :
          stored' = stored \cup LatestCompleted(answer.rows, job.now)
    BY <2>1 DEF PollFetch
  <2> HIDE DEF f
  <2>6. f.series \in Range(Series) /\ f.len \in Lens
    BY <2>3 DEF FetchOf
  <2>7. PICK at \in job.asked..hour : \A r \in Range(answer.rows) : Taken(r, at)
    BY <2>3, <2>4, <2>6, FetchedAreTaken
  <2>8. row \in Range(answer.rows) /\ row.bucket < job.now \div row.len
    BY <2>5 DEF LatestCompleted
  <2>9. Taken(row, at)
    BY <2>7, <2>8
  <2>10. row.len \in Nat \ {0} /\ row.bucket \in Nat
    BY <2>9, LensAre DEF Taken, Over
  <2>11. at \in Nat /\ job.now <= at
    BY <2>3
  <2>12. /\ job.now \div row.len <= at \div row.len
         /\ job.now \div row.len \in Nat /\ at \div row.len \in Nat
    BY <2>3, <2>10, <2>11, LaterBucket, BucketOf
  <2>13. row.bucket < at \div row.len
    BY <2>8, <2>10, <2>12
  <2> QED
    BY <2>9, <2>13 DEF Taken
<1> HIDE DEF Stores
<1>2. BRSpec => [][Stores]_BRvars
  BY <1>1, RecInvariant, PTL DEF BRSpec
<1> QED
  BY <1>2 DEF PolledFinal, Stores

-----------------------------------------------------------------------------
(* BarRecorder: the report and the engine.                                 *)

\* The last candle of a clean series is that of the last interval but one, or later.
LEMMA CleanIsFresh ==
  ASSUME RecInv, NEW len \in Lens, Clean(len), NEW s \in Range(Series)
  PROVE  LET times == Times(s, len) IN
         /\ times # {} /\ times \in SUBSET (0..hour) /\ Missing(times) = {}
         /\ Max(times) \in times /\ \A b \in times : b <= Max(times)
         /\ Min(times) \in times /\ \A b \in times : Min(times) <= b
         /\ hour < (Max(times) + 2) * len
<1> DEFINE times == Times(s, len)
<1>1. /\ times # {} /\ Missing(times) = {} /\ ~ IsStale(Max(times), len)
  BY DEF Clean
<1>2. times \in SUBSET (0..hour) /\ hour \in Nat /\ 0 \in Int /\ hour \in Int /\ len \in Nat
  BY TimesAre, LensAre, RecorderAssumption DEF RecInv
<1> HIDE DEF times
<1>3. /\ Max(times) \in times /\ \A b \in times : b <= Max(times)
      /\ Min(times) \in times /\ \A b \in times : Min(times) <= b
  BY ONLY <1>1, <1>2, Extremes
<1> DEFINE m == Max(times)
<1>4. m \in Int /\ ~ (hour - m * len >= 2 * len)
  <2>1. m \in 0..hour
    BY <1>2, <1>3
  <2> HIDE DEF m
  <2>2. ~ IsStale(m, len)
    BY <1>1 DEF m
  <2> QED
    BY <1>2, <2>1, <2>2 DEF IsStale
<1> HIDE DEF m
<1>5. hour < (m + 2) * len
  <2>1. (m + 2) * len = m * len + 2 * len /\ m * len \in Int /\ 2 * len \in Int
    BY <1>2, <1>4
  <2> QED
    BY <1>2, <1>4, <2>1
<1> QED
  BY <1>1, <1>2, <1>3, <1>5 DEF m, times

\* A report without a gap, a stale or a missing series (build_daily_report) means
\* that every candle since the first stored one is there but for the last interval.
THEOREM CleanIsComplete == BRSpec => []CleanMeansComplete
<1>1. RecInv => CleanMeansComplete
  <2> SUFFICES ASSUME RecInv, NEW len \in Lens, Clean(len), NEW s \in Range(Series),
                      NEW b \in 0..hour, b >= Min(Times(s, len)), (b + 2) * len <= hour,
                      b \notin Times(s, len)
               PROVE  FALSE
    BY DEF CleanMeansComplete
  <2> DEFINE times == Times(s, len)
  <2>1. /\ times # {} /\ times \in SUBSET (0..hour) /\ Missing(times) = {}
        /\ Max(times) \in times /\ \A t \in times : t <= Max(times)
        /\ Min(times) \in times /\ \A t \in times : Min(times) <= t
        /\ hour < (Max(times) + 2) * len
    BY CleanIsFresh
  <2>2. hour \in Nat /\ len \in Nat /\ b \in Nat /\ b \notin times /\ b >= Min(times)
    BY LensAre, RecorderAssumption DEF RecInv
  <2> HIDE DEF times
  <2>3. Min(times) \in Nat /\ Max(times) \in Nat /\ Min(times) < b
    <3>1. Min(times) \in 0..hour /\ Max(times) \in 0..hour /\ Min(times) # b
      BY <2>1, <2>2
    <3> QED
      BY ONLY <2>2, <3>1
  <2>4. b < Max(times)
    <3> DEFINE m == Max(times)
    <3>1. m \in Nat
      BY <2>3
    <3> HIDE DEF m
    <3>2. (b + 2) * len \in Int /\ (m + 2) * len \in Int
      BY <2>2, <3>1
    <3>3. (b + 2) * len < (m + 2) * len
      BY <2>1, <2>2, <3>2 DEF m
    <3>4. b + 2 < m + 2
      BY <2>2, <3>1, <3>3, FewerHours
    <3>5. b < m
      BY <2>2, <3>1, <3>4
    <3> QED
      BY <3>5 DEF m
  <2> DEFINE before == {t \in times : t < b}
             after == {t \in times : b < t}
             p == Max(before)
             c == Min(after)
  <2>5. /\ before \in SUBSET (0..hour) /\ Min(times) \in before
        /\ after \in SUBSET (0..hour) /\ Max(times) \in after
    BY <2>1, <2>3, <2>4
  <2>6. /\ p \in before /\ \A t \in before : t <= p
        /\ c \in after /\ \A t \in after : c <= t
    <3>1. hour \in Int /\ 0 \in Int /\ before # {} /\ after # {}
      BY <2>2, <2>5
    <3> HIDE DEF before, after
    <3> QED
      BY ONLY <2>5, <3>1, Extremes DEF p, c
  <2> HIDE DEF p, c
  <2>7. p \in times /\ c \in times /\ p < b /\ b < c
    BY <2>6
  <2>8. \A t \in times : t <= p \/ c <= t
    <3> TAKE t \in times
    <3>1. t < b \/ b < t
      BY <2>1, <2>2
    <3> QED
      BY <2>6, <3>1
  <2>9. b \in Min(times)..Max(times)
    BY <2>2, <2>3, <2>4
  <2>10. b \in Missing(times)
    BY <2>2, <2>7, <2>8, <2>9 DEF Missing
  <2> QED
    BY <2>1, <2>10
<1> QED
  BY <1>1, RecInvariant, PTL

\* What a clean report has vouched for stays in the files.
Vouched == vouched = 0 \/ vouched - 1 \in CommonDays

\* The symbols of Coinbase are recorded.
LEMMA CoinbaseIsRecorded ==
  /\ \A s \in Range(CoinbaseSpot) : s \in Range(Series)
  /\ Head(CoinbaseSpot) \in Range(CoinbaseSpot)
<1>1. CoinbaseSpot \in Seq(Range(CoinbaseSpot)) /\ KrakenSpot \in Seq(Range(KrakenSpot))
      /\ CoinbaseSpot # <<>>
  BY RecorderAssumption
<1>2. ASSUME NEW s \in Range(CoinbaseSpot) PROVE s \in Range(Series)
  <2>1. PICK i \in 1..Len(CoinbaseSpot) : CoinbaseSpot[i] = s
    BY <1>1 DEF Range
  <2>2. i \in DOMAIN Series /\ Series[i] = s
    BY <1>1, <2>1 DEF Series
  <2> QED
    BY <2>2 DEF Range
<1> QED
  BY <1>1, <1>2

\* No day that is not over is in the files.
LEMMA DaysAreOver ==
  ASSUME RecInv, NEW s, NEW t \in Times(s, DayHours)
  PROVE  t \in Nat /\ t <= (hour \div DayHours) - 1
<1> DEFINE day == hour \div DayHours
<1>1. DayHours \in Nat \ {0} /\ DayHours \in Lens /\ hour \in Nat
  BY RecorderAssumption DEF Lens, RecInv
<1>2. day \in Nat /\ hour < (day + 1) * DayHours
  BY <1>1, BucketOf
<1>3. t \in Nat /\ (t + 1) * DayHours <= hour
  BY <1>1, TimesAre
<1> HIDE DEF day
<1>4. (t + 1) * DayHours < (day + 1) * DayHours
  <2>1. (t + 1) * DayHours \in Int /\ (day + 1) * DayHours \in Int
    BY <1>1, <1>2, <1>3
  <2> QED
    BY <1>1, <1>2, <1>3, <2>1
<1>5. t + 1 < day + 1
  BY <1>1, <1>2, <1>3, <1>4, FewerHours
<1> QED
  BY <1>2, <1>3, <1>5 DEF day

\* A clean report has seen yesterday's candle of every symbol.
LEMMA ReportHasSeen ==
  ASSUME RecInv, Clean(DayHours)
  PROVE  (hour \div DayHours) - 1 \in CommonDays
<1> DEFINE day == hour \div DayHours
<1>1. DayHours \in Nat \ {0} /\ DayHours \in Lens /\ hour \in Nat
  BY RecorderAssumption DEF Lens, RecInv
<1>2. day \in Nat /\ day * DayHours <= hour
  BY <1>1, BucketOf
<1> HIDE DEF day
<1>3. ASSUME NEW s \in Range(CoinbaseSpot) PROVE day - 1 \in Times(s, DayHours)
  <2> DEFINE times == Times(s, DayHours)
             m == Max(times)
  <2>1. m \in times /\ hour < (m + 2) * DayHours
    BY <1>1, <1>3, CoinbaseIsRecorded, CleanIsFresh
  <2>2. m \in Nat /\ m <= day - 1
    BY <2>1, DaysAreOver DEF day
  <2> HIDE DEF m
  <2>3. day * DayHours < (m + 2) * DayHours
    <3>1. day * DayHours \in Int /\ (m + 2) * DayHours \in Int
      BY <1>1, <1>2, <2>2
    <3> QED
      BY <1>1, <1>2, <2>1, <3>1
  <2>4. day < m + 2
    BY <1>1, <1>2, <2>2, <2>3, FewerHours
  <2>5. m = day - 1
    BY <1>2, <2>2, <2>4
  <2> QED
    BY <2>1, <2>5
<1> QED
  BY <1>3, CoinbaseIsRecorded DEF CommonDays, day

\* Whatever else is stored, what was vouched for is.
LEMMA VouchedStays == RecInv /\ Vouched /\ [BRNext]_BRvars => Vouched'
<1> SUFFICES ASSUME RecInv, Vouched, [BRNext]_BRvars PROVE Vouched'
  OBVIOUS
<1>1. stored \subseteq stored'
  BY DEF BRNext, BRvars, HourPasses, Start, BackfillFetch, BackfillEnd, PollBegin,
         PollFetch, PollEnd, Fail, Cycle, Report
<1>2. CommonDays \subseteq CommonDays'
  <2>1. \A s : Times(s, DayHours) \subseteq Times(s, DayHours)'
    BY <1>1 DEF Times
  <2> QED
    BY <2>1 DEF CommonDays
<1>3. CASE Report
  BY <1>2, <1>3, ReportHasSeen DEF Report, Vouched
<1>4. CASE ~ Report
  <2>1. vouched' = vouched
    BY <1>4 DEF BRNext, BRvars, HourPasses, Start, BackfillFetch, BackfillEnd, PollBegin,
                PollFetch, PollEnd, Fail, Cycle
  <2> QED
    BY <1>2, <2>1 DEF Vouched
<1> QED
  BY <1>3, <1>4

\* After a clean report the cycle of its day uses yesterday's candle and a later one
\* none that is older, whatever the recorder does meanwhile; and no cycle uses the
\* candle of a day that is not over (daily_bars, build_daily_report).
THEOREM CycleHeedsReport == BRSpec => CycleAfterReport
<1> DEFINE Heeds == cycle' # cycle => cycle'.bar \in (vouched - 1)..(cycle'.day - 1)
<1>1. RecInv /\ Vouched /\ [BRNext]_BRvars => [Heeds]_BRvars
  <2> SUFFICES ASSUME RecInv, Vouched, BRNext, cycle' # cycle
               PROVE  cycle'.bar \in (vouched - 1)..(cycle'.day - 1)
    OBVIOUS
  <2>1. Cycle
    BY DEF BRNext, HourPasses, Start, BackfillFetch, BackfillEnd, PollBegin, PollFetch,
           PollEnd, Fail, Report
  <2> DEFINE day == hour \div DayHours
             bar == Max(CommonDays)
  <2>2. CommonDays # {} /\ cycle' = [day |-> day, bar |-> bar]
    BY <2>1 DEF Cycle
  <2>3. hour \in Nat /\ 0 \in Int /\ hour \in Int /\ DayHours \in Lens
    BY RecorderAssumption DEF RecInv, Lens
  <2>4. CommonDays \in SUBSET (0..hour)
    BY <2>3, TimesAre DEF CommonDays
  <2>5. bar \in CommonDays /\ \A t \in CommonDays : t <= bar
    BY ONLY <2>2, <2>3, <2>4, Extremes
  <2>6. bar \in Nat /\ bar <= day - 1
    BY <2>5, DaysAreOver DEF CommonDays
  <2>7. day \in Nat /\ vouched \in Nat
    BY <2>3, DayIs DEF RecInv
  <2> HIDE DEF day, bar
  <2>8. vouched - 1 <= bar
    <3>1. CASE vouched = 0
      BY <2>6, <3>1
    <3>2. CASE vouched # 0
      BY <2>5, <3>2 DEF Vouched
    <3> QED
      BY <3>1, <3>2
  <2> QED
    BY <2>2, <2>6, <2>7, <2>8
<1>2. BRInit => Vouched
  BY DEF BRInit, Vouched
<1> HIDE DEF Heeds
<1>3. BRSpec => [][Heeds]_BRvars
  BY <1>1, <1>2, VouchedStays, RecInvariant, PTL DEF BRSpec
<1> QED
  BY <1>3 DEF CycleAfterReport, Heeds
=============================================================================
